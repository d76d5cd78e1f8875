-------------------------- MODULE SupervisorProofs --------------------------
(***************************************************************************)
(* Proofs about the supervisor, for any clients, limits and number of      *)
(* runners and failures: one owner of a session at a time, clients that    *)
(* are told what happened to their commands, places in the global queue    *)
(* that come back, and a circuit that opens after so many failures.        *)
(***************************************************************************)
EXTENDS SupervisorPromises, SequenceTheorems, FiniteSetTheorems, TLAPS

Pcs == {"off", "insert", "admit", "read", "mark", "ensure", "waiting", "recover", "activate",
        "dispatch", "reserve", "reserving", "holding", "awaiting", "stop", "join", "detach",
        "forget", "done", "left", "discover", "enlist", "check", "glance", "scan", "look", "next"}
Answers == {"none", "ok", "lost", "full", "overloaded", "notfound", "failed", "deleting",
            "circuit", "unavailable", "drained"} \cup Pcs
StageSet == {"none", "append", "loop"}
Statuses == {"unchecked", "recovering", "active", "idle", "circuit", "unavailable", "deleting"}
SlotSet == [status : Statuses, id : Nat, chan : Nat, finished : BOOLEAN]
RunnerSet == [pc : {"run", "idle", "circuit", "stopped", "failed", "gone"},
              at : Nat, chan : Nat, stage : StageSet]
CommandSet == [what : AllKinds \cup {"none", "stop", "fault"}, from : Actors \cup {"none"}, stage : StageSet, count : Nat]
ChanSet == [queue : Seq(CommandSet), open : BOOLEAN]
ActorSet == [pc : Pcs, kind : AllKinds \cup {"none"}, at : Nat, id : Nat, heard : BOOLEAN,
             permit : BOOLEAN, answer : Answers]
StreakSet == [stage : StageSet, count : Nat, steps : Nat]
LogSet == [dir : {"none", "live", "detached"}, work : BOOLEAN, finished : BOOLEAN,
           streak : StreakSet, applied : Seq(Actors \cup {"none"})]

SupervisorTypes ==
  /\ log \in LogSet /\ slots \in Seq(SlotSet) /\ map \in 0..Len(slots)
  /\ chans \in Seq(ChanSet) /\ runners \in Seq(RunnerSet)
  /\ actors \in [Actors -> ActorSet]
  /\ stopping \in BOOLEAN /\ row \in StreakSet

\* A runner has a channel, a rebuild knows which runner failed, and a task that
\* has a slot at hand has one that was made.
Wired ==
  /\ \A id \in DOMAIN runners : runners[id].chan \in DOMAIN chans
  /\ actors["rebuild"].pc \in {"recover", "activate"} =>
       actors["rebuild"].id \in DOMAIN runners
  /\ \A x \in Actors : actors[x].at \in 0..Len(slots)

-----------------------------------------------------------------------------
\* What the helpers of the actions return.

LEMMA Words ==
  /\ {"off", "ensure", "mark", "done", "left"} \subseteq Pcs
  /\ {"none", "ok", "lost"} \subseteq Answers /\ Pcs \subseteq Answers
  BY DEF Pcs, Answers

LEMMA ExceptAt ==
  ASSUME NEW S, NEW seq \in Seq(S), NEW i, NEW e, i \in DOMAIN seq => e \in S
  PROVE  LET next == [seq EXCEPT ![i] = e] IN
         /\ next \in Seq(S) /\ DOMAIN next = DOMAIN seq /\ Len(next) = Len(seq)
         /\ \A j \in DOMAIN seq : next[j] = IF j = i THEN e ELSE seq[j]
<1> DEFINE next == [seq EXCEPT ![i] = e]
<1>1. seq \in [1..Len(seq) -> S] /\ DOMAIN seq = 1..Len(seq) /\ Len(seq) \in Nat
  BY LenProperties
<1>2. next \in [1..Len(seq) -> S]
  BY <1>1
<1>3. next \in Seq(S)
  BY <1>1, <1>2, SeqDef
<1>4. DOMAIN next = DOMAIN seq /\ \A j \in DOMAIN seq : next[j] = IF j = i THEN e ELSE seq[j]
  BY <1>1
<1>5. Len(next) = Len(seq)
  BY <1>1, <1>3, <1>4, LenProperties
<1> QED BY <1>3, <1>4, <1>5

LEMMA GoReturns ==
  ASSUME actors \in [Actors -> ActorSet], NEW x \in Actors, NEW pc \in Pcs
  PROVE  LET next == Go(x, pc) IN
         /\ next \in [Actors -> ActorSet]
         /\ \A y \in Actors : y # x => next[y] = actors[y]
         /\ next[x].pc = pc /\ next[x].at = actors[x].at /\ next[x].kind = actors[x].kind
         /\ next[x].permit = actors[x].permit /\ next[x].answer = actors[x].answer
         /\ next[x].id = (IF pc \in Forgetful THEN 0 ELSE actors[x].id)
<1> DEFINE v == [actors[x] EXCEPT !.pc = pc, !.id = IF pc \in Forgetful THEN 0 ELSE actors[x].id,
                               !.heard = FALSE]
<1>1. actors[x] \in ActorSet
  OBVIOUS
<1>2. v \in ActorSet
  BY <1>1 DEF ActorSet
<1>3. /\ v.pc = pc /\ v.at = actors[x].at /\ v.kind = actors[x].kind
      /\ v.permit = actors[x].permit /\ v.answer = actors[x].answer
      /\ v.id = (IF pc \in Forgetful THEN 0 ELSE actors[x].id)
  BY <1>1 DEF ActorSet
<1>4. Go(x, pc) = [actors EXCEPT ![x] = v]
  BY DEF Go
<1> HIDE DEF v
<1> QED BY <1>2, <1>3, <1>4

LEMMA FinishReturns ==
  ASSUME actors \in [Actors -> ActorSet], NEW x \in Actors, NEW answer \in Answers
  PROVE  LET next == Finish(x, answer) IN
         /\ next \in [Actors -> ActorSet]
         /\ \A y \in Actors : y # x => next[y] = actors[y]
         /\ next[x].pc = "done" /\ next[x].kind = actors[x].kind
         /\ next[x].answer = answer /\ ~next[x].permit /\ next[x].at = 0
<1> DEFINE v == Ended(actors[x], "done", answer)
<1>1. actors[x] \in ActorSet
  OBVIOUS
<1>2. /\ v \in ActorSet /\ v.pc = "done" /\ v.kind = actors[x].kind
      /\ v.answer = answer /\ ~v.permit /\ v.at = 0
  BY <1>1, Words DEF ActorSet, Ended, NoActor
<1>3. Finish(x, answer) = [actors EXCEPT ![x] = v]
  BY DEF Finish
<1> HIDE DEF v
<1> QED BY <1>2, <1>3

LEMMA NotifiedReturns ==
  ASSUME NEW all \in [Actors -> ActorSet], NEW s
  PROVE  LET next == Notified(all, s) IN
         /\ next \in [Actors -> ActorSet]
         /\ \A y \in Actors :
              /\ next[y].at = all[y].at /\ next[y].id = all[y].id /\ next[y].kind = all[y].kind
              /\ next[y].permit = all[y].permit /\ next[y].answer = all[y].answer
              /\ \/ next[y].pc = all[y].pc
                 \/ all[y].pc = "waiting" /\ all[y].at = s /\ all[y].kind = "delete" /\ next[y].pc = "mark"
                 \/ all[y].pc = "waiting" /\ all[y].at = s /\ all[y].kind # "delete" /\ next[y].pc = "ensure"
<1> DEFINE v(y) == Notified(all, s)[y]
<1>1. ASSUME NEW y \in Actors
      PROVE  /\ v(y) \in ActorSet
             /\ v(y).at = all[y].at /\ v(y).id = all[y].id /\ v(y).kind = all[y].kind
             /\ v(y).permit = all[y].permit /\ v(y).answer = all[y].answer
             /\ \/ v(y).pc = all[y].pc
                \/ all[y].pc = "waiting" /\ all[y].at = s /\ all[y].kind = "delete" /\ v(y).pc = "mark"
                \/ all[y].pc = "waiting" /\ all[y].at = s /\ all[y].kind # "delete" /\ v(y).pc = "ensure"
  <2>1. all[y] \in ActorSet
    OBVIOUS
  <2>2. v(y) = IF all[y].at # s THEN all[y]
               ELSE IF all[y].pc = "waiting"
               THEN [all[y] EXCEPT !.pc = IF all[y].kind = "delete" THEN "mark" ELSE "ensure"]
               ELSE IF all[y].pc = "reserving" THEN [all[y] EXCEPT !.heard = TRUE]
               ELSE all[y]
    BY DEF Notified
  <2> HIDE DEF v
  <2> QED BY <2>1, <2>2, Words DEF ActorSet
<1>2. Notified(all, s) = [y \in Actors |-> v(y)]
  BY DEF Notified
<1> HIDE DEF v
<1> QED BY <1>1, <1>2

LEMMA DroppedReturns ==
  ASSUME NEW all \in [Actors -> ActorSet], NEW commands
  PROVE  LET next == Dropped(all, commands) IN
         /\ next \in [Actors -> ActorSet]
         /\ \A y \in Actors :
              \/ next[y] = all[y] /\ \A i \in DOMAIN commands : commands[i].from # y
              \/ /\ all[y].pc # "awaiting" /\ ~next[y].permit
                 /\ \E i \in DOMAIN commands : commands[i].from = y
                 /\ next[y].pc = all[y].pc /\ next[y].at = all[y].at /\ next[y].id = all[y].id
                 /\ next[y].kind = all[y].kind /\ next[y].answer = all[y].answer
              \/ /\ all[y].pc = "awaiting" /\ next[y].pc = "done" /\ next[y].kind = all[y].kind
                 /\ next[y].answer = "lost" /\ ~next[y].permit /\ next[y].at = 0
                 /\ \E i \in DOMAIN commands : commands[i].from = y
<1> DEFINE v(y) == Dropped(all, commands)[y]
           In(y) == \E i \in DOMAIN commands : commands[i].from = y
<1>1. ASSUME NEW y \in Actors
      PROVE  /\ v(y) \in ActorSet
             /\ \/ v(y) = all[y] /\ ~In(y)
                \/ /\ all[y].pc # "awaiting" /\ ~v(y).permit /\ In(y)
                   /\ v(y).pc = all[y].pc /\ v(y).at = all[y].at /\ v(y).id = all[y].id
                   /\ v(y).kind = all[y].kind /\ v(y).answer = all[y].answer
                \/ /\ all[y].pc = "awaiting" /\ v(y).pc = "done" /\ v(y).kind = all[y].kind
                   /\ v(y).answer = "lost" /\ ~v(y).permit /\ v(y).at = 0 /\ In(y)
  <2>1. all[y] \in ActorSet
    OBVIOUS
  <2>2. \/ v(y) = all[y] /\ ~In(y)
        \/ all[y].pc = "awaiting" /\ v(y) = Ended(all[y], "done", "lost") /\ In(y)
        \/ all[y].pc # "awaiting" /\ v(y) = [all[y] EXCEPT !.permit = FALSE] /\ In(y)
    BY DEF Dropped
  <2> HIDE DEF v, In
  <2>3. Ended(all[y], "done", "lost") \in ActorSet
    BY <2>1, Words DEF ActorSet, Ended, NoActor
  <2>4. LET w == Ended(all[y], "done", "lost") IN
        w.pc = "done" /\ w.kind = all[y].kind /\ w.answer = "lost" /\ ~w.permit /\ w.at = 0
    BY <2>1 DEF ActorSet, Ended, NoActor
  <2>5. LET w == [all[y] EXCEPT !.permit = FALSE] IN
        /\ w \in ActorSet /\ ~w.permit /\ w.pc = all[y].pc /\ w.at = all[y].at
        /\ w.id = all[y].id /\ w.kind = all[y].kind /\ w.answer = all[y].answer
    BY <2>1 DEF ActorSet
  <2> QED BY <2>1, <2>2, <2>3, <2>4, <2>5
<1>2. Dropped(all, commands) = [y \in Actors |-> v(y)]
  BY DEF Dropped
<1>3. \A y \in Actors : In(y) \/ \A i \in DOMAIN commands : commands[i].from # y
  OBVIOUS
<1> HIDE DEF v
<1> QED BY <1>1, <1>2, <1>3

LEMMA SentReturns ==
  ASSUME chans \in Seq(ChanSet), NEW ch, NEW command \in CommandSet
  PROVE  Sent(ch, command) \in Seq(ChanSet) /\ DOMAIN Sent(ch, command) = DOMAIN chans
<1> DEFINE v == [chans[ch] EXCEPT !.queue = Append(@, command)]
<1>1. ASSUME ch \in DOMAIN chans PROVE v \in ChanSet
  <2>1. chans[ch] \in ChanSet
    BY <1>1
  <2>2. Append(chans[ch].queue, command) \in Seq(CommandSet)
    BY <2>1 DEF ChanSet
  <2> QED BY <2>1, <2>2 DEF ChanSet
<1>2. Sent(ch, command) = chans \/ Sent(ch, command) = [chans EXCEPT ![ch] = v]
  BY DEF Sent
<1> HIDE DEF v
<1> QED BY <1>1, <1>2, ExceptAt

LEMMA ClosedReturns ==
  ASSUME chans \in Seq(ChanSet), NEW ch
  PROVE  Closed(ch) \in Seq(ChanSet) /\ DOMAIN Closed(ch) = DOMAIN chans
<1>1. [queue |-> <<>>, open |-> FALSE] \in ChanSet
  BY DEF ChanSet
<1>2. Closed(ch) = [chans EXCEPT ![ch] = [queue |-> <<>>, open |-> FALSE]]
  BY DEF Closed
<1> QED BY <1>1, <1>2, ExceptAt

-----------------------------------------------------------------------------
\* Who owns the session.

HoldPcs == {"recover", "activate", "glance"}
DelPcs == {"stop", "join", "detach", "forget"}
\* Where a task has a slot at hand.
PlacedPcs == {"admit", "mark", "read", "ensure", "waiting", "dispatch", "reserve",
              "reserving", "holding", "awaiting", "check"} \cup HoldPcs

\* A slot that is not in the map belongs to a session that was deleted.
SlotsInv == \A s \in DOMAIN slots \ {map} : slots[s].status = "deleting" /\ log.dir = "detached"

\* A runner that is alive is the newest of its slot, and the slot says so.
RunnersInv ==
  \A id \in DOMAIN runners :
    /\ runners[id].at \in DOMAIN slots /\ id <= slots[runners[id].at].id
    /\ id \in Alive => /\ id = slots[runners[id].at].id
                       /\ slots[runners[id].at].status \in {"active", "deleting"}

\* Whoever recovers a slot does so alone, and not after a deletion.
HoldersInv ==
  /\ \A x \in Actors : actors[x].pc \in PlacedPcs => actors[x].at \in DOMAIN slots
  /\ \A x \in Actors : Holding(x) => Slot(x).status = "recovering"
  /\ \A x, y \in Actors : Holding(x) /\ Holding(y) => x = y
  /\ \A x \in Actors : actors[x].pc = "activate" => log.dir # "detached"

Deletes(c) == actors[c].pc \in DelPcs

\* Whoever deletes the session does so alone, and moves the directory when no
\* runner is alive.
DeletersInv ==
  /\ \A c \in Clients : Deletes(c) => /\ actors[c].at = map /\ map # 0
                                      /\ slots[map].status = "deleting"
  /\ \A c, d \in Clients : Deletes(c) /\ Deletes(d) => c = d
  /\ \A c \in Clients : actors[c].pc \in {"stop", "join"} => actors[c].id = Slot(c).id
  /\ \A c \in Clients : actors[c].pc \in {"detach", "forget"} => Alive = {}
  /\ \A c \in Clients : actors[c].pc = "forget" => log.dir = "detached"

OwnerInv == SlotsInv /\ RunnersInv /\ HoldersInv /\ DeletersInv /\ DeletedQuiet

\* A task goes where it neither recovers nor deletes.
Meek(x) ==
  /\ actors'[x].pc \notin HoldPcs /\ (x \in Clients => actors'[x].pc \notin DelPcs)
  /\ actors'[x].pc \in PlacedPcs => actors'[x].at \in DOMAIN slots
  /\ actors'[x].at \in 0..Len(slots)

Stays(x) ==
  actors'[x].pc = actors[x].pc /\ actors'[x].at = actors[x].at /\ actors'[x].id = actors[x].id

LEMMA OwnerAside ==
  ASSUME OwnerInv, UNCHANGED <<slots, map>>, log'.dir = "detached" <=> log.dir = "detached",
         \A id \in DOMAIN runners' : /\ id \in DOMAIN runners /\ runners'[id].at = runners[id].at
                                     /\ id \in Alive' => id \in Alive,
         \A x \in Actors : Meek(x) \/ Stays(x)
  PROVE  OwnerInv'
<1>1. SlotsInv'
  BY DEF OwnerInv, SlotsInv
<1>2. RunnersInv'
  BY DEF OwnerInv, RunnersInv
<1>3. HoldersInv'
  BY DEF OwnerInv, HoldersInv, Meek, Stays, Holding, Slot, HoldPcs
<1>4. Alive' \subseteq Alive
  BY DEF Alive
<1>5. DeletersInv'
  <2>1. Clients \subseteq Actors
    BY DEF Actors
  <2>2. \A c \in Clients : Deletes(c)' => Stays(c)
    BY <2>1 DEF Meek, Deletes
  <2> QED BY <1>4, <2>1, <2>2 DEF OwnerInv, DeletersInv, Stays, Deletes, DelPcs, Slot
<1>6. DeletedQuiet'
  BY <1>4 DEF OwnerInv, DeletedQuiet
<1> QED BY <1>1, <1>2, <1>3, <1>5, <1>6 DEF OwnerInv

SupervisorInv == SupervisorTypes /\ Wired /\ OwnerInv

\* One task moves, and nothing else that matters.
LEMMA Moves ==
  ASSUME SupervisorInv, UNCHANGED <<log, slots, map, runners, row>>, stopping' \in BOOLEAN,
         chans' \in Seq(ChanSet), DOMAIN chans' = DOMAIN chans,
         actors' \in [Actors -> ActorSet], \A x \in Actors : Meek(x) \/ Stays(x)
  PROVE  SupervisorInv'
<1>1. SupervisorTypes'
  BY DEF SupervisorInv, SupervisorTypes
<1>2. Wired'
  BY DEF SupervisorInv, Wired, Meek, Stays, HoldPcs, Actors
<1>3. Alive' = Alive
  BY DEF Alive
<1>4. OwnerInv'
  BY <1>3, OwnerAside DEF SupervisorInv
<1> QED BY <1>1, <1>2, <1>4 DEF SupervisorInv

LEMMA Walks ==
  ASSUME SupervisorInv, NEW x \in Actors,
         \/ \E pc \in Pcs : /\ actors' = Go(x, pc) /\ pc \notin HoldPcs
                            /\ x \in Clients => pc \notin DelPcs
                            /\ pc \in PlacedPcs => actors[x].at \in DOMAIN slots
         \/ \E answer \in Answers : actors' = Finish(x, answer)
  PROVE  actors' \in [Actors -> ActorSet] /\ \A y \in Actors : Meek(y) \/ Stays(y)
<1>0. /\ actors \in [Actors -> ActorSet] /\ \A y \in Actors : actors[y].at \in 0..Len(slots)
      /\ slots \in Seq(SlotSet)
  BY DEF SupervisorInv, SupervisorTypes, Wired
<1>1. ASSUME NEW pc \in Pcs, actors' = Go(x, pc), pc \notin HoldPcs,
             x \in Clients => pc \notin DelPcs,
             pc \in PlacedPcs => actors[x].at \in DOMAIN slots
      PROVE  actors' \in [Actors -> ActorSet] /\ \A y \in Actors : Meek(y) \/ Stays(y)
  <2>1. actors' \in [Actors -> ActorSet] /\ \A y \in Actors : y # x => Stays(y)
    BY <1>0, <1>1, GoReturns DEF Stays
  <2>2. actors'[x].pc = pc /\ actors'[x].at = actors[x].at
    BY <1>0, <1>1, GoReturns
  <2>3. Meek(x)
    BY <1>0, <1>1, <2>2 DEF Meek
  <2> QED BY <2>1, <2>3
<1>2. ASSUME NEW answer \in Answers, actors' = Finish(x, answer)
      PROVE  actors' \in [Actors -> ActorSet] /\ \A y \in Actors : Meek(y) \/ Stays(y)
  <2>1. "done" \notin HoldPcs \cup DelPcs \cup PlacedPcs
    BY DEF HoldPcs, DelPcs, PlacedPcs
  <2>2. 0 \in 0..Len(slots)
    BY <1>0
  <2> QED BY <1>0, <1>2, <2>1, <2>2, FinishReturns DEF Meek, Stays
<1> QED BY <1>1, <1>2

\* What holds of a task by where it is.
LEMMA Placed ==
  ASSUME SupervisorInv, NEW x \in Actors, actors[x].pc \in PlacedPcs
  PROVE  /\ actors[x].at \in DOMAIN slots /\ Slot(x) \in SlotSet
         /\ Slot(x).status \in Statuses
<1>1. actors[x].at \in DOMAIN slots /\ slots \in Seq(SlotSet)
  BY DEF SupervisorInv, SupervisorTypes, OwnerInv, HoldersInv
<1>2. Slot(x) \in SlotSet
  BY <1>1 DEF Slot
<1> QED BY <1>1, <1>2 DEF SlotSet

LEMMA IsAt ==
  /\ {"admit", "mark", "read", "ensure", "waiting", "dispatch", "reserve", "reserving",
      "holding", "awaiting", "check", "recover", "activate", "glance"} \subseteq Pcs \cap PlacedPcs
  /\ {"stop", "join", "detach", "forget", "done", "left", "off", "insert", "look", "next", "scan",
      "enlist", "discover"} \subseteq Pcs
  /\ \A pc \in {"off", "insert", "stop", "join", "detach", "forget", "done", "left", "look", "next",
                "scan", "enlist", "discover"} : pc \notin PlacedPcs
  /\ \A pc \in {"admit", "mark", "read", "ensure", "waiting", "dispatch", "reserve", "reserving",
                "holding", "awaiting", "check", "off", "insert", "done", "left", "look", "next",
                "scan", "enlist", "discover"} : pc \notin HoldPcs \cup DelPcs
  /\ Pcs \subseteq Answers
  /\ {"none", "ok", "lost", "full", "overloaded", "notfound", "failed", "deleting",
      "circuit", "unavailable", "drained"} \subseteq Answers
  BY DEF Pcs, PlacedPcs, HoldPcs, DelPcs, Answers

LEMMA AdmitOwner ==
  ASSUME SupervisorInv, NEW c \in Clients, Admit(c) \/ ReadLog(c)
  PROVE  SupervisorInv'
<1>0. c \in Actors /\ actors \in [Actors -> ActorSet]
  BY DEF Actors, SupervisorInv, SupervisorTypes
<1>1. actors' \in [Actors -> ActorSet] /\ \A x \in Actors : Meek(x) \/ Stays(x)
  <2>1. CASE ReadLog(c)
    BY <1>0, <2>1, IsAt, Walks DEF ReadLog
  <2>2. CASE Admit(c) /\ actors' = Finish(c, "overloaded")
    BY <1>0, <2>2, IsAt, Walks
  <2>3. CASE Admit(c) /\ \E next \in {"mark", "read", "ensure"} :
               actors' = [actors EXCEPT ![c].pc = next, ![c].permit = actors[c].kind \in External]
    <3>1. PICK next \in {"mark", "read", "ensure"} :
            actors' = [actors EXCEPT ![c].pc = next, ![c].permit = actors[c].kind \in External]
      BY <2>3
    <3>2. /\ actors[c].at \in DOMAIN slots /\ actors[c] \in ActorSet
          /\ actors[c].at \in 0..Len(slots)
      BY <1>0, <2>3, IsAt, Placed DEF Admit, SupervisorInv, Wired
    <3> DEFINE v == [actors[c] EXCEPT !.pc = next, !.permit = actors[c].kind \in External]
    <3>3. actors' = [actors EXCEPT ![c] = v]
      BY <1>0, <3>1
    <3>4. v \in ActorSet /\ v.pc = next /\ v.at = actors[c].at
      <4> DEFINE b == actors[c].kind \in External
      <4>1. b \in BOOLEAN /\ v = [actors[c] EXCEPT !.pc = next, !.permit = b]
        OBVIOUS
      <4> HIDE DEF v, b
      <4> QED BY <3>2, <4>1, IsAt DEF ActorSet
    <3> HIDE DEF v
    <3> QED BY <1>0, <3>2, <3>3, <3>4, IsAt DEF Meek, Stays
  <2> QED BY <2>1, <2>2, <2>3 DEF Admit
<1>2. UNCHANGED <<log, slots, map, runners, row, stopping, chans>>
  BY DEF Admit, ReadLog
<1> QED BY <1>1, <1>2, Moves DEF SupervisorInv, SupervisorTypes

LEMMA LookupOwner ==
  ASSUME SupervisorInv, NEW c \in Clients, Lookup(c)
  PROVE  SupervisorInv'
<1>0. /\ c \in Actors /\ actors \in [Actors -> ActorSet] /\ map \in 0..Len(slots)
      /\ slots \in Seq(SlotSet)
  BY DEF Actors, SupervisorInv, SupervisorTypes
<1>1. PICK kind \in Kinds \ {"create"} : actors' = [actors EXCEPT ![c] =
         [NoActor EXCEPT !.kind = kind, !.at = map,
            !.pc = IF map # 0 THEN "admit" ELSE IF log.dir = "live" THEN "insert" ELSE "done",
            !.answer = IF map = 0 /\ log.dir # "live" THEN "notfound" ELSE "none"]]
  BY DEF Lookup
<1>2. PICK pc \in {"admit", "insert", "done"}, answer \in {"none", "notfound"} :
        /\ actors' = [actors EXCEPT ![c] =
             [NoActor EXCEPT !.kind = kind, !.at = map, !.pc = pc, !.answer = answer]]
        /\ pc = "admit" => map # 0
  BY <1>1
<1> DEFINE v == [NoActor EXCEPT !.kind = kind, !.at = map, !.pc = pc, !.answer = answer]
<1>3. v \in ActorSet /\ v.pc = pc /\ v.at = map
  <2>1. kind \in AllKinds /\ map \in Nat
    BY <1>0, SupervisorAssumption
  <2> QED BY <2>1, IsAt DEF ActorSet, NoActor
<1>4. actors' = [actors EXCEPT ![c] = v]
  BY <1>2
<1> HIDE DEF v
<1>5. map # 0 => map \in DOMAIN slots
  BY <1>0
<1>6. actors' \in [Actors -> ActorSet] /\ \A x \in Actors : Meek(x) \/ Stays(x)
  BY <1>0, <1>2, <1>3, <1>4, <1>5, IsAt DEF Meek, Stays
<1>7. UNCHANGED <<log, slots, map, runners, row, stopping, chans>>
  BY DEF Lookup
<1> QED BY <1>6, <1>7, Moves DEF SupervisorInv, SupervisorTypes

LEMMA CommandTyped ==
  ASSUME actors \in [Actors -> ActorSet], NEW c \in Actors
  PROVE  Command(actors[c].kind, c) \in CommandSet /\ Command("stop", c) \in CommandSet
  BY DEF Command, CommandSet, ActorSet, StageSet

\* The steps of a request between its admission and its end that neither claim
\* the slot nor close it.
LEMMA RequestOwner ==
  ASSUME SupervisorInv, NEW c \in Clients,
         \/ EnsureActive(c) /\ Slot(c).status \notin {"unchecked", "idle"}
         \/ Dispatch(c) \/ Reserve(c) \/ TakePlace(c) \/ SendInternal(c)
  PROVE  SupervisorInv'
<1>0. /\ c \in Actors /\ actors \in [Actors -> ActorSet] /\ chans \in Seq(ChanSet)
      /\ stopping \in BOOLEAN
  BY DEF Actors, SupervisorInv, SupervisorTypes
<1>1. actors[c].pc \in PlacedPcs
  BY IsAt DEF EnsureActive, Dispatch, Reserve, TakePlace, SendInternal
<1>2. /\ actors[c].at \in DOMAIN slots /\ Slot(c) \in SlotSet /\ Slot(c).status \in Statuses
      /\ actors[c].at \in 0..Len(slots)
  BY <1>0, <1>1, Placed DEF SupervisorInv, Wired
<1>3. /\ actors[c] \in ActorSet /\ Slot(c).id \in Nat
      /\ {"circuit", "unavailable", "deleting"} \subseteq Answers
  BY <1>0, <1>2, IsAt DEF SlotSet
<1>4. actors' \in [Actors -> ActorSet] /\ \A x \in Actors : Meek(x) \/ Stays(x)
  <2>1. CASE \/ \E pc \in {"dispatch", "reserve", "waiting", "awaiting", "ensure", "holding"} :
                  actors' = Go(c, pc)
             \/ \E answer \in {"circuit", "unavailable", "deleting", "full", "ok", "lost"} :
                  actors' = Finish(c, answer)
    <3>1. CASE \E pc \in {"dispatch", "reserve", "waiting", "awaiting", "ensure", "holding"} :
                 actors' = Go(c, pc)
      BY <1>0, <1>2, <3>1, IsAt, Walks
    <3>2. CASE \E answer \in {"circuit", "unavailable", "deleting", "full", "ok", "lost"} :
                 actors' = Finish(c, answer)
      BY <1>0, <3>2, IsAt, Walks
    <3> QED BY <2>1, <3>1, <3>2
  <2>2. CASE actors' = [actors EXCEPT ![c].pc = "reserving", ![c].id = Slot(c).id,
                                      ![c].heard = FALSE]
    <3> DEFINE v == [actors[c] EXCEPT !.pc = "reserving", !.id = Slot(c).id, !.heard = FALSE]
    <3>1. actors' = [actors EXCEPT ![c] = v]
      BY <1>0, <2>2
    <3>2. v \in ActorSet /\ v.pc = "reserving" /\ v.at = actors[c].at
      BY <1>3, IsAt DEF ActorSet
    <3> HIDE DEF v
    <3> QED BY <1>0, <1>2, <3>1, <3>2, IsAt DEF Meek, Stays
  <2>3. CASE EnsureActive(c) /\ Slot(c).status \notin {"unchecked", "idle"}
    BY <1>2, <2>1, <2>3 DEF EnsureActive, Sends, Statuses
  <2>4. CASE Dispatch(c)
    BY <1>2, <2>1, <2>4 DEF Dispatch, Refused
  <2>5. CASE Reserve(c)
    BY <1>2, <2>1, <2>2, <2>5 DEF Reserve, Refused
  <2>6. CASE TakePlace(c)
    BY <2>1, <2>6 DEF TakePlace
  <2>7. CASE SendInternal(c)
    BY <2>1, <2>7 DEF SendInternal
  <2> QED BY <2>3, <2>4, <2>5, <2>6, <2>7
<1>5. chans' \in Seq(ChanSet) /\ DOMAIN chans' = DOMAIN chans
  <2>1. chans' = chans \/ \E ch : chans' = Sent(ch, Command(actors[c].kind, c))
    BY DEF EnsureActive, Dispatch, Reserve, TakePlace, SendInternal
  <2> QED BY <1>0, <2>1, SentReturns, CommandTyped
<1>6. UNCHANGED <<log, slots, map, runners, row, stopping>>
  BY DEF EnsureActive, Dispatch, Reserve, TakePlace, SendInternal
<1> QED BY <1>0, <1>4, <1>5, <1>6, Moves

LEMMA DownOwner ==
  ASSUME SupervisorInv, Discover \/ ScanEnded \/ Look \/ Again \/ Shutdown
  PROVE  SupervisorInv'
<1>0. /\ {"scan", "down"} \subseteq Actors \ Clients /\ actors \in [Actors -> ActorSet]
      /\ chans \in Seq(ChanSet) /\ stopping \in BOOLEAN /\ map \in Nat /\ slots \in Seq(SlotSet)
  BY SupervisorAssumption DEF Actors, SupervisorInv, SupervisorTypes
<1>1. actors' \in [Actors -> ActorSet] /\ \A x \in Actors : Meek(x) \/ Stays(x)
  <2>1. CASE \/ actors' = Go("scan", "enlist") \/ \E answer \in {"ok", "failed"} : actors' = Finish("scan", answer)
             \/ actors' = Go("down", "scan") \/ actors' = Go("down", "next")
    BY <1>0, <2>1, IsAt, Walks
  <2> DEFINE a == actors["down"]
  <2>2. a \in ActorSet /\ a.at \in 0..Len(slots) /\ map \in 0..Len(slots)
    BY <1>0 DEF SupervisorInv, SupervisorTypes, Wired
  <2>3. ASSUME NEW v \in ActorSet, v.at \in 0..Len(slots), v.pc \in {"look", "stop", "scan"},
               actors' = [actors EXCEPT !["down"] = v]
        PROVE  actors' \in [Actors -> ActorSet] /\ \A x \in Actors : Meek(x) \/ Stays(x)
    <3>1. actors' \in [Actors -> ActorSet] /\ \A x \in Actors : x # "down" => Stays(x)
      BY <1>0, <2>3 DEF Stays
    <3>2. actors'["down"].pc = v.pc /\ actors'["down"].at = v.at
      BY <1>0, <2>3
    <3>3. v.pc \notin HoldPcs /\ v.pc \notin PlacedPcs
      BY <2>3 DEF HoldPcs, PlacedPcs
    <3>4. Meek("down")
      BY <1>0, <2>3, <3>2, <3>3 DEF Meek
    <3> QED BY <3>1, <3>4
  <2>4. CASE ScanEnded
    <3> DEFINE v == [a EXCEPT !.pc = "look", !.at = map]
    <3>1. actors' = [actors EXCEPT !["down"] = v]
      BY <1>0, <2>4 DEF ScanEnded
    <3>2. v \in ActorSet /\ v.pc = "look" /\ v.at = map
      BY <1>0, <2>2, IsAt DEF ActorSet
    <3> HIDE DEF v
    <3> QED BY <2>2, <2>3, <3>1, <3>2
  <2>5. CASE Again
    <3> DEFINE v == [a EXCEPT !.pc = "scan", !.answer = "drained"]
    <3>1. actors' = [actors EXCEPT !["down"] = v]
      BY <1>0, <2>5 DEF Again
    <3>2. v \in ActorSet /\ v.pc = "scan" /\ v.at = a.at
      BY <1>0, <2>2, IsAt DEF ActorSet
    <3> HIDE DEF v
    <3> QED BY <2>2, <2>3, <3>1, <3>2
  <2>6. CASE Look /\ a.at # 0 /\ Slot("down").status = "active"
    <3> DEFINE v == [a EXCEPT !.pc = "stop", !.id = Slot("down").id]
    <3>1. actors' = [actors EXCEPT !["down"] = v]
      BY <1>0, <2>6 DEF Look
    <3>2. Slot("down") \in SlotSet
      BY <1>0, <2>2, <2>6 DEF Slot
    <3>3. v \in ActorSet /\ v.pc = "stop" /\ v.at = a.at
      BY <2>2, <3>2, IsAt DEF ActorSet, SlotSet
    <3> HIDE DEF v
    <3> QED BY <2>2, <2>3, <3>1, <3>3
  <2> QED BY <2>1, <2>4, <2>5, <2>6 DEF Discover, Look, Shutdown
<1>2. UNCHANGED <<log, slots, map, runners, row, chans>> /\ stopping' \in BOOLEAN
  BY <1>0 DEF Discover, ScanEnded, Look, Again, Shutdown
<1> QED BY <1>0, <1>1, <1>2, Moves

-----------------------------------------------------------------------------
\* Recoveries.

\* Nobody holds a slot that is neither recovered nor deleted, and nobody else
\* one that is.
LEMMA Unheld ==
  ASSUME SupervisorInv, NEW s \in DOMAIN slots, slots[s].status \notin {"recovering", "deleting"}
  PROVE  /\ s = map /\ \A x \in Actors : ~Holding(x)
         /\ \A c \in Clients : ~Deletes(c)
         /\ slots[s].status # "active" => Alive = {}
<1>1. s = map
  BY DEF SupervisorInv, OwnerInv, SlotsInv
<1>2. \A x \in Actors : ~Holding(x)
  <2> SUFFICES ASSUME NEW x \in Actors, Holding(x) PROVE FALSE
    OBVIOUS
  <2>1. actors[x].at \in DOMAIN slots /\ Slot(x).status = "recovering"
    BY DEF SupervisorInv, OwnerInv, HoldersInv, Holding, PlacedPcs, HoldPcs
  <2> QED BY <1>1, <2>1 DEF SupervisorInv, OwnerInv, SlotsInv, Slot
<1>3. \A c \in Clients : ~Deletes(c)
  BY <1>1 DEF SupervisorInv, OwnerInv, DeletersInv
<1>4. ASSUME slots[s].status # "active", NEW id \in Alive PROVE FALSE
  <2>1. /\ id \in DOMAIN runners /\ runners[id].at \in DOMAIN slots
        /\ slots[runners[id].at].status \in {"active", "deleting"}
    BY <1>4 DEF SupervisorInv, OwnerInv, RunnersInv, Alive
  <2>2. runners[id].at # map
    BY <1>1, <1>4, <2>1
  <2> QED BY <1>4, <2>1, <2>2 DEF SupervisorInv, OwnerInv, SlotsInv, DeletedQuiet
<1> QED BY <1>1, <1>2, <1>3, <1>4

LEMMA Alone ==
  ASSUME SupervisorInv, NEW x \in Actors, Holding(x)
  PROVE  /\ actors[x].at = map /\ map \in DOMAIN slots /\ slots[map].status = "recovering"
         /\ \A y \in Actors : Holding(y) => y = x
         /\ \A c \in Clients : ~Deletes(c)
         /\ Alive = {}
<1>1. actors[x].at \in DOMAIN slots /\ Slot(x).status = "recovering"
  BY DEF SupervisorInv, OwnerInv, HoldersInv, Holding, PlacedPcs, HoldPcs
<1>2. actors[x].at = map
  BY <1>1 DEF SupervisorInv, OwnerInv, SlotsInv, Slot
<1>3. \A y \in Actors : Holding(y) => y = x
  BY DEF SupervisorInv, OwnerInv, HoldersInv
<1>4. \A c \in Clients : ~Deletes(c)
  BY <1>1, <1>2 DEF SupervisorInv, OwnerInv, DeletersInv, Slot
<1>5. ASSUME NEW id \in Alive PROVE FALSE
  <2>1. /\ id \in DOMAIN runners /\ runners[id].at \in DOMAIN slots
        /\ slots[runners[id].at].status \in {"active", "deleting"}
    BY DEF SupervisorInv, OwnerInv, RunnersInv, Alive
  <2>2. runners[id].at # map
    BY <1>1, <1>2, <2>1 DEF Slot
  <2> QED BY <1>5, <2>1, <2>2 DEF SupervisorInv, OwnerInv, SlotsInv, DeletedQuiet
<1> QED BY <1>1, <1>2, <1>3, <1>4, <1>5 DEF Slot

\* A slot changes its status.
LEMMA Reslots ==
  ASSUME SupervisorInv, UNCHANGED <<log, map, chans, runners, row, stopping>>,
         NEW e \in SlotSet, map \in DOMAIN slots, slots' = [slots EXCEPT ![map] = e],
         e.id = slots[map].id, Alive # {} => e.status \in {"active", "deleting"},
         log.dir = "detached" => e.status \in {"unchecked", "recovering", "unavailable", "deleting"},
         actors' \in [Actors -> ActorSet], \A x \in Actors : actors'[x].at \in 0..Len(slots),
         actors'["rebuild"].pc \in {"recover", "activate"} =>
           /\ actors["rebuild"].pc \in {"recover", "activate"}
           /\ actors'["rebuild"].id = actors["rebuild"].id,
         HoldersInv', DeletersInv'
  PROVE  SupervisorInv'
<1>0. /\ slots \in Seq(SlotSet) /\ slots' \in Seq(SlotSet) /\ DOMAIN slots' = DOMAIN slots
      /\ Len(slots') = Len(slots)
      /\ \A s \in DOMAIN slots : slots'[s] = IF s = map THEN e ELSE slots[s]
  BY ExceptAt DEF SupervisorInv, SupervisorTypes
<1>1. SupervisorTypes'
  BY <1>0 DEF SupervisorInv, SupervisorTypes
<1>2. Wired'
  BY <1>0 DEF SupervisorInv, Wired
<1>3. Alive' = Alive
  BY DEF Alive
<1>4. SlotsInv'
  BY <1>0 DEF SupervisorInv, OwnerInv, SlotsInv
<1>5. RunnersInv'
  BY <1>0, <1>3 DEF SupervisorInv, OwnerInv, RunnersInv
<1>6. DeletedQuiet'
  BY <1>0, <1>3 DEF SupervisorInv, OwnerInv, DeletedQuiet
<1> QED BY <1>1, <1>2, <1>4, <1>5, <1>6 DEF SupervisorInv, OwnerInv

LEMMA Claims ==
  ASSUME SupervisorInv, UNCHANGED <<log, map, chans, runners, row, stopping>>,
         NEW x \in Actors, x # "rebuild", actors[x].at \in DOMAIN slots,
         Slot(x).status \in {"unchecked", "idle"},
         NEW e \in SlotSet, e.id = Slot(x).id, e.status = "recovering",
         slots' = [slots EXCEPT ![actors[x].at] = e],
         NEW pc \in {"recover", "glance"}, actors' = Go(x, pc)
  PROVE  SupervisorInv'
<1>0. /\ slots \in Seq(SlotSet) /\ actors \in [Actors -> ActorSet]
      /\ \A y \in Actors : actors[y].at \in 0..Len(slots)
      /\ "rebuild" \in Actors /\ Clients \subseteq Actors
  BY DEF SupervisorInv, SupervisorTypes, Wired, Actors
<1>1. /\ actors[x].at = map /\ \A y \in Actors : ~Holding(y)
      /\ \A c \in Clients : ~Deletes(c)
      /\ Alive = {}
  BY Unheld DEF Slot
<1>2. /\ actors' \in [Actors -> ActorSet] /\ \A y \in Actors : y # x => actors'[y] = actors[y]
      /\ actors'[x].pc = pc /\ actors'[x].at = map
  BY <1>0, <1>1, IsAt, GoReturns
<1>3. /\ DOMAIN slots' = DOMAIN slots /\ slots'[map] = e
  BY <1>0, <1>1, ExceptAt
<1>4. HoldersInv'
  BY <1>0, <1>1, <1>2, <1>3 DEF HoldersInv, Holding, SupervisorInv, OwnerInv, Slot
<1>5. pc \notin DelPcs
  BY IsAt DEF DelPcs
<1>6. \A c \in Clients : ~Deletes(c)'
  BY <1>0, <1>1, <1>2, <1>5 DEF Deletes
<1>7. DeletersInv'
  BY <1>6 DEF DeletersInv, Deletes, DelPcs
<1>8. \A y \in Actors : actors'[y].at \in 0..Len(slots)
  BY <1>0, <1>1, <1>2
<1> QED BY <1>0, <1>1, <1>2, <1>4, <1>7, <1>8, Reslots DEF Slot

LEMMA EnsureOwner ==
  ASSUME SupervisorInv, NEW c \in Clients, EnsureActive(c)
  PROVE  SupervisorInv'
<1>0. c \in Actors /\ c # "rebuild"
  BY SupervisorAssumption DEF Actors
<1>1. /\ actors[c].at \in DOMAIN slots /\ Slot(c) \in SlotSet /\ Slot(c).status \in Statuses
      /\ slots \in Seq(SlotSet)
  BY <1>0, Placed, IsAt DEF EnsureActive, SupervisorInv, SupervisorTypes
<1>2. CASE Slot(c).status \in {"unchecked", "idle"}
  <2> DEFINE e == [Slot(c) EXCEPT !.status = "recovering", !.finished = FALSE]
  <2>1. slots' = [slots EXCEPT ![actors[c].at] = e]
    BY <1>1, <1>2 DEF EnsureActive, Slot
  <2>2. e \in SlotSet /\ e.id = Slot(c).id /\ e.status = "recovering"
    BY <1>1 DEF SlotSet, Statuses
  <2>3. actors' = Go(c, "recover") /\ UNCHANGED <<log, map, chans, runners, row, stopping>>
    BY <1>2 DEF EnsureActive
  <2> HIDE DEF e
  <2> QED BY <1>0, <1>1, <1>2, <2>1, <2>2, <2>3, Claims
<1>3. CASE Slot(c).status \notin {"unchecked", "idle"}
  BY <1>3, RequestOwner
<1> QED BY <1>2, <1>3

LEMMA CheckOwner ==
  ASSUME SupervisorInv, Check
  PROVE  SupervisorInv'
<1>0. "scan" \in Actors /\ actors \in [Actors -> ActorSet]
  BY DEF Actors, SupervisorInv, SupervisorTypes
<1>1. /\ actors["scan"].at \in DOMAIN slots /\ Slot("scan") \in SlotSet
      /\ slots \in Seq(SlotSet)
  BY <1>0, Placed, IsAt DEF Check, SupervisorInv, SupervisorTypes
<1>2. CASE ~stopping /\ Slot("scan").status = "unchecked"
  <2> DEFINE e == [Slot("scan") EXCEPT !.status = "recovering"]
  <2>1. slots' = [slots EXCEPT ![actors["scan"].at] = e]
    BY <1>1, <1>2 DEF Check, Slot
  <2>2. e \in SlotSet /\ e.id = Slot("scan").id /\ e.status = "recovering"
    BY <1>1 DEF SlotSet, Statuses
  <2>3. actors' = Go("scan", "glance") /\ UNCHANGED <<log, map, chans, runners, row, stopping>>
    BY <1>2 DEF Check
  <2> HIDE DEF e
  <2> QED BY <1>0, <1>1, <1>2, <2>1, <2>2, <2>3, Claims
<1>3. CASE ~(~stopping /\ Slot("scan").status = "unchecked")
  <2>1. actors' = Finish("scan", "ok") /\ UNCHANGED <<log, slots, map, chans, runners, row, stopping>>
    BY <1>3 DEF Check
  <2> QED BY <1>0, <2>1, IsAt, Walks, Moves DEF SupervisorInv, SupervisorTypes
<1> QED BY <1>2, <1>3

\* Who recovers goes on recovering.
LEMMA RecoverOwner ==
  ASSUME SupervisorInv, NEW x \in Actors,
         \/ Recover(x)
         \/ x = "scan" /\ Glance /\ ~(log.dir = "live" /\ (log.finished \/ ~log.work))
  PROVE  SupervisorInv'
<1>0. /\ slots \in Seq(SlotSet) /\ actors \in [Actors -> ActorSet]
      /\ \A y \in Actors : actors[y].at \in 0..Len(slots)
      /\ "rebuild" \in Actors /\ Clients \subseteq Actors
  BY DEF SupervisorInv, SupervisorTypes, Wired, Actors
<1>1. Holding(x)
  BY DEF Recover, Glance, Holding
<1>2. /\ actors[x].at = map /\ map \in DOMAIN slots /\ slots[map].status = "recovering"
      /\ \A y \in Actors : Holding(y) => y = x
      /\ \A c \in Clients : ~Deletes(c)
      /\ Alive = {}
  BY <1>1, Alone
<1>3. PICK pc \in {"recover", "activate"} :
        actors' = Go(x, pc) /\ (pc = "activate" => log.dir = "live" /\ actors[x].pc = "recover")
                            /\ (pc = "recover" => x = "scan")
  BY DEF Recover, Glance
<1>4. UNCHANGED <<log, slots, map, chans, runners, stopping, row>>
  BY DEF Recover, Glance
<1>5. /\ actors' \in [Actors -> ActorSet] /\ \A y \in Actors : y # x => actors'[y] = actors[y]
      /\ actors'[x].pc = pc /\ actors'[x].at = map
      /\ actors'[x].id = actors[x].id
  <2>1. pc \in Pcs /\ pc \notin Forgetful
    BY IsAt DEF Forgetful
  <2> QED BY <1>0, <1>2, <1>3, <2>1, GoReturns
<1>6. HoldersInv'
  BY <1>0, <1>2, <1>3, <1>4, <1>5 DEF HoldersInv, Holding, SupervisorInv, OwnerInv, Slot
<1>7. pc \notin DelPcs
  BY DEF DelPcs
<1>8. \A c \in Clients : ~Deletes(c)'
  BY <1>0, <1>2, <1>5, <1>7 DEF Deletes
<1>9. DeletersInv'
  BY <1>8 DEF DeletersInv, Deletes, DelPcs
<1>10. SupervisorTypes'
  BY <1>4, <1>5 DEF SupervisorInv, SupervisorTypes
<1>11. Wired'
  BY <1>0, <1>2, <1>3, <1>4, <1>5 DEF SupervisorInv, Wired
<1>12. SlotsInv' /\ RunnersInv' /\ DeletedQuiet'
  BY <1>4 DEF SupervisorInv, OwnerInv, SlotsInv, RunnersInv, DeletedQuiet, Alive
<1> QED BY <1>6, <1>9, <1>10, <1>11, <1>12 DEF SupervisorInv, OwnerInv

\* A recovery that ends without a runner.
LEMMA Releases ==
  ASSUME SupervisorInv, UNCHANGED <<log, map, chans, runners, row, stopping>>,
         NEW x \in Actors, Holding(x), NEW answer \in Answers,
         NEW e \in SlotSet, e.id = Slot(x).id,
         e.status = "unavailable" \/ (e.status = "idle" /\ log.dir # "detached"),
         slots' = [slots EXCEPT ![actors[x].at] = e],
         actors' = Notified(Finish(x, answer), actors[x].at)
  PROVE  SupervisorInv'
<1>0. /\ slots \in Seq(SlotSet) /\ actors \in [Actors -> ActorSet]
      /\ \A y \in Actors : actors[y].at \in 0..Len(slots)
      /\ "rebuild" \in Actors /\ Clients \subseteq Actors /\ Len(slots) \in Nat
  BY LenProperties DEF SupervisorInv, SupervisorTypes, Wired, Actors
<1>1. /\ actors[x].at = map /\ map \in DOMAIN slots /\ slots[map].status = "recovering"
      /\ \A y \in Actors : Holding(y) => y = x
      /\ \A c \in Clients : ~Deletes(c)
      /\ Alive = {}
  BY Alone
<1>2. /\ actors' \in [Actors -> ActorSet]
      /\ \A y \in Actors :
           \/ y # x /\ Stays(y)
           \/ y # x /\ actors[y].pc = "waiting" /\ actors'[y].at = actors[y].at
                    /\ actors'[y].id = actors[y].id /\ actors'[y].pc \in {"mark", "ensure"}
           \/ y = x /\ actors'[y].pc = "done" /\ actors'[y].at = 0
  <2> DEFINE all == Finish(x, answer)
  <2>1. /\ all \in [Actors -> ActorSet] /\ \A y \in Actors : y # x => all[y] = actors[y]
        /\ all[x].pc = "done" /\ all[x].at = 0
    BY <1>0, FinishReturns
  <2>2. actors' = Notified(all, actors[x].at)
    OBVIOUS
  <2> HIDE DEF all
  <2> QED BY <2>1, <2>2, NotifiedReturns DEF Stays
<1>3. DOMAIN slots' = DOMAIN slots
  BY <1>0, <1>1, ExceptAt
<1>4. /\ \A y \in Actors : ~Holding(y)'
      /\ \A y \in Actors : actors'[y].pc \in PlacedPcs => actors[y].pc \in PlacedPcs /\ actors'[y].at = actors[y].at
      /\ \A c \in Clients : ~Deletes(c)'
  <2>1. {"done", "mark", "ensure"} \cap (HoldPcs \cup DelPcs) = {} /\ "done" \notin PlacedPcs /\ "waiting" \in PlacedPcs
    BY DEF HoldPcs, DelPcs, PlacedPcs
  <2> QED BY <1>0, <1>1, <1>2, <2>1 DEF Stays, Holding, Deletes, HoldPcs
<1>5. HoldersInv'
  BY <1>3, <1>4 DEF HoldersInv, Holding, SupervisorInv, OwnerInv
<1>6. DeletersInv'
  BY <1>4 DEF DeletersInv, Deletes, DelPcs
<1>7. /\ \A y \in Actors : actors'[y].at \in 0..Len(slots)
      /\ actors'["rebuild"].pc \in {"recover", "activate"} => FALSE
  BY <1>0, <1>2, <1>4 DEF Stays, Holding
<1> QED BY <1>0, <1>1, <1>2, <1>5, <1>6, <1>7, Reslots DEF Slot

LEMMA GiveUpOwner ==
  ASSUME SupervisorInv, NEW x \in Actors,
         \/ RecoveryFails(x)
         \/ x = "scan" /\ Glance /\ log.dir = "live" /\ (log.finished \/ ~log.work)
  PROVE  SupervisorInv'
<1>1. Holding(x) /\ UNCHANGED <<log, map, chans, runners, row, stopping>>
  BY DEF RecoveryFails, Glance, Holding
<1>2. /\ actors[x].at \in DOMAIN slots /\ Slot(x) \in SlotSet /\ log \in LogSet
  BY <1>1, Placed, IsAt DEF Holding, SupervisorInv, SupervisorTypes
<1>3. CASE RecoveryFails(x)
  <2> DEFINE e == [Slot(x) EXCEPT !.status = "unavailable"]
  <2>1. slots' = [slots EXCEPT ![actors[x].at] = e]
    BY <1>2, <1>3 DEF RecoveryFails, Slot
  <2>2. e \in SlotSet /\ e.id = Slot(x).id /\ e.status = "unavailable"
    BY <1>2 DEF SlotSet, Statuses
  <2>3. actors' = Notified(Finish(x, "unavailable"), actors[x].at)
    BY <1>3 DEF RecoveryFails
  <2> HIDE DEF e
  <2> QED BY <1>1, <2>1, <2>2, <2>3, IsAt, Releases
<1>4. CASE x = "scan" /\ Glance /\ log.dir = "live" /\ (log.finished \/ ~log.work)
  <2> DEFINE e == [Slot(x) EXCEPT !.status = "idle", !.finished = log.finished]
  <2>1. slots' = [slots EXCEPT ![actors[x].at] = e]
    BY <1>2, <1>4 DEF Glance, Slot
  <2>2. e \in SlotSet /\ e.id = Slot(x).id /\ e.status = "idle"
    BY <1>2 DEF SlotSet, Statuses, LogSet
  <2>3. actors' = Notified(Finish(x, "ok"), actors[x].at) /\ log.dir # "detached"
    BY <1>4 DEF Glance
  <2> HIDE DEF e
  <2> QED BY <1>1, <2>1, <2>2, <2>3, IsAt, Releases
<1> QED BY <1>3, <1>4

\* Appending to a sequence keeps what it held.
LEMMA AppendAt ==
  ASSUME NEW S, NEW seq \in Seq(S), NEW e \in S
  PROVE  /\ Append(seq, e) \in Seq(S) /\ Len(Append(seq, e)) = Len(seq) + 1
         /\ DOMAIN Append(seq, e) = DOMAIN seq \cup {Len(seq) + 1}
         /\ Len(seq) + 1 \notin DOMAIN seq
         /\ Append(seq, e)[Len(seq) + 1] = e
         /\ \A j \in DOMAIN seq : Append(seq, e)[j] = seq[j]
<1>1. /\ Append(seq, e) \in Seq(S) /\ Len(Append(seq, e)) = Len(seq) + 1
      /\ Append(seq, e)[Len(seq) + 1] = e /\ Len(seq) \in Nat
      /\ \A j \in 1..Len(seq) : Append(seq, e)[j] = seq[j]
  BY AppendProperties, LenProperties
<1>2. DOMAIN seq = 1..Len(seq) /\ DOMAIN Append(seq, e) = 1..Len(seq) + 1
  BY <1>1
<1> QED BY <1>1, <1>2

\* The first command of a runner.
LEMMA FirstTyped ==
  ASSUME SupervisorInv, NEW x \in Actors, actors[x].pc = "activate"
  PROVE  [queue |-> IF x = "rebuild"
                    THEN <<Fault(runners[actors[x].id].stage, NextCount(runners[actors[x].id].stage))>>
                    ELSE <<>>, open |-> TRUE] \in ChanSet
<1> DEFINE stage == runners[actors[x].id].stage
<1>1. CASE x = "rebuild"
  <2>1. actors[x].id \in DOMAIN runners /\ runners \in Seq(RunnerSet) /\ log \in LogSet
    BY <1>1 DEF SupervisorInv, SupervisorTypes, Wired
  <2>2. runners[actors[x].id] \in RunnerSet
    BY <2>1
  <2>3. stage \in StageSet
    BY <2>2 DEF RunnerSet
  <2>4. NextCount(stage) \in Nat
    BY <2>1 DEF NextCount, LogSet, StreakSet
  <2> HIDE DEF stage
  <2>5. Fault(stage, NextCount(stage)) \in CommandSet
    BY <2>3, <2>4 DEF Fault, CommandSet
  <2>6. <<Fault(stage, NextCount(stage))>> \in Seq(CommandSet)
    BY <2>5
  <2> QED BY <1>1, <2>6 DEF ChanSet, stage
<1>2. CASE x # "rebuild"
  BY <1>2 DEF ChanSet
<1> QED BY <1>1, <1>2

LEMMA ActivateOwner ==
  ASSUME SupervisorInv, NEW x \in Actors, Activate(x)
  PROVE  SupervisorInv'
<1>0. /\ slots \in Seq(SlotSet) /\ actors \in [Actors -> ActorSet]
      /\ chans \in Seq(ChanSet) /\ runners \in Seq(RunnerSet)
      /\ \A y \in Actors : actors[y].at \in 0..Len(slots)
      /\ "rebuild" \in Actors /\ Clients \subseteq Actors /\ Len(slots) \in Nat
  BY LenProperties DEF SupervisorInv, SupervisorTypes, Wired, Actors
<1>1. /\ Holding(x) /\ log.dir # "detached" /\ actors[x].pc = "activate"
      /\ UNCHANGED <<log, map, stopping, row>>
  BY DEF Activate, Holding, SupervisorInv, OwnerInv, HoldersInv
<1>2. /\ actors[x].at = map /\ map \in DOMAIN slots /\ slots[map].status = "recovering"
      /\ \A y \in Actors : Holding(y) => y = x
      /\ \A c \in Clients : ~Deletes(c)
      /\ Alive = {}
  BY <1>1, Alone
<1> DEFINE id == Len(runners) + 1
           ch == Len(chans) + 1
           r == [pc |-> "run", at |-> map, chan |-> ch, stage |-> "none"]
           e == [status |-> "active", id |-> id, chan |-> ch, finished |-> FALSE]
           first == [queue |-> IF x = "rebuild"
                    THEN <<Fault(runners[actors[x].id].stage, NextCount(runners[actors[x].id].stage))>>
                    ELSE <<>>, open |-> TRUE]
<1>3. id \in Nat /\ ch \in Nat /\ map \in Nat
  BY <1>0, <1>2, LenProperties
<1>4. /\ r \in RunnerSet /\ r.pc = "run" /\ r.at = map /\ r.chan = ch
      /\ e \in SlotSet /\ e.status = "active" /\ e.id = id
  BY <1>3 DEF RunnerSet, SlotSet, Statuses, StageSet
<1>5. first \in ChanSet
  BY <1>1, FirstTyped
<1>6. /\ chans' = Append(chans, first)
      /\ Len(chans') = ch
  <2>1. chans' = Append(chans, first)
    BY DEF Activate
  <2> HIDE DEF first
  <2> QED BY <1>0, <1>5, <2>1, AppendAt
<1>7. runners' = Append(runners, r) /\ slots' = [slots EXCEPT ![map] = e]
  BY <1>2, <1>6 DEF Activate, Spawned
<1>8. actors' = Notified(IF x \in Clients THEN Go(x, Sends(x)) ELSE Finish(x, "ok"), map)
  BY <1>2 DEF Activate
<1> HIDE DEF first, r, e
<1>9. /\ chans' \in Seq(ChanSet) /\ DOMAIN chans' = DOMAIN chans \cup {ch}
      /\ runners' \in Seq(RunnerSet) /\ DOMAIN runners' = DOMAIN runners \cup {id}
      /\ runners'[id] = r /\ \A j \in DOMAIN runners : runners'[j] = runners[j]
      /\ id \notin DOMAIN runners
  BY <1>0, <1>4, <1>5, <1>6, <1>7, AppendAt
<1>10. /\ slots' \in Seq(SlotSet) /\ DOMAIN slots' = DOMAIN slots /\ Len(slots') = Len(slots)
       /\ \A s \in DOMAIN slots : slots'[s] = IF s = map THEN e ELSE slots[s]
  BY <1>0, <1>4, <1>7, ExceptAt
<1>11. /\ actors' \in [Actors -> ActorSet]
       /\ \A y \in Actors :
            \/ y # x /\ Stays(y)
            \/ y # x /\ actors[y].pc = "waiting" /\ actors'[y].at = actors[y].at
                     /\ actors'[y].pc \in {"mark", "ensure"}
            \/ y = x /\ actors'[y].pc \in {"dispatch", "reserve"} /\ actors'[y].at = map
            \/ y = x /\ actors'[y].pc = "done" /\ actors'[y].at = 0
  <2> DEFINE all == IF x \in Clients THEN Go(x, Sends(x)) ELSE Finish(x, "ok")
  <2>1. /\ all \in [Actors -> ActorSet] /\ \A y \in Actors : y # x => all[y] = actors[y]
        /\ \/ all[x].pc \in {"dispatch", "reserve"} /\ all[x].at = map
           \/ all[x].pc = "done" /\ all[x].at = 0
    <3>1. CASE x \in Clients
      <4>1. Sends(x) \in {"dispatch", "reserve"} /\ all = Go(x, Sends(x))
        BY <3>1 DEF Sends
      <4> HIDE DEF all
      <4> QED BY <1>0, <1>2, <4>1, IsAt, GoReturns
    <3>2. CASE x \notin Clients
      <4>1. all = Finish(x, "ok") /\ "ok" \in Answers
        BY <3>2, IsAt
      <4> HIDE DEF all
      <4> QED BY <1>0, <4>1, FinishReturns
    <3> QED BY <3>1, <3>2
  <2>2. actors' = Notified(all, map)
    BY <1>8
  <2> HIDE DEF all
  <2>3. /\ actors' \in [Actors -> ActorSet]
        /\ \A y \in Actors : /\ actors'[y].at = all[y].at /\ actors'[y].id = all[y].id
                             /\ \/ actors'[y].pc = all[y].pc
                                \/ all[y].pc = "waiting" /\ actors'[y].pc \in {"mark", "ensure"}
    BY <2>1, <2>2, NotifiedReturns
  <2> QED BY <2>1, <2>3 DEF Stays
<1>12. /\ \A y \in Actors : ~Holding(y)'
       /\ \A y \in Actors : actors'[y].pc \in PlacedPcs => actors'[y].at \in DOMAIN slots
       /\ \A c \in Clients : ~Deletes(c)'
       /\ \A y \in Actors : actors'[y].at \in 0..Len(slots)
  <2>1. /\ {"done", "mark", "ensure", "dispatch", "reserve"} \cap (HoldPcs \cup DelPcs) = {}
        /\ "done" \notin PlacedPcs /\ "waiting" \in PlacedPcs
    BY DEF HoldPcs, DelPcs, PlacedPcs
  <2>2. \A y \in Actors : actors[y].pc \in PlacedPcs => actors[y].at \in DOMAIN slots
    BY DEF SupervisorInv, OwnerInv, HoldersInv
  <2>3. \A y \in Actors : ~Holding(y)' /\ (y \in Clients => ~Deletes(y)')
    BY <1>2, <1>11, <2>1 DEF Stays, Holding, Deletes, HoldPcs
  <2>4. ASSUME NEW y \in Actors, actors'[y].pc \in PlacedPcs PROVE actors'[y].at \in DOMAIN slots
    <3>1. CASE y # x
      BY <1>11, <2>1, <2>2, <2>4, <3>1 DEF Stays
    <3>2. CASE y = x
      BY <1>2, <1>11, <2>1, <2>2, <2>4, <3>2, <1>1, IsAt
    <3> QED BY <3>1, <3>2
  <2>5. \A y \in Actors : actors'[y].at \in 0..Len(slots)
    BY <1>0, <1>2, <1>11 DEF Stays
  <2> QED BY <1>0, <2>3, <2>4, <2>5
<1>13. HoldersInv'
  BY <1>10, <1>12 DEF HoldersInv, Holding
<1>14. DeletersInv'
  BY <1>12 DEF DeletersInv, Deletes, DelPcs
<1>15. SupervisorTypes'
  BY <1>1, <1>9, <1>10, <1>11 DEF SupervisorInv, SupervisorTypes
<1>16. Wired'
  <2>1. \A j \in DOMAIN runners' : runners'[j].chan \in DOMAIN chans'
    BY <1>4, <1>9 DEF SupervisorInv, Wired
  <2>2. actors'["rebuild"].pc \notin {"recover", "activate"}
    BY <1>0, <1>12 DEF Holding
  <2> QED BY <1>10, <1>12, <2>1, <2>2 DEF Wired
<1>17. SlotsInv'
  BY <1>1, <1>10 DEF SupervisorInv, OwnerInv, SlotsInv
<1>18. Alive' = {id}
  BY <1>2, <1>4, <1>9 DEF Alive
<1>19. RunnersInv'
  <2> SUFFICES ASSUME NEW j \in DOMAIN runners'
               PROVE  /\ runners'[j].at \in DOMAIN slots' /\ j <= slots'[runners'[j].at].id
                      /\ j \in Alive' => /\ j = slots'[runners'[j].at].id
                                         /\ slots'[runners'[j].at].status \in {"active", "deleting"}
    BY DEF RunnersInv
  <2>1. CASE j = id
    BY <1>2, <1>3, <1>4, <1>9, <1>10, <2>1
  <2>2. CASE j \in DOMAIN runners
    <3>1. runners[j].at \in DOMAIN slots /\ j <= slots[runners[j].at].id /\ j <= id
      BY <1>0, <2>2 DEF SupervisorInv, OwnerInv, RunnersInv
    <3>2. j \notin Alive' /\ runners'[j] = runners[j]
      BY <1>9, <1>18, <2>2
    <3>3. CASE runners[j].at = map
      BY <1>4, <1>10, <3>1, <3>2, <3>3
    <3>4. CASE runners[j].at # map
      BY <1>10, <3>1, <3>2, <3>4
    <3> QED BY <3>3, <3>4
  <2> QED BY <1>9, <2>1, <2>2
<1>20. DeletedQuiet'
  BY <1>1 DEF DeletedQuiet
<1> QED BY <1>13, <1>14, <1>15, <1>16, <1>17, <1>19, <1>20 DEF SupervisorInv, OwnerInv

\* A session that is not in the map gets a new slot.
LEMMA InsertOwner ==
  ASSUME SupervisorInv, (\E c \in Clients : Insert(c)) \/ Enlist
  PROVE  SupervisorInv'
<1>0. /\ slots \in Seq(SlotSet) /\ actors \in [Actors -> ActorSet] /\ map \in 0..Len(slots)
      /\ \A y \in Actors : actors[y].at \in 0..Len(slots)
      /\ "rebuild" \in Actors /\ Clients \subseteq Actors /\ Len(slots) \in Nat
      /\ DOMAIN slots = 1..Len(slots)
  BY LenProperties DEF SupervisorInv, SupervisorTypes, Wired, Actors
<1>1. PICK x \in Actors, pc \in {"admit", "check"} :
        /\ x # "rebuild"
        /\ slots' = (IF map = 0 THEN Append(slots, NewSlot("unchecked")) ELSE slots)
        /\ map' = IF map = 0 THEN Len(slots') ELSE map
        /\ actors' = [actors EXCEPT ![x].pc = pc, ![x].at = map']
  BY SupervisorAssumption DEF Insert, Enlist, Actors
<1>2. UNCHANGED <<log, chans, runners, stopping, row>>
  BY DEF Insert, Enlist
<1> DEFINE e == NewSlot("unchecked")
<1>3. e \in SlotSet /\ e.status = "unchecked"
  BY DEF NewSlot, SlotSet, Statuses
<1> HIDE DEF e
<1>4. /\ slots' \in Seq(SlotSet) /\ DOMAIN slots \subseteq DOMAIN slots'
      /\ map' \in DOMAIN slots' /\ DOMAIN slots' \subseteq DOMAIN slots \cup {map'}
      /\ Len(slots) <= Len(slots') /\ Len(slots') \in Nat /\ DOMAIN slots' = 1..Len(slots')
      /\ \A s \in DOMAIN slots : slots'[s] = slots[s]
      /\ map # 0 => map' = map
      /\ map = 0 => slots'[map'].status = "unchecked" /\ map' \notin DOMAIN slots
  <2>1. CASE map = 0
    <3>1. slots' = Append(slots, e) /\ map' = Len(slots')
      BY <1>1, <2>1 DEF e
    <3> QED BY <1>0, <1>3, <2>1, <3>1, AppendAt, LenProperties
  <2>2. CASE map # 0
    BY <1>0, <1>1, <2>2
  <2> QED BY <2>1, <2>2
<1>5. /\ actors' \in [Actors -> ActorSet] /\ \A y \in Actors : y # x => actors'[y] = actors[y]
      /\ actors'[x].pc = pc /\ actors'[x].at = map'
  <2> DEFINE v == [actors[x] EXCEPT !.pc = pc, !.at = map']
  <2>1. actors' = [actors EXCEPT ![x] = v]
    BY <1>0, <1>1
  <2>2. v \in ActorSet /\ v.pc = pc /\ v.at = map'
    <3>1. actors[x] \in ActorSet /\ map' \in Nat
      BY <1>0, <1>4
    <3> QED BY <3>1, IsAt DEF ActorSet
  <2> HIDE DEF v
  <2> QED BY <1>0, <2>1, <2>2
<1>6. /\ \A y \in Actors : Holding(y)' => Holding(y) /\ actors'[y] = actors[y]
      /\ \A y \in Actors : actors'[y].pc \in PlacedPcs => actors'[y].at \in DOMAIN slots'
      /\ \A c \in Clients : Deletes(c)' => Deletes(c) /\ actors'[c] = actors[c]
      /\ \A y \in Actors : actors'[y].at \in 0..Len(slots')
  <2>1. pc \notin HoldPcs \cup DelPcs
    BY DEF HoldPcs, DelPcs
  <2>2. \A y \in Actors : actors[y].pc \in PlacedPcs => actors[y].at \in DOMAIN slots
    BY DEF SupervisorInv, OwnerInv, HoldersInv
  <2>3. \A y \in Actors : Holding(y)' => Holding(y) /\ actors'[y] = actors[y]
    BY <1>5, <2>1 DEF Holding, HoldPcs
  <2>4. \A c \in Clients : Deletes(c)' => Deletes(c) /\ actors'[c] = actors[c]
    BY <1>0, <1>5, <2>1 DEF Deletes
  <2>5. \A y \in Actors : actors'[y].pc \in PlacedPcs => actors'[y].at \in DOMAIN slots'
    BY <1>4, <1>5, <2>2
  <2>6. \A y \in Actors : actors'[y].at \in 0..Len(slots')
    BY <1>0, <1>4, <1>5
  <2> QED BY <2>3, <2>4, <2>5, <2>6
<1>7. HoldersInv'
  <2>1. \A y \in Actors : Holding(y) => actors[y].at \in DOMAIN slots /\ Slot(y).status = "recovering"
    BY DEF SupervisorInv, OwnerInv, HoldersInv, Holding, PlacedPcs, HoldPcs
  <2>2. \A y \in Actors : Holding(y)' => Slot(y)'.status = "recovering"
    BY <1>4, <1>6, <2>1 DEF Slot
  <2>3. \A y \in Actors : actors'[y].pc = "activate" => log.dir # "detached"
    BY <1>6 DEF SupervisorInv, OwnerInv, HoldersInv, Holding
  <2>4. \A y, z \in Actors : Holding(y)' /\ Holding(z)' => y = z
    BY <1>6 DEF SupervisorInv, OwnerInv, HoldersInv
  <2> QED BY <1>2, <1>6, <2>2, <2>3, <2>4 DEF HoldersInv
<1>8. Alive' = Alive
  BY <1>2 DEF Alive
<1>9. DeletersInv'
  <2>1. CASE map = 0
    <3>1. \A c \in Clients : ~Deletes(c)'
      BY <1>6, <2>1 DEF SupervisorInv, OwnerInv, DeletersInv
    <3> QED BY <3>1 DEF DeletersInv, Deletes, DelPcs
  <2>2. CASE map # 0
    <3>1. slots' = slots /\ map' = map
      BY <1>1, <2>2
    <3>2. \A c \in Clients : Deletes(c)' => Deletes(c) /\ Slot(c)' = Slot(c) /\ actors'[c] = actors[c]
      BY <1>6, <3>1 DEF Slot
    <3> QED BY <1>2, <1>8, <3>1, <3>2 DEF SupervisorInv, OwnerInv, DeletersInv, Deletes, DelPcs
  <2> QED BY <2>1, <2>2
<1>10. SupervisorTypes'
  BY <1>2, <1>4, <1>5 DEF SupervisorInv, SupervisorTypes
<1>11. Wired'
  BY <1>0, <1>1, <1>2, <1>5, <1>6 DEF SupervisorInv, Wired
<1>12. SlotsInv'
  BY <1>2, <1>4 DEF SupervisorInv, OwnerInv, SlotsInv
<1>13. RunnersInv'
  BY <1>2, <1>4, <1>8 DEF SupervisorInv, OwnerInv, RunnersInv
<1>14. DeletedQuiet'
  <2>1. \A s \in DOMAIN slots' : s \in DOMAIN slots \/ slots'[s].status = "unchecked"
    BY <1>0, <1>4
  <2> QED BY <1>2, <1>4, <1>8, <2>1 DEF SupervisorInv, OwnerInv, DeletedQuiet
<1> QED BY <1>7, <1>9, <1>10, <1>11, <1>12, <1>13, <1>14 DEF SupervisorInv, OwnerInv

LEMMA CreateOwner ==
  ASSUME SupervisorInv, NEW c \in Clients, Create(c)
  PROVE  SupervisorInv'
<1>0. /\ slots \in Seq(SlotSet) /\ actors \in [Actors -> ActorSet] /\ runners \in Seq(RunnerSet)
      /\ map = 0 /\ DOMAIN slots = {} /\ c \in Actors /\ c # "rebuild" /\ "rebuild" \in Actors
      /\ \A y \in Actors : actors[y].at \in 0..0
      /\ UNCHANGED <<log, chans, runners, stopping, row>> /\ log.dir = "none"
  <2>1. slots = <<>> /\ Len(slots) = 0 /\ DOMAIN slots = {}
    BY DEF Create
  <2> QED BY <2>1, SupervisorAssumption DEF SupervisorInv, SupervisorTypes, Wired, Actors, Create
<1>1. /\ \A y \in Actors : actors[y].pc \notin PlacedPcs
      /\ \A d \in Clients : ~Deletes(d)
      /\ DOMAIN runners = {}
  BY <1>0 DEF SupervisorInv, OwnerInv, HoldersInv, DeletersInv, RunnersInv
<1> DEFINE e == NewSlot("recovering")
           v == [NoActor EXCEPT !.pc = "activate", !.kind = "create", !.at = 1, !.permit = TRUE]
<1>2. e \in SlotSet /\ e.status = "recovering" /\ slots' = <<e>> /\ map' = 1
  BY DEF Create, NewSlot, SlotSet, Statuses
<1>3. /\ v \in ActorSet /\ v.pc = "activate" /\ v.at = 1
      /\ actors' = [actors EXCEPT ![c] = v]
  BY IsAt DEF Create, NoActor, ActorSet, AllKinds
<1> HIDE DEF e, v
<1>4. slots' \in Seq(SlotSet) /\ Len(slots') = 1 /\ DOMAIN slots' = {1} /\ slots'[1] = e
  BY <1>2
<1>5. /\ actors' \in [Actors -> ActorSet] /\ \A y \in Actors : y # c => actors'[y] = actors[y]
      /\ actors'[c].pc = "activate" /\ actors'[c].at = 1
  BY <1>0, <1>3
<1>6. HoldersInv'
  <2>1. \A y \in Actors : y # c => actors'[y].pc \notin PlacedPcs /\ ~Holding(y)'
    BY <1>1, <1>5 DEF Holding, PlacedPcs, HoldPcs
  <2>2. Slot(c)'.status = "recovering"
    BY <1>2, <1>4, <1>5 DEF Slot
  <2>3. log'.dir # "detached"
    BY <1>0
  <2>4. \A y \in Actors : actors'[y].pc \in PlacedPcs => actors'[y].at \in DOMAIN slots'
    BY <1>4, <1>5, <2>1
  <2> QED BY <2>1, <2>2, <2>3, <2>4 DEF HoldersInv
<1>7. DeletersInv'
  <2>1. \A d \in Clients : ~Deletes(d)'
    <3>1. "activate" \notin DelPcs
      BY DEF DelPcs
    <3> QED BY <1>1, <1>5, <3>1 DEF Deletes, Actors
  <2> QED BY <2>1 DEF DeletersInv, Deletes, DelPcs
<1>8. SupervisorTypes'
  BY <1>0, <1>2, <1>4, <1>5 DEF SupervisorInv, SupervisorTypes
<1>9. Wired'
  <2>1. actors'["rebuild"].pc \notin {"recover", "activate"}
    BY <1>0, <1>1, <1>5 DEF PlacedPcs, HoldPcs
  <2>2. \A y \in Actors : actors'[y].at \in 0..Len(slots')
    BY <1>0, <1>4, <1>5
  <2> QED BY <1>0, <2>1, <2>2 DEF SupervisorInv, Wired
<1>10. SlotsInv' /\ RunnersInv' /\ DeletedQuiet'
  BY <1>0, <1>1, <1>2, <1>4 DEF SlotsInv, RunnersInv, DeletedQuiet
<1> QED BY <1>6, <1>7, <1>8, <1>9, <1>10 DEF SupervisorInv, OwnerInv

-----------------------------------------------------------------------------
\* Deletions.

LEMMA MarkOwner ==
  ASSUME SupervisorInv, NEW c \in Clients, MarkDeleting(c)
  PROVE  SupervisorInv'
<1>0. /\ slots \in Seq(SlotSet) /\ actors \in [Actors -> ActorSet]
      /\ \A y \in Actors : actors[y].at \in 0..Len(slots)
      /\ "rebuild" \in Actors /\ Clients \subseteq Actors /\ c \in Actors /\ c # "rebuild"
      /\ UNCHANGED <<log, map, chans, runners, row, stopping>>
  BY SupervisorAssumption DEF SupervisorInv, SupervisorTypes, Wired, Actors, MarkDeleting
<1>1. /\ actors[c].at \in DOMAIN slots /\ Slot(c) \in SlotSet
      /\ Slot(c) = slots[actors[c].at] /\ actors[c].pc = "mark"
  BY <1>0, Placed, IsAt DEF MarkDeleting, Slot
<1>2. CASE Slot(c).status \in {"recovering", "deleting"}
  <2>1. UNCHANGED slots /\ (actors' = Go(c, "waiting") \/ actors' = Finish(c, "deleting"))
    BY <1>2 DEF MarkDeleting
  <2>2. actors' \in [Actors -> ActorSet] /\ \A y \in Actors : Meek(y) \/ Stays(y)
    BY <1>0, <1>1, <2>1, IsAt, Walks
  <2> QED BY <1>0, <2>1, <2>2, Moves DEF SupervisorInv, SupervisorTypes
<1>3. CASE Slot(c).status \notin {"recovering", "deleting"}
  <2> DEFINE e == [Slot(c) EXCEPT !.status = "deleting", !.finished = FALSE]
             v == [actors[c] EXCEPT !.pc = IF Slot(c).status = "active" THEN "stop" ELSE "detach",
                                    !.id = Slot(c).id]
             all == [actors EXCEPT ![c] = v]
  <2>1. /\ actors[c].at = map /\ \A x \in Actors : ~Holding(x)
        /\ \A d \in Clients : ~Deletes(d)
        /\ Slot(c).status # "active" => Alive = {}
    BY <1>1, <1>3, Unheld
  <2>2. /\ slots' = [slots EXCEPT ![map] = e]
        /\ e \in SlotSet /\ e.id = Slot(c).id /\ e.status = "deleting"
    <3>1. slots' = [slots EXCEPT ![map] = e]
      BY <1>1, <1>3, <2>1 DEF MarkDeleting
    <3>2. e \in SlotSet /\ e.id = Slot(c).id /\ e.status = "deleting"
      BY <1>1 DEF SlotSet, Statuses
    <3> QED BY <3>1, <3>2
  <2>3. /\ v \in ActorSet /\ v.at = map /\ v.id = Slot(c).id
        /\ v.pc \in {"stop", "detach"} /\ (v.pc = "detach" => Slot(c).status # "active")
    <3>1. actors[c] \in ActorSet /\ Slot(c).id \in Nat
      BY <1>0, <1>1 DEF SlotSet
    <3> QED BY <2>1, <3>1, IsAt DEF ActorSet
  <2>4. actors' = Notified(all, map)
    BY <1>0, <1>3, <2>1 DEF MarkDeleting
  <2> HIDE DEF e, v
  <2>5. all \in [Actors -> ActorSet] /\ all[c] = v /\ \A y \in Actors : y # c => all[y] = actors[y]
    BY <1>0, <2>3
  <2> HIDE DEF all
  <2>6. /\ actors' \in [Actors -> ActorSet]
        /\ actors'[c].pc = v.pc /\ actors'[c].at = map /\ actors'[c].id = v.id
        /\ \A y \in Actors : y # c =>
             /\ actors'[y].at = actors[y].at /\ actors'[y].id = actors[y].id
             /\ \/ actors'[y].pc = actors[y].pc
                \/ actors[y].pc = "waiting" /\ actors'[y].pc \in {"mark", "ensure"}
    <3>1. all[c].pc # "waiting"
      BY <2>3, <2>5
    <3> QED BY <1>0, <2>3, <2>4, <2>5, <3>1, NotifiedReturns
  <2>7. /\ map \in DOMAIN slots /\ DOMAIN slots' = DOMAIN slots /\ slots'[map] = e
    BY <1>0, <1>1, <2>1, <2>2, ExceptAt
  <2>8. {"mark", "ensure"} \cap (HoldPcs \cup DelPcs) = {} /\ "waiting" \in PlacedPcs
        /\ {"stop", "detach"} \cap (HoldPcs \cup PlacedPcs) = {}
    BY DEF HoldPcs, DelPcs, PlacedPcs
  <2>9. HoldersInv'
    <3>1. \A y \in Actors : ~Holding(y)'
      BY <2>1, <2>3, <2>6, <2>8 DEF Holding, HoldPcs
    <3>2. \A y \in Actors : actors'[y].pc \in PlacedPcs => actors'[y].at \in DOMAIN slots'
      BY <2>3, <2>6, <2>7, <2>8 DEF SupervisorInv, OwnerInv, HoldersInv
    <3> QED BY <3>1, <3>2 DEF HoldersInv, Holding
  <2>10. DeletersInv'
    <3>1. \A d \in Clients : Deletes(d)' => d = c
      BY <1>0, <2>1, <2>6, <2>8 DEF Deletes
    <3>2. Alive' = Alive /\ map' = map
      BY <1>0 DEF Alive
    <3>3. Slot(c)'.id = Slot(c).id /\ slots'[map].status = "deleting" /\ map # 0
      BY <1>0, <2>2, <2>6, <2>7 DEF Slot
    <3>4. actors'[c].pc \in {"stop", "detach"} /\ (actors'[c].pc = "detach" => Alive = {})
      BY <2>1, <2>3, <2>6
    <3>5. actors'[c].id = Slot(c).id /\ actors'[c].at = map
      BY <2>3, <2>6
    <3>6. \A d \in Clients : d # c => actors'[d].pc \notin {"stop", "join", "detach", "forget"}
      BY <3>1 DEF Deletes, DelPcs
    <3> QED BY <3>1, <3>2, <3>3, <3>4, <3>5, <3>6 DEF DeletersInv
  <2>11. \A y \in Actors : actors'[y].at \in 0..Len(slots)
    BY <1>0, <1>1, <2>1, <2>6
  <2>12. actors'["rebuild"].pc \notin {"recover", "activate"}
    BY <1>0, <2>1, <2>6 DEF Holding
  <2>13. e.id = slots[map].id
    BY <1>1, <2>1, <2>2
  <2> QED BY <1>0, <2>2, <2>6, <2>7, <2>9, <2>10, <2>11, <2>12, <2>13, Reslots
<1> QED BY <1>2, <1>3

\* One task deletes, and goes from one of its steps to the next.
LEMMA Deleter ==
  ASSUME SupervisorInv, NEW c \in Clients, Deletes(c)
  PROVE  /\ actors[c].at = map /\ map \in DOMAIN slots /\ slots[map].status = "deleting"
         /\ \A d \in Clients : Deletes(d) => d = c
         /\ \A x \in Actors : ~Holding(x)
         /\ log.dir # "detached" => DOMAIN slots = {map}
<1>1. /\ actors[c].at = map /\ map # 0 /\ slots[map].status = "deleting"
      /\ \A d \in Clients : Deletes(d) => d = c
  BY DEF SupervisorInv, OwnerInv, DeletersInv
<1>2. map \in DOMAIN slots
  BY <1>1 DEF SupervisorInv, SupervisorTypes
<1>3. \A x \in Actors : ~Holding(x)
  BY <1>1, Alone
<1>4. log.dir # "detached" => DOMAIN slots = {map}
  BY <1>2 DEF SupervisorInv, OwnerInv, SlotsInv
<1> QED BY <1>1, <1>2, <1>3, <1>4

LEMMA DeleterMoves ==
  ASSUME SupervisorInv, NEW c \in Clients, Deletes(c),
         UNCHANGED <<slots, map, runners, row, stopping>>, log' \in LogSet,
         chans' \in Seq(ChanSet), DOMAIN chans' = DOMAIN chans,
         NEW pc \in DelPcs \cup {"left"},
         actors' \in [Actors -> ActorSet], \A y \in Actors : y # c => Stays(y),
         actors'[c].pc = pc, actors'[c].at = (IF pc = "left" THEN 0 ELSE actors[c].at),
         pc \in {"stop", "join"} => actors'[c].id = actors[c].id /\ actors[c].pc = "stop",
         pc \in {"detach", "forget"} => Alive = {},
         pc = "forget" => log'.dir = "detached",
         log.dir = "detached" => log'.dir = "detached",
         log'.dir = "detached" => log.dir = "detached" \/ Alive = {}
  PROVE  SupervisorInv'
<1>0. /\ c \in Actors /\ c # "rebuild" /\ "rebuild" \in Actors /\ Clients \subseteq Actors
      /\ slots \in Seq(SlotSet)
      /\ \A y \in Actors : actors[y].at \in 0..Len(slots)
  BY SupervisorAssumption DEF Actors, SupervisorInv, SupervisorTypes, Wired
<1>1. /\ actors[c].at = map /\ map \in DOMAIN slots /\ slots[map].status = "deleting"
      /\ \A d \in Clients : Deletes(d) => d = c
      /\ \A x \in Actors : ~Holding(x)
      /\ log.dir # "detached" => DOMAIN slots = {map}
  BY Deleter
<1>2. "left" \notin HoldPcs \cup PlacedPcs /\ DelPcs \cap (HoldPcs \cup PlacedPcs) = {}
  BY DEF HoldPcs, PlacedPcs, DelPcs
<1>3. \A y \in Actors : ~Holding(y)'
  BY <1>1, <1>2 DEF Stays, Holding, HoldPcs
<1>4. HoldersInv'
  <2>1. \A y \in Actors : actors'[y].pc \in PlacedPcs => actors'[y].at \in DOMAIN slots'
    BY <1>2 DEF SupervisorInv, OwnerInv, HoldersInv, Stays
  <2> QED BY <1>3, <2>1 DEF HoldersInv, Holding
<1>5. Alive' = Alive
  BY DEF Alive
<1>6. DeletersInv'
  <2>1. \A d \in Clients : d # c => actors'[d].pc \notin DelPcs
    BY <1>0, <1>1 DEF Deletes, Stays
  <2>2. pc \in DelPcs => actors'[c].at = map
    BY <1>1 DEF DelPcs
  <2>3. actors[c].pc = "stop" => actors[c].id = slots[map].id
    BY <1>1 DEF SupervisorInv, OwnerInv, DeletersInv, Slot
  <2>4. map # 0
    BY <1>0, <1>1
  <2>5. \A d \in Clients : Deletes(d)' => d = c /\ pc \in DelPcs
    BY <2>1 DEF Deletes
  <2>6. \A d \in Clients : d # c => actors'[d].pc \notin {"stop", "join", "detach", "forget"}
    BY <2>1 DEF DelPcs
  <2>7. pc \in {"stop", "join", "detach", "forget"} => pc \in DelPcs
    BY DEF DelPcs
  <2> QED BY <1>1, <1>5, <2>2, <2>3, <2>4, <2>5, <2>6, <2>7 DEF DeletersInv, Slot
<1>7. SupervisorTypes'
  BY DEF SupervisorInv, SupervisorTypes
<1>8. Wired'
  <2>1. \A y \in Actors : actors'[y].at \in 0..Len(slots)
    BY <1>0 DEF Stays
  <2>2. actors'["rebuild"].pc \notin {"recover", "activate"}
    BY <1>0, <1>3 DEF Holding
  <2> QED BY <2>1, <2>2 DEF SupervisorInv, Wired
<1>9. SlotsInv' /\ RunnersInv'
  BY <1>1, <1>5 DEF SupervisorInv, OwnerInv, SlotsInv, RunnersInv
<1>10. DeletedQuiet'
  <2>1. CASE log.dir = "detached"
    BY <1>5, <2>1 DEF SupervisorInv, OwnerInv, DeletedQuiet
  <2>2. CASE log.dir # "detached"
    BY <1>1, <1>5, <2>2 DEF DeletedQuiet
  <2> QED BY <2>1, <2>2
<1> QED BY <1>4, <1>6, <1>7, <1>8, <1>9, <1>10 DEF SupervisorInv, OwnerInv

\* A runner that completed was the newest of its slot.
LEMMA Joined ==
  ASSUME SupervisorInv, NEW c \in Clients, Join(c)
  PROVE  Alive = {}
<1>1. Deletes(c) /\ actors[c].id = Slot(c).id
  BY DEF Join, Deletes, DelPcs, SupervisorInv, OwnerInv, DeletersInv
<1>2. /\ actors[c].at = map /\ map \in DOMAIN slots
      /\ log.dir # "detached" => DOMAIN slots = {map}
  BY <1>1, Deleter
<1>3. PICK id \in DOMAIN runners : /\ id >= slots[map].id /\ runners[id].at = map
                                   /\ runners[id].pc = "gone"
  BY <1>1, <1>2 DEF Join, Slot
<1>4. /\ id \in Nat /\ slots[map].id \in Nat /\ id <= slots[map].id
  <2>1. runners \in Seq(RunnerSet) /\ slots \in Seq(SlotSet)
    BY DEF SupervisorInv, SupervisorTypes
  <2>2. slots[map] \in SlotSet
    BY <1>2, <2>1
  <2>3. id <= slots[map].id
    BY <1>3 DEF SupervisorInv, OwnerInv, RunnersInv
  <2> QED BY <2>1, <2>2, <2>3 DEF SlotSet
<1>5. id = slots[map].id /\ id \notin Alive
  BY <1>3, <1>4 DEF Alive
<1>6. ASSUME NEW j \in Alive PROVE FALSE
  <2>1. /\ j \in DOMAIN runners /\ runners[j].at \in DOMAIN slots
        /\ j = slots[runners[j].at].id
    BY DEF SupervisorInv, OwnerInv, RunnersInv, Alive
  <2>2. log.dir # "detached"
    BY DEF SupervisorInv, OwnerInv, DeletedQuiet
  <2> QED BY <1>2, <1>5, <2>1, <2>2
<1> QED BY <1>6

LEMMA StopOwner ==
  ASSUME SupervisorInv, NEW x \in Actors, SendStop(x) \/ Join(x)
  PROVE  SupervisorInv'
<1>0. /\ actors \in [Actors -> ActorSet] /\ chans \in Seq(ChanSet) /\ log \in LogSet
      /\ UNCHANGED <<log, slots, map, runners, row, stopping>>
  BY DEF SupervisorInv, SupervisorTypes, SendStop, Join
<1>1. chans' \in Seq(ChanSet) /\ DOMAIN chans' = DOMAIN chans
  <2>1. chans' = chans \/ \E ch : chans' = Sent(ch, Command("stop", x))
    BY DEF SendStop, Join
  <2> QED BY <1>0, <2>1, SentReturns, CommandTyped
<1>2. CASE x \notin Clients
  <2>1. actors' = Go(x, "join") \/ actors' = Go(x, "next") \/ actors' = Go(x, "detach")
    BY DEF SendStop, Join
  <2>2. \A pc \in {"join", "next", "detach"} : pc \in Pcs /\ pc \notin HoldPcs \cup PlacedPcs
    BY IsAt DEF HoldPcs, PlacedPcs
  <2>3. actors' \in [Actors -> ActorSet] /\ \A y \in Actors : Meek(y) \/ Stays(y)
    BY <1>2, <2>1, <2>2, Walks
  <2> QED BY <1>0, <1>1, <2>3, Moves DEF SupervisorInv, SupervisorTypes
<1>3. CASE x \in Clients /\ SendStop(x)
  <2>1. Deletes(x) /\ actors[x].pc = "stop" /\ actors' = Go(x, "join")
    BY <1>3 DEF SendStop, Deletes, DelPcs
  <2>2. "join" \in Pcs /\ "join" \notin Forgetful /\ "join" \in DelPcs
    BY IsAt DEF Forgetful, DelPcs
  <2>3. /\ actors' \in [Actors -> ActorSet] /\ \A y \in Actors : y # x => Stays(y)
        /\ actors'[x].pc = "join" /\ actors'[x].at = actors[x].at /\ actors'[x].id = actors[x].id
    BY <1>0, <2>1, <2>2, GoReturns DEF Stays
  <2> QED BY <1>0, <1>1, <1>3, <2>1, <2>2, <2>3, DeleterMoves
<1>4. CASE x \in Clients /\ Join(x)
  <2>1. Deletes(x) /\ actors' = Go(x, "detach")
    BY <1>4, SupervisorAssumption DEF Join, Deletes, DelPcs
  <2>2. "detach" \in Pcs /\ "detach" \in DelPcs
    BY IsAt DEF DelPcs
  <2>3. /\ actors' \in [Actors -> ActorSet] /\ \A y \in Actors : y # x => Stays(y)
        /\ actors'[x].pc = "detach" /\ actors'[x].at = actors[x].at
    BY <1>0, <2>1, <2>2, GoReturns DEF Stays
  <2>4. Alive = {}
    BY <1>4, Joined
  <2> QED BY <1>0, <1>1, <1>4, <2>1, <2>2, <2>3, <2>4, DeleterMoves
<1> QED BY <1>2, <1>3, <1>4

LEMMA DetachedTyped ==
  ASSUME log \in LogSet
  PROVE  /\ [log EXCEPT !.dir = "detached"] \in LogSet
         /\ [log EXCEPT !.dir = "detached"].dir = "detached"
  BY DEF LogSet

LEMMA DetachOwner ==
  ASSUME SupervisorInv, NEW c \in Clients, Detach(c)
  PROVE  SupervisorInv'
<1>0. /\ actors \in [Actors -> ActorSet] /\ chans \in Seq(ChanSet) /\ log \in LogSet
      /\ UNCHANGED <<chans, slots, map, runners, row, stopping>> /\ c \in Actors
      /\ stopping \in BOOLEAN
  BY DEF SupervisorInv, SupervisorTypes, Detach, Actors
<1>1. CASE log' = log /\ \E answer \in Answers : actors' = Finish(c, answer)
  <2>1. actors' \in [Actors -> ActorSet] /\ \A y \in Actors : Meek(y) \/ Stays(y)
    BY <1>0, <1>1, Walks
  <2> QED BY <1>0, <1>1, <2>1, Moves
<1>2. CASE log.dir = "live" /\ log' = [log EXCEPT !.dir = "detached"] /\ actors' = Go(c, "forget")
  <2>1. Deletes(c) /\ Alive = {}
    BY DEF Detach, Deletes, DelPcs, SupervisorInv, OwnerInv, DeletersInv
  <2>2. "forget" \in Pcs /\ "forget" \in DelPcs
    BY IsAt DEF DelPcs
  <2>3. /\ actors' \in [Actors -> ActorSet] /\ \A y \in Actors : y # c => Stays(y)
        /\ actors'[c].pc = "forget" /\ actors'[c].at = actors[c].at
    BY <1>0, <1>2, <2>2, GoReturns DEF Stays
  <2> QED BY <1>0, <1>2, <2>1, <2>2, <2>3, DetachedTyped, DeleterMoves
<1> QED BY <1>1, <1>2, IsAt DEF Detach

LEMMA ForgetOwner ==
  ASSUME SupervisorInv, NEW c \in Clients, Forget(c)
  PROVE  SupervisorInv'
<1>0. /\ actors \in [Actors -> ActorSet] /\ slots \in Seq(SlotSet)
      /\ \A y \in Actors : actors[y].at \in 0..Len(slots)
      /\ UNCHANGED <<log, chans, slots, runners, row, stopping>> /\ c \in Actors
      /\ Clients \subseteq Actors /\ "rebuild" \in Actors
      /\ map' = 0 /\ Len(slots) \in Nat
  BY LenProperties DEF SupervisorInv, SupervisorTypes, Forget, Wired, Actors
<1>1. Deletes(c) /\ log.dir = "detached"
  BY DEF Forget, Deletes, DelPcs, SupervisorInv, OwnerInv, DeletersInv
<1>2. /\ slots[map].status = "deleting"
      /\ \A d \in Clients : Deletes(d) => d = c
      /\ \A x \in Actors : ~Holding(x)
  BY <1>1, Deleter
<1>3. /\ actors' \in [Actors -> ActorSet] /\ \A y \in Actors : y # c => actors'[y] = actors[y]
      /\ actors'[c].pc = "done" /\ actors'[c].at = 0
  BY <1>0, IsAt, FinishReturns DEF Forget
<1>4. "done" \notin HoldPcs \cup DelPcs \cup PlacedPcs
  BY DEF HoldPcs, DelPcs, PlacedPcs
<1>5. /\ \A y \in Actors : ~Holding(y)' /\ (y \in Clients => ~Deletes(y)')
      /\ \A y \in Actors : actors'[y].pc \in PlacedPcs => actors'[y].at \in DOMAIN slots
      /\ \A y \in Actors : actors'[y].at \in 0..Len(slots)
  <2>1. \A y \in Actors : ~Holding(y)' /\ (y \in Clients => ~Deletes(y)')
    BY <1>2, <1>3, <1>4 DEF Holding, Deletes, HoldPcs
  <2>2. \A y \in Actors : actors'[y].pc \in PlacedPcs => actors'[y].at \in DOMAIN slots
    BY <1>3, <1>4 DEF SupervisorInv, OwnerInv, HoldersInv
  <2>3. \A y \in Actors : actors'[y].at \in 0..Len(slots)
    BY <1>0, <1>3
  <2> QED BY <2>1, <2>2, <2>3
<1>6. HoldersInv'
  BY <1>0, <1>5 DEF HoldersInv, Holding
<1>7. DeletersInv'
  BY <1>0, <1>5 DEF DeletersInv, Deletes, DelPcs
<1>8. SupervisorTypes'
  BY <1>0, <1>3 DEF SupervisorInv, SupervisorTypes
<1>9. Wired'
  <2>1. actors'["rebuild"].pc \notin {"recover", "activate"}
    BY <1>0, <1>5 DEF Holding
  <2> QED BY <1>0, <1>5, <2>1 DEF SupervisorInv, Wired
<1>10. SlotsInv' /\ RunnersInv' /\ DeletedQuiet'
  <2>1. \A s \in DOMAIN slots : slots[s].status = "deleting"
    BY <1>2 DEF SupervisorInv, OwnerInv, SlotsInv
  <2> QED BY <1>0, <1>1, <2>1 DEF SupervisorInv, OwnerInv, SlotsInv, RunnersInv, DeletedQuiet, Alive
<1> QED BY <1>6, <1>7, <1>8, <1>9, <1>10 DEF SupervisorInv, OwnerInv

\* A request that is abandoned keeps nothing but what its answer says.
LEMMA LeaveOwner ==
  ASSUME SupervisorInv, NEW c \in Clients, Leave(c)
  PROVE  SupervisorInv'
<1>0. /\ actors \in [Actors -> ActorSet] /\ chans \in Seq(ChanSet) /\ log \in LogSet
      /\ UNCHANGED <<chans, slots, map, runners, row, stopping>> /\ c \in Actors
      /\ stopping \in BOOLEAN /\ slots \in Seq(SlotSet) /\ 0 \in 0..Len(slots)
  BY LenProperties DEF SupervisorInv, SupervisorTypes, Leave, Actors
<1>1. /\ actors' \in [Actors -> ActorSet] /\ \A y \in Actors : y # c => Stays(y)
      /\ actors'[c].pc = "left" /\ actors'[c].at = 0
  <2> DEFINE permit == actors[c].permit /\ actors[c].pc = "awaiting"
             v == [Ended(actors[c], "left", actors[c].pc) EXCEPT !.permit = permit]
  <2>1. actors' = [actors EXCEPT ![c] = v]
    BY <1>0 DEF Leave
  <2>2. permit \in BOOLEAN
    BY <1>0 DEF ActorSet
  <2> HIDE DEF permit
  <2>3. v \in ActorSet /\ v.pc = "left" /\ v.at = 0
    <3>1. actors[c] \in ActorSet /\ actors[c].pc \in Answers
      BY <1>0, IsAt DEF ActorSet
    <3> QED BY <2>2, <3>1, IsAt DEF ActorSet, Ended, NoActor
  <2> HIDE DEF v
  <2> QED BY <1>0, <2>1, <2>3 DEF Stays
<1>2. CASE log' = log
  <2>1. Meek(c)
    <3>1. "left" \notin HoldPcs \cup DelPcs \cup PlacedPcs
      BY DEF HoldPcs, DelPcs, PlacedPcs
    <3> QED BY <1>0, <1>1, <3>1 DEF Meek
  <2> QED BY <1>0, <1>1, <1>2, <2>1, Moves
<1>3. CASE actors[c].pc = "detach" /\ log' = [log EXCEPT !.dir = "detached"]
  <2>1. Deletes(c) /\ Alive = {}
    BY <1>3 DEF Deletes, DelPcs, SupervisorInv, OwnerInv, DeletersInv
  <2> QED BY <1>0, <1>1, <1>3, <2>1, DetachedTyped, DeleterMoves
<1> QED BY <1>2, <1>3 DEF Leave

-----------------------------------------------------------------------------
\* Runners.

\* Tasks that end, or that are told of a change.
Quiet(all) ==
  /\ all \in [Actors -> ActorSet]
  /\ \A y \in Actors :
       \/ all[y].pc = actors[y].pc /\ all[y].at = actors[y].at /\ all[y].id = actors[y].id
       \/ all[y].pc = "done" /\ all[y].at = 0
       \/ /\ actors[y].pc = "waiting" /\ all[y].pc \in {"mark", "ensure"}
          /\ all[y].at = actors[y].at

LEMMA QuietDropped ==
  ASSUME actors \in [Actors -> ActorSet], NEW commands
  PROVE  Quiet(actors) /\ Quiet(Dropped(actors, commands))
<1>1. Quiet(actors)
  BY DEF Quiet
<1>2. Quiet(Dropped(actors, commands))
  BY DroppedReturns DEF Quiet
<1> QED BY <1>1, <1>2

LEMMA QuietNotified ==
  ASSUME NEW all, Quiet(all), NEW s
  PROVE  Quiet(Notified(all, s))
<1> DEFINE next == Notified(all, s)
<1>1. /\ next \in [Actors -> ActorSet]
      /\ \A y \in Actors : /\ next[y].at = all[y].at /\ next[y].id = all[y].id
                           /\ \/ next[y].pc = all[y].pc
                              \/ all[y].pc = "waiting" /\ next[y].pc \in {"mark", "ensure"}
  BY NotifiedReturns DEF Quiet
<1> HIDE DEF next
<1>2. Quiet(next)
  BY <1>1 DEF Quiet
<1> QED BY <1>2 DEF next

LEMMA QuietAside ==
  ASSUME SupervisorInv, NEW all, Quiet(all), NEW y \in Actors, actors'[y] = all[y]
  PROVE  Meek(y) \/ Stays(y)
<1>1. /\ \A x \in Actors : actors[x].at \in 0..Len(slots)
      /\ slots \in Seq(SlotSet)
      /\ \A x \in Actors : actors[x].pc \in PlacedPcs => actors[x].at \in DOMAIN slots
  BY DEF SupervisorInv, SupervisorTypes, Wired, OwnerInv, HoldersInv
<1>2. /\ {"done", "mark", "ensure"} \cap (HoldPcs \cup DelPcs) = {} /\ "done" \notin PlacedPcs
      /\ "waiting" \in PlacedPcs /\ 0 \in 0..Len(slots)
  BY <1>1, LenProperties DEF HoldPcs, DelPcs, PlacedPcs
<1> QED BY <1>1, <1>2 DEF Quiet, Meek, Stays

LEMMA EffectTyped ==
  ASSUME log \in LogSet, NEW command \in CommandSet
  PROVE  Effect(command) \in LogSet /\ Effect(command).dir \in {log.dir, "live"}
<1>1. command.stage \in StageSet /\ command.count \in Nat /\ command.from \in Actors \cup {"none"}
  BY DEF CommandSet
<1>2. Append(log.applied, command.from) \in Seq(Actors \cup {"none"})
  BY <1>1 DEF LogSet
<1> DEFINE streak == [stage |-> command.stage, count |-> command.count, steps |-> 0]
           applied == Append(log.applied, command.from)
<1>3. streak \in StreakSet /\ applied \in Seq(Actors \cup {"none"})
  BY <1>1, <1>2 DEF StreakSet
<1>4. \/ Effect(command) = [log EXCEPT !.dir = "live", !.applied = applied]
      \/ Effect(command) = [log EXCEPT !.work = TRUE, !.finished = FALSE, !.applied = applied]
      \/ Effect(command) = [log EXCEPT !.work = FALSE, !.finished = FALSE, !.applied = applied]
      \/ Effect(command) = [log EXCEPT !.work = TRUE, !.finished = FALSE, !.streak = streak]
      \/ Effect(command) = log
  BY DEF Effect
<1> HIDE DEF streak, applied
<1> QED BY <1>3, <1>4 DEF LogSet

\* A runner works, or returns.
LEMMA RunnerMoves ==
  ASSUME SupervisorInv, UNCHANGED <<slots, map, stopping>>,
         log' \in LogSet, log'.dir = "detached" <=> log.dir = "detached",
         chans' \in Seq(ChanSet), DOMAIN chans' = DOMAIN chans, row' \in StreakSet,
         NEW id \in DOMAIN runners, NEW r \in RunnerSet, runners' = [runners EXCEPT ![id] = r],
         r.at = runners[id].at, r.chan = runners[id].chan,
         r.pc \in {"run", "idle"} => runners[id].pc \in {"run", "idle"},
         NEW all, Quiet(all), actors' = all
  PROVE  SupervisorInv'
<1>0. /\ runners' \in Seq(RunnerSet) /\ DOMAIN runners' = DOMAIN runners
      /\ \A j \in DOMAIN runners : runners'[j] = IF j = id THEN r ELSE runners[j]
  BY ExceptAt DEF SupervisorInv, SupervisorTypes
<1>1. \A y \in Actors : Meek(y) \/ Stays(y)
  BY QuietAside
<1>2. actors' \in [Actors -> ActorSet]
  BY DEF Quiet
<1>3. SupervisorTypes'
  BY <1>0, <1>2 DEF SupervisorInv, SupervisorTypes
<1>4. Wired'
  <2>1. \A y \in Actors : actors'[y].at \in 0..Len(slots)
    BY <1>1 DEF Meek, Stays, SupervisorInv, Wired
  <2>2. "rebuild" \in Actors /\ (actors'["rebuild"].pc \in {"recover", "activate"} => Stays("rebuild"))
    BY <1>1 DEF Meek, Actors, HoldPcs
  <2> QED BY <1>0, <2>1, <2>2 DEF SupervisorInv, Wired, Stays
<1>5. Alive' \subseteq Alive
  BY <1>0 DEF Alive
<1>6. OwnerInv'
  BY <1>0, <1>1, <1>5, OwnerAside DEF SupervisorInv
<1> QED BY <1>3, <1>4, <1>6 DEF SupervisorInv

\* What is known of a runner that is alive.
LEMMA RunnerAt ==
  ASSUME SupervisorInv, NEW id \in DOMAIN runners
  PROVE  /\ runners[id] \in RunnerSet /\ runners[id].at \in DOMAIN slots
         /\ runners[id].chan \in DOMAIN chans /\ chans[runners[id].chan] \in ChanSet
         /\ chans[runners[id].chan].queue \in Seq(CommandSet)
         /\ id \in Alive => log.dir # "detached"
<1>1. /\ runners \in Seq(RunnerSet) /\ chans \in Seq(ChanSet)
      /\ runners[id].chan \in DOMAIN chans /\ runners[id].at \in DOMAIN slots
      /\ id \in Alive => log.dir # "detached"
  BY DEF SupervisorInv, SupervisorTypes, Wired, OwnerInv, RunnersInv, DeletedQuiet
<1>2. runners[id] \in RunnerSet /\ chans[runners[id].chan] \in ChanSet
  BY <1>1
<1> QED BY <1>1, <1>2 DEF ChanSet

LEMMA LeftReturns ==
  ASSUME SupervisorInv, NEW id \in DOMAIN runners, NEW stage \in StageSet,
         NEW how \in {"idle", "circuit", "stopped", "failed", "gone"}
  PROVE  LET r == [runners[id] EXCEPT !.pc = how, !.stage = stage] IN
         /\ r \in RunnerSet /\ r.at = runners[id].at /\ r.chan = runners[id].chan /\ r.pc = how
  BY RunnerAt DEF RunnerSet

LEMMA AfterStepTyped ==
  ASSUME NEW streak \in StreakSet
  PROVE  AfterStep(streak) \in StreakSet
  BY DEF AfterStep, NoStreak, StreakSet, StageSet

LEMMA QuietSettled ==
  ASSUME NEW all, Quiet(all), NEW x \in Actors
  PROVE  /\ Quiet([all EXCEPT ![x].permit = FALSE])
         /\ Quiet([all EXCEPT ![x] = Ended(all[x], "done", "ok")])
<1>1. all \in [Actors -> ActorSet] /\ all[x] \in ActorSet
  BY DEF Quiet
<1> DEFINE v == [all[x] EXCEPT !.permit = FALSE]
           w == Ended(all[x], "done", "ok")
<1>2. v \in ActorSet /\ v.pc = all[x].pc /\ v.at = all[x].at /\ v.id = all[x].id
  BY <1>1 DEF ActorSet
<1>3. w \in ActorSet /\ w.pc = "done" /\ w.at = 0
  BY <1>1, IsAt DEF ActorSet, Ended, NoActor
<1>4. [all EXCEPT ![x].permit = FALSE] = [all EXCEPT ![x] = v]
  BY <1>1
<1> HIDE DEF v, w
<1>5. Quiet([all EXCEPT ![x] = v])
  BY <1>1, <1>2 DEF Quiet
<1>6. Quiet([all EXCEPT ![x] = w])
  BY <1>1, <1>3 DEF Quiet
<1> QED BY <1>4, <1>5, <1>6 DEF w

LEMMA WorkOwner ==
  ASSUME SupervisorInv, NEW id, Work(id) \/ IdleExit(id)
  PROVE  SupervisorInv'
<1>0. /\ id \in DOMAIN runners /\ runners[id].pc = "run" /\ runners \in Seq(RunnerSet)
      /\ runners[id] \in RunnerSet
      /\ actors \in [Actors -> ActorSet] /\ log \in LogSet /\ row \in StreakSet
      /\ chans \in Seq(ChanSet) /\ log.streak \in StreakSet
      /\ UNCHANGED <<slots, map, stopping, chans, actors>>
  BY RunnerAt DEF SupervisorInv, SupervisorTypes, Work, IdleExit, Runs, LogSet
<1>1. Quiet(actors)
  BY <1>0, QuietDropped
<1>2. log' \in LogSet /\ log'.dir = log.dir
  <2> DEFINE next == AfterStep(log.streak)
  <2>1. next \in StreakSet
    BY <1>0, AfterStepTyped
  <2>2. log' = [log EXCEPT !.streak = next] \/ log' = [log EXCEPT !.work = FALSE, !.finished = TRUE] \/ log' = log
    BY DEF Work, IdleExit
  <2> HIDE DEF next
  <2> QED BY <1>0, <2>1, <2>2 DEF LogSet
<1>3. row' \in StreakSet
  BY <1>0, AfterStepTyped DEF Work, IdleExit
<1>4. CASE Work(id)
  <2>1. runners' = [runners EXCEPT ![id] = runners[id]]
    BY <1>0, <1>4 DEF Work
  <2> QED BY <1>0, <1>1, <1>2, <1>3, <2>1, RunnerMoves
<1>5. CASE IdleExit(id)
  <2> DEFINE r == [runners[id] EXCEPT !.pc = "idle", !.stage = "none"]
  <2>1. runners' = [runners EXCEPT ![id] = r]
    BY <1>0, <1>5 DEF IdleExit, Left
  <2>2. "none" \in StageSet
    BY DEF StageSet
  <2>3. r \in RunnerSet /\ r.at = runners[id].at /\ r.chan = runners[id].chan /\ r.pc = "idle"
    BY <1>0, <2>2, LeftReturns
  <2> HIDE DEF r
  <2> QED BY <1>0, <1>1, <1>2, <1>3, <2>1, <2>3, RunnerMoves
<1> QED BY <1>4, <1>5

LEMMA HandleOwner ==
  ASSUME SupervisorInv, NEW id, Handle(id)
  PROVE  SupervisorInv'
<1> DEFINE ch == runners[id].chan
           queue == chans[ch].queue
           command == Head(queue)
           ends == command.what = "stop" \/ Opens(command)
<1>0. /\ id \in DOMAIN runners /\ runners[id].pc = "run" /\ runners \in Seq(RunnerSet)
      /\ actors \in [Actors -> ActorSet] /\ log \in LogSet /\ row \in StreakSet
      /\ chans \in Seq(ChanSet) /\ queue # <<>> /\ log' = Effect(command)
      /\ UNCHANGED <<slots, map, stopping, row>>
  BY DEF SupervisorInv, SupervisorTypes, Handle, Runs
<1>1. /\ runners[id] \in RunnerSet /\ ch \in DOMAIN chans /\ chans[ch] \in ChanSet
      /\ queue \in Seq(CommandSet) /\ log.dir # "detached"
  BY <1>0, RunnerAt DEF Alive
<1>2. command \in CommandSet /\ Tail(queue) \in Seq(CommandSet)
  BY <1>0, <1>1, HeadTailProperties
<1>3. log' \in LogSet /\ log'.dir # "detached"
  BY <1>0, <1>1, <1>2, EffectTyped
<1>4. chans' \in Seq(ChanSet) /\ DOMAIN chans' = DOMAIN chans
  <2> DEFINE e == [chans[ch] EXCEPT !.queue = Tail(queue)]
  <2>1. e \in ChanSet
    BY <1>1, <1>2 DEF ChanSet
  <2>2. chans' = Closed(ch) \/ chans' = [chans EXCEPT ![ch] = e]
    BY DEF Handle
  <2> HIDE DEF e
  <2> QED BY <1>0, <2>1, <2>2, ClosedReturns, ExceptAt
<1>5. \E r \in RunnerSet : /\ runners' = [runners EXCEPT ![id] = r]
                           /\ r.at = runners[id].at /\ r.chan = runners[id].chan
  <2>1. CASE ends
    <3>1. PICK left \in {"stopped", "circuit"} : Left(id, left, "none")
      BY <2>1 DEF Handle
    <3> DEFINE r == [runners[id] EXCEPT !.pc = left, !.stage = "none"]
    <3>2. runners' = [runners EXCEPT ![id] = r]
      BY <1>0, <3>1 DEF Left
    <3>3. "none" \in StageSet /\ runners[id] \in RunnerSet
      BY <1>1 DEF StageSet
    <3>4. r \in RunnerSet /\ r.at = runners[id].at /\ r.chan = runners[id].chan
      BY <3>3 DEF RunnerSet
    <3> HIDE DEF r
    <3> QED BY <3>2, <3>4
  <2>2. CASE ~ends
    <3>0. runners' = runners
      BY <2>2 DEF Handle
    <3>1. runners' = [runners EXCEPT ![id] = runners[id]]
      BY ONLY <1>0, <3>0
    <3> QED BY <1>1, <3>1
  <2> QED BY <2>1, <2>2
<1>6. Quiet(actors')
  <2> DEFINE rest == IF ends THEN Dropped(actors, Tail(queue)) ELSE actors
             from == command.from
  <2>1. Quiet(rest)
    BY <1>0, QuietDropped
  <2>2. actors' = IF from \notin Clients \/ rest[from].pc # "awaiting"
                  THEN IF from \in Clients THEN [rest EXCEPT ![from].permit = FALSE] ELSE rest
                  ELSE [rest EXCEPT ![from] = Ended(rest[from], "done", "ok")]
    BY DEF Handle
  <2> HIDE DEF rest, from
  <2>3. from \in Clients => from \in Actors
    BY DEF Actors
  <2>4. \/ actors' = rest
        \/ from \in Actors /\ actors' = [rest EXCEPT ![from].permit = FALSE]
        \/ from \in Actors /\ actors' = [rest EXCEPT ![from] = Ended(rest[from], "done", "ok")]
    BY <2>2, <2>3
  <2> QED BY <2>1, <2>4, QuietSettled
<1> HIDE DEF ch, queue, command, ends
<1>7. PICK r \in RunnerSet : /\ runners' = [runners EXCEPT ![id] = r]
                             /\ r.at = runners[id].at /\ r.chan = runners[id].chan
  BY <1>5
<1> QED BY <1>0, <1>1, <1>3, <1>4, <1>6, <1>7, RunnerMoves

LEMMA FailOwner ==
  ASSUME SupervisorInv, NEW id, Fail(id)
  PROVE  SupervisorInv'
<1> DEFINE ch == runners[id].chan
           queue == chans[ch].queue
<1>0. /\ id \in DOMAIN runners /\ runners[id].pc = "run" /\ runners \in Seq(RunnerSet)
      /\ actors \in [Actors -> ActorSet] /\ log \in LogSet /\ row \in StreakSet
      /\ chans \in Seq(ChanSet)
      /\ chans' = Closed(ch) /\ actors' = Dropped(actors, queue)
      /\ UNCHANGED <<slots, map, stopping>>
  BY DEF SupervisorInv, SupervisorTypes, Fail, Runs
<1>1. queue \in Seq(CommandSet) /\ log.dir # "detached"
  BY <1>0, RunnerAt DEF Alive
<1>2. \E stage \in {"append", "loop"} : Breaks(id, stage)
  BY DEF Fail
<1>3. log' = log \/ \E i \in DOMAIN queue : log' = Effect(queue[i])
  BY DEF Fail
<1>4. log' \in LogSet /\ (log'.dir = "detached" <=> log.dir = "detached")
  <2>1. \A i \in DOMAIN queue : queue[i] \in CommandSet
    BY <1>1
  <2> HIDE DEF queue
  <2> QED BY <1>0, <1>1, <1>3, <2>1, EffectTyped
<1>5. chans' \in Seq(ChanSet) /\ DOMAIN chans' = DOMAIN chans
  BY <1>0, ClosedReturns
<1>6. PICK stage \in {"append", "loop"} : Breaks(id, stage)
  BY <1>2
<1> DEFINE r == [runners[id] EXCEPT !.pc = "failed", !.stage = stage]
<1>7. stage \in StageSet
  BY DEF StageSet
<1>8. /\ runners' = [runners EXCEPT ![id] = r]
      /\ r \in RunnerSet /\ r.at = runners[id].at /\ r.chan = runners[id].chan /\ r.pc = "failed"
  <2>1. runners' = [runners EXCEPT ![id] = r]
    BY <1>0, <1>6 DEF Breaks, Left
  <2>2. r \in RunnerSet /\ r.at = runners[id].at /\ r.chan = runners[id].chan /\ r.pc = "failed"
    BY ONLY SupervisorInv, <1>0, <1>7, LeftReturns
  <2> QED BY <2>1, <2>2
<1>9. row' \in StreakSet
  BY <1>0, <1>6, <1>7 DEF Breaks, StreakSet
<1>10. Quiet(actors')
  BY <1>0, QuietDropped
<1> HIDE DEF ch, queue, r
<1> QED BY <1>0, <1>4, <1>5, <1>8, <1>9, <1>10, RunnerMoves

\* A runner whose exit is seen is gone.
LEMMA GoneReturns ==
  ASSUME SupervisorInv, NEW id \in DOMAIN runners
  PROVE  LET left == [runners EXCEPT ![id].pc = "gone"] IN
         \E r \in RunnerSet :
           /\ left = [runners EXCEPT ![id] = r] /\ r.pc = "gone"
           /\ r.at = runners[id].at /\ r.chan = runners[id].chan
           /\ left \in Seq(RunnerSet) /\ DOMAIN left = DOMAIN runners /\ Len(left) = Len(runners)
           /\ \A j \in DOMAIN runners : left[j] = IF j = id THEN r ELSE runners[j]
<1> DEFINE r == [runners[id] EXCEPT !.pc = "gone"]
<1>1. runners \in Seq(RunnerSet) /\ runners[id] \in RunnerSet
  BY RunnerAt DEF SupervisorInv, SupervisorTypes
<1>2. r \in RunnerSet /\ r.pc = "gone" /\ r.at = runners[id].at /\ r.chan = runners[id].chan
  BY <1>1 DEF RunnerSet
<1>3. [runners EXCEPT ![id].pc = "gone"] = [runners EXCEPT ![id] = r]
  BY <1>1
<1> HIDE DEF r
<1> DEFINE left == [runners EXCEPT ![id] = r]
<1>4. /\ left \in Seq(RunnerSet) /\ DOMAIN left = DOMAIN runners /\ Len(left) = Len(runners)
      /\ \A j \in DOMAIN runners : left[j] = IF j = id THEN r ELSE runners[j]
  BY <1>1, <1>2, ExceptAt
<1> HIDE DEF left
<1> QED BY <1>2, <1>3, <1>4 DEF left

\* A slot that is this runner's is in the map, and nobody else works on it.
LEMMA MineAlone ==
  ASSUME SupervisorInv, NEW id \in DOMAIN runners, Mine(id)
  PROVE  /\ runners[id].at = map /\ map \in DOMAIN slots /\ slots[map] \in SlotSet
         /\ slots[map].status = "active" /\ slots[map].id = id
         /\ log.dir # "detached" /\ DOMAIN slots = {map}
         /\ \A x \in Actors : ~Holding(x)
         /\ \A c \in Clients : ~Deletes(c)
         /\ Alive \subseteq {id}
<1>1. /\ runners[id].at \in DOMAIN slots /\ slots[runners[id].at].status = "active"
      /\ slots[runners[id].at].id = id /\ slots \in Seq(SlotSet)
  BY RunnerAt DEF Mine, SupervisorInv, SupervisorTypes
<1>2. /\ runners[id].at = map
      /\ \A x \in Actors : ~Holding(x)
      /\ \A c \in Clients : ~Deletes(c)
  BY <1>1, Unheld
<1>3. log.dir # "detached"
  BY <1>1 DEF SupervisorInv, OwnerInv, DeletedQuiet
<1>4. DOMAIN slots = {map}
  BY <1>1, <1>2, <1>3 DEF SupervisorInv, OwnerInv, SlotsInv
<1>5. Alive \subseteq {id}
  BY <1>1, <1>2, <1>4 DEF SupervisorInv, OwnerInv, RunnersInv, Alive
<1>6. slots[runners[id].at] \in SlotSet
  BY <1>1
<1> QED BY <1>1, <1>2, <1>3, <1>4, <1>5, <1>6

\* What an exit leaves of the tasks.
LEMMA ExitedTasks ==
  ASSUME SupervisorInv, NEW id, Exited(id)
  PROVE  \E all : /\ Quiet(all)
                  /\ \/ ~Rebuilds(id) /\ actors' = all
                     \/ Rebuilds(id) /\ actors' = [all EXCEPT !["rebuild"] =
                          [NoActor EXCEPT !.pc = "recover", !.at = runners[id].at, !.id = id]]
<1>1. PICK rest : /\ \/ rest = actors \/ \E commands : rest = Dropped(actors, commands)
                  /\ LET told == IF Mine(id) THEN Notified(rest, runners[id].at) ELSE rest
                     IN actors' = IF Rebuilds(id)
                          THEN [told EXCEPT !["rebuild"] =
                            [NoActor EXCEPT !.pc = "recover", !.at = runners[id].at, !.id = id]]
                          ELSE told
  BY DEF Exited
<1>2. Quiet(rest)
  BY <1>1, QuietDropped DEF SupervisorInv, SupervisorTypes
<1> DEFINE told == IF Mine(id) THEN Notified(rest, runners[id].at) ELSE rest
<1>3. Quiet(told)
  BY <1>2, QuietNotified
<1>4. \/ ~Rebuilds(id) /\ actors' = told
      \/ Rebuilds(id) /\ actors' = [told EXCEPT !["rebuild"] =
           [NoActor EXCEPT !.pc = "recover", !.at = runners[id].at, !.id = id]]
  BY <1>1
<1> HIDE DEF told
<1> QED BY <1>3, <1>4

LEMMA ExitedOwner ==
  ASSUME SupervisorInv, NEW id, Exited(id)
  PROVE  SupervisorInv'
<1> DEFINE ch == runners[id].chan
<1>0. /\ id \in DOMAIN runners /\ runners \in Seq(RunnerSet) /\ slots \in Seq(SlotSet)
      /\ actors \in [Actors -> ActorSet] /\ log \in LogSet /\ row \in StreakSet
      /\ chans \in Seq(ChanSet) /\ chans' \in {chans, Closed(ch)}
      /\ UNCHANGED <<log, map, stopping, row>>
      /\ "rebuild" \in Actors /\ Clients \subseteq Actors /\ "rebuild" \notin Clients
  BY SupervisorAssumption DEF SupervisorInv, SupervisorTypes, Exited, Actors
<1>1. chans' \in Seq(ChanSet) /\ DOMAIN chans' = DOMAIN chans
  BY <1>0, ClosedReturns
<1> HIDE DEF ch
<1>2. PICK all : /\ Quiet(all)
                 /\ \/ ~Rebuilds(id) /\ actors' = all
                    \/ Rebuilds(id) /\ actors' = [all EXCEPT !["rebuild"] =
                         [NoActor EXCEPT !.pc = "recover", !.at = runners[id].at, !.id = id]]
  BY ExitedTasks
<1> DEFINE left == [runners EXCEPT ![id].pc = "gone"]
<1>3. PICK r \in RunnerSet :
        /\ left = [runners EXCEPT ![id] = r] /\ r.pc = "gone"
        /\ r.at = runners[id].at /\ r.chan = runners[id].chan
        /\ left \in Seq(RunnerSet) /\ DOMAIN left = DOMAIN runners /\ Len(left) = Len(runners)
        /\ \A j \in DOMAIN runners : left[j] = IF j = id THEN r ELSE runners[j]
  BY <1>0, GoneReturns
<1>4. CASE ~Mine(id)
  <2>1. ~Rebuilds(id) /\ runners' = left /\ UNCHANGED slots
    BY <1>4 DEF Exited, Rebuilds
  <2> QED BY <1>0, <1>1, <1>2, <1>3, <2>1, RunnerMoves
<1>5. CASE Mine(id)
  <2>1. /\ runners[id].at = map /\ map \in DOMAIN slots /\ slots[map] \in SlotSet
        /\ slots[map].status = "active" /\ slots[map].id = id
        /\ log.dir # "detached" /\ DOMAIN slots = {map}
        /\ \A x \in Actors : ~Holding(x)
        /\ \A c \in Clients : ~Deletes(c)
        /\ Alive \subseteq {id}
    BY <1>0, <1>5, MineAlone
  <2>2. \A y \in Actors : (y = "rebuild" => ~Rebuilds(id)) =>
          /\ actors'[y].pc \in PlacedPcs => actors'[y].at \in DOMAIN slots
          /\ actors'[y].at \in 0..Len(slots)
          /\ ~Holding(y)' /\ (y \in Clients => ~Deletes(y)')
    <3> SUFFICES ASSUME NEW y \in Actors, y = "rebuild" => ~Rebuilds(id)
                 PROVE  /\ actors'[y].pc \in PlacedPcs => actors'[y].at \in DOMAIN slots
                        /\ actors'[y].at \in 0..Len(slots)
                        /\ ~Holding(y)' /\ (y \in Clients => ~Deletes(y)')
      OBVIOUS
    <3>1. actors'[y] = all[y]
      BY <1>2 DEF Quiet
    <3>2. Meek(y) \/ Stays(y)
      BY <1>2, <3>1, QuietAside
    <3>3. CASE Meek(y)
      BY <2>1, <3>3 DEF Meek, Holding, Deletes, HoldPcs
    <3>4. CASE Stays(y)
      BY <2>1, <3>4 DEF Stays, Holding, Deletes, SupervisorInv, OwnerInv, HoldersInv, Wired
    <3> QED BY <3>2, <3>3, <3>4
  <2>3. actors' \in [Actors -> ActorSet]
    <3>1. [NoActor EXCEPT !.pc = "recover", !.at = runners[id].at, !.id = id] \in ActorSet
      <4>1. map \in Nat /\ id \in Nat
        <5>1. map \in 0..Len(slots) /\ Len(slots) \in Nat /\ Len(runners) \in Nat
          BY <1>0, LenProperties DEF SupervisorInv, SupervisorTypes
        <5>2. DOMAIN runners = 1..Len(runners)
          BY <1>0, LenProperties
        <5> QED BY <1>0, <5>1, <5>2
      <4> QED BY <2>1, <4>1, IsAt DEF NoActor, ActorSet
    <3> QED BY <1>2, <3>1 DEF Quiet
  <2>4. Rebuilds(id) => /\ actors'["rebuild"].pc = "recover" /\ actors'["rebuild"].at = map
                        /\ actors'["rebuild"].id = id
    <3> DEFINE v == [NoActor EXCEPT !.pc = "recover", !.at = runners[id].at, !.id = id]
    <3>1. v.pc = "recover" /\ v.at = map /\ v.id = id
      BY <2>1 DEF NoActor
    <3>2. Rebuilds(id) => actors' = [all EXCEPT !["rebuild"] = v]
      BY <1>2
    <3> HIDE DEF v
    <3>3. all \in [Actors -> ActorSet]
      BY <1>2 DEF Quiet
    <3> QED BY <1>0, <3>1, <3>2, <3>3
  <2>5. DeletersInv'
    <3>1. \A c \in Clients : ~Deletes(c)'
      BY <1>0, <2>2
    <3> QED BY <3>1 DEF DeletersInv, Deletes, DelPcs
  <2>6. \A y \in Actors : actors'[y].pc \in PlacedPcs => actors'[y].at \in DOMAIN slots
    BY <2>1, <2>2, <2>4
  <2>7. \A y \in Actors : actors'[y].at \in 0..Len(slots)
    <3>1. map \in 0..Len(slots)
      BY DEF SupervisorInv, SupervisorTypes
    <3> QED BY <2>2, <2>4, <3>1
  <2> DEFINE restarts == runners[id].pc = "idle" /\ ~stopping /\ chans[runners[id].chan].queue # <<>>
  <2>8. CASE restarts
    <3> DEFINE again == [runners[id] EXCEPT !.pc = "run"]
               n == Len(runners) + 1
               e == [slots[map] EXCEPT !.id = n]
    <3>1. again \in RunnerSet /\ again.at = map /\ again.chan = runners[id].chan /\ again.pc = "run"
      <4>1. runners[id] \in RunnerSet
        BY <1>0
      <4> QED BY <2>1, <4>1 DEF RunnerSet
    <3>2. runners' = Append(left, again)
      BY <1>5, <2>8 DEF Exited
    <3> HIDE DEF again, left
    <3>3. /\ runners' \in Seq(RunnerSet) /\ Len(runners') = n /\ n \in Nat
          /\ DOMAIN runners' = DOMAIN runners \cup {n} /\ n \notin DOMAIN runners
          /\ runners'[n] = again
          /\ \A j \in DOMAIN runners : runners'[j] = IF j = id THEN r ELSE runners[j]
      BY <1>0, <1>3, <3>1, <3>2, AppendAt, LenProperties
    <3>4. slots' = [slots EXCEPT ![map] = e]
      BY <1>5, <2>1, <2>8, <3>3 DEF Exited
    <3>5. e \in SlotSet /\ e.id = n /\ e.status = "active"
      BY <2>1, <3>3 DEF SlotSet
    <3> HIDE DEF e, n
    <3>6. /\ slots' \in Seq(SlotSet) /\ DOMAIN slots' = DOMAIN slots /\ Len(slots') = Len(slots)
          /\ slots'[map] = e
      <4>1. slots \in Seq(SlotSet) /\ map \in DOMAIN slots
        BY <1>0, <2>1
      <4> QED BY <3>4, <3>5, <4>1, ExceptAt
    <3>7. ~Rebuilds(id)
      BY <2>8 DEF Rebuilds
    <3>8. Alive' = {n}
      BY <1>3, <2>1, <3>1, <3>3 DEF Alive
    <3>9. HoldersInv'
      BY <2>2, <2>6, <3>6, <3>7 DEF HoldersInv, Holding
    <3>10. SupervisorTypes'
      BY <1>0, <1>1, <2>3, <3>3, <3>6 DEF SupervisorInv, SupervisorTypes
    <3>11. Wired'
      <4>1. \A j \in DOMAIN runners' : runners'[j].chan \in DOMAIN chans'
        BY <1>0, <1>1, <1>3, <3>1, <3>3 DEF SupervisorInv, Wired
      <4>2. actors'["rebuild"].pc \notin {"recover", "activate"}
        BY <1>0, <2>2, <3>7 DEF Holding
      <4> QED BY <2>7, <3>6, <4>1, <4>2 DEF Wired
    <3>12. SlotsInv' /\ DeletedQuiet'
      BY <1>0, <2>1, <3>6 DEF SlotsInv, DeletedQuiet
    <3>13. RunnersInv'
      <4>1. \A j \in DOMAIN runners : j <= n
        BY <1>0, LenProperties DEF n
      <4>2. \A j \in DOMAIN runners : runners[j].at = map
        BY <2>1, RunnerAt
      <4>3. \A j \in DOMAIN runners' : runners'[j].at = map
        BY <1>3, <3>1, <3>3, <4>2
      <4>4. \A j \in DOMAIN runners' : j <= n
        BY <3>3, <4>1
      <4> QED BY <2>1, <3>5, <3>6, <3>8, <4>3, <4>4 DEF RunnersInv
    <3> QED BY <2>5, <3>9, <3>10, <3>11, <3>12, <3>13 DEF SupervisorInv, OwnerInv
  <2>9. CASE ~restarts
    <3>1. PICK status \in {"recovering", "circuit", "idle"}, finished \in BOOLEAN :
            /\ slots' = [slots EXCEPT ![map].status = status, ![map].finished = finished]
            /\ Rebuilds(id) => status = "recovering"
      <4>1. ListedFinished(id) \in BOOLEAN
        BY <1>0 DEF ListedFinished, LogSet
      <4>2. \E status \in {"recovering", "circuit", "idle"} :
              /\ slots' = [slots EXCEPT ![map].status = status, ![map].finished = ListedFinished(id)]
              /\ Rebuilds(id) => status = "recovering"
        BY <1>5, <2>1, <2>9 DEF Exited
      <4> QED BY <4>1, <4>2
    <3> DEFINE e == [slots[map] EXCEPT !.status = status, !.finished = finished]
    <3>2. slots' = [slots EXCEPT ![map] = e]
      BY <1>0, <2>1, <3>1
    <3>3. e \in SlotSet /\ e.id = id /\ e.status = status
      BY <2>1 DEF SlotSet, Statuses
    <3>4. runners' = left
      BY <1>5, <2>9 DEF Exited
    <3> HIDE DEF e, left
    <3>5. /\ slots' \in Seq(SlotSet) /\ DOMAIN slots' = DOMAIN slots /\ Len(slots') = Len(slots)
          /\ slots'[map] = e
      <4>1. slots \in Seq(SlotSet) /\ map \in DOMAIN slots
        BY <1>0, <2>1
      <4> QED BY <3>2, <3>3, <4>1, ExceptAt
    <3>6. Alive' = {}
      BY <1>3, <2>1, <3>4 DEF Alive
    <3>7. HoldersInv'
      <4>1. \A y \in Actors : Holding(y)' => y = "rebuild" /\ Rebuilds(id)
        BY <2>2
      <4>2. \A y \in Actors : Holding(y)' => Slot(y)'.status = "recovering" /\ actors'[y].pc = "recover"
        BY <2>1, <2>4, <3>1, <3>3, <3>5, <4>1 DEF Slot
      <4>3. \A y \in Actors : actors'[y].pc = "activate" => Holding(y)'
        BY DEF Holding
      <4> QED BY <2>6, <3>5, <4>1, <4>2, <4>3 DEF HoldersInv
    <3>8. SupervisorTypes'
      BY <1>0, <1>1, <1>3, <2>3, <3>4, <3>5 DEF SupervisorInv, SupervisorTypes
    <3>9. Wired'
      <4>1. \A j \in DOMAIN runners' : runners'[j].chan \in DOMAIN chans'
        BY <1>0, <1>1, <1>3, <3>4 DEF SupervisorInv, Wired
      <4>2. actors'["rebuild"].pc \in {"recover", "activate"} => actors'["rebuild"].id \in DOMAIN runners'
        BY <1>0, <1>3, <2>2, <2>4, <3>4 DEF Holding
      <4> QED BY <2>7, <3>5, <4>1, <4>2 DEF Wired
    <3>10. SlotsInv' /\ DeletedQuiet'
      BY <1>0, <2>1, <3>5 DEF SlotsInv, DeletedQuiet
    <3>11. RunnersInv'
      <4>1. \A j \in DOMAIN runners' : runners'[j].at = map /\ j <= id
        <5>1. \A j \in DOMAIN runners : runners[j].at = map /\ j <= id
          BY <2>1, RunnerAt DEF SupervisorInv, OwnerInv, RunnersInv
        <5> QED BY <1>3, <3>4, <5>1
      <4> QED BY <2>1, <3>3, <3>5, <3>6, <4>1 DEF RunnersInv
    <3> QED BY <2>5, <3>7, <3>8, <3>9, <3>10, <3>11 DEF SupervisorInv, OwnerInv
  <2> QED BY <2>8, <2>9
<1> QED BY <1>4, <1>5

-----------------------------------------------------------------------------
LEMMA SupervisorInit == Init => SupervisorInv
<1> SUFFICES ASSUME Init PROVE SupervisorInv
  OBVIOUS
<1>0. log \in [dir : {"live"}, work : BOOLEAN, finished : BOOLEAN,
                streak : {NoStreak}, applied : {<<>>}]
             \cup [dir : {"none"}, work : {FALSE}, finished : {FALSE},
                   streak : {NoStreak}, applied : {<<>>}]
  BY DEF Init
<1>1. /\ slots = <<>> /\ map = 0 /\ chans = <<>> /\ runners = <<>>
      /\ stopping = FALSE /\ row = NoStreak /\ log.dir # "detached"
      /\ DOMAIN slots = {} /\ DOMAIN runners = {} /\ Len(slots) = 0
  <2>1. log.dir \in {"live", "none"}
    BY <1>0
  <2>2. /\ slots = <<>> /\ map = 0 /\ chans = <<>> /\ runners = <<>>
        /\ stopping = FALSE /\ row = NoStreak
    BY DEF Init
  <2> QED BY <2>1, <2>2
<1>2. NoStreak \in StreakSet
  BY DEF NoStreak, StreakSet, StageSet
<1>3. log \in LogSet
  <2>1. <<>> \in Seq(Actors \cup {"none"})
    OBVIOUS
  <2> QED BY <1>0, <1>2, <2>1 DEF LogSet
<1>4. /\ actors \in [Actors -> ActorSet]
      /\ \A x \in Actors : actors[x].pc \in {"off", "discover"} /\ actors[x].at = 0
  <2> DEFINE v == [NoActor EXCEPT !.pc = "discover"]
  <2>1. v \in ActorSet /\ v.pc = "discover" /\ v.at = 0
    BY IsAt DEF NoActor, ActorSet
  <2>2. NoActor \in ActorSet /\ NoActor.pc = "off" /\ NoActor.at = 0
    BY IsAt DEF NoActor, ActorSet
  <2>3. actors = [x \in Actors |-> IF x = "scan" THEN v ELSE NoActor]
    BY DEF Init
  <2> HIDE DEF v
  <2> QED BY <2>1, <2>2, <2>3
<1>5. SupervisorTypes
  <2>1. slots \in Seq(SlotSet) /\ chans \in Seq(ChanSet) /\ runners \in Seq(RunnerSet)
    BY <1>1
  <2>2. map \in 0..Len(slots)
    BY <1>1
  <2>3. stopping \in BOOLEAN
    BY <1>1
  <2> QED BY <1>1, <1>2, <1>3, <1>4, <2>1, <2>2, <2>3 DEF SupervisorTypes
<1>6. Wired
  <2>1. "rebuild" \in Actors
    BY DEF Actors
  <2> QED BY <1>1, <1>4, <2>1 DEF Wired
<1>7. {"off", "discover"} \cap (HoldPcs \cup DelPcs \cup PlacedPcs) = {} /\ Clients \subseteq Actors
  BY DEF HoldPcs, DelPcs, PlacedPcs, Actors
<1>8. \A x \in Actors : actors[x].pc \notin HoldPcs \cup DelPcs \cup PlacedPcs
  BY <1>4, <1>7
<1>9. HoldersInv /\ DeletersInv
  BY <1>7, <1>8 DEF HoldersInv, DeletersInv, Holding, Deletes, HoldPcs, DelPcs
<1>10. SlotsInv /\ RunnersInv /\ DeletedQuiet
  BY <1>1 DEF SlotsInv, RunnersInv, DeletedQuiet
<1> QED BY <1>5, <1>6, <1>9, <1>10 DEF SupervisorInv, OwnerInv

LEMMA SupervisorStep == SupervisorInv /\ [Next]_vars => SupervisorInv'
<1> SUFFICES ASSUME SupervisorInv, [Next]_vars PROVE SupervisorInv'
  OBVIOUS
<1>1. ASSUME NEW c \in Clients, Create(c) \/ Lookup(c) \/ Leave(c) PROVE SupervisorInv'
  BY <1>1, CreateOwner, LookupOwner, LeaveOwner
<1>2. ASSUME NEW c \in Clients, Insert(c) \/ Admit(c) \/ ReadLog(c) \/ EnsureActive(c) PROVE SupervisorInv'
  BY <1>2, InsertOwner, AdmitOwner, EnsureOwner
<1>3. ASSUME NEW c \in Clients, Dispatch(c) \/ Reserve(c) \/ TakePlace(c) \/ SendInternal(c)
      PROVE SupervisorInv'
  BY <1>3, RequestOwner
<1>4. ASSUME NEW c \in Clients, MarkDeleting(c) \/ Detach(c) \/ Forget(c) PROVE SupervisorInv'
  BY <1>4, MarkOwner, DetachOwner, ForgetOwner
<1>5. ASSUME NEW x \in Actors, Common(x) PROVE SupervisorInv'
  BY <1>5, RecoverOwner, GiveUpOwner, ActivateOwner, StopOwner DEF Common
<1>6. ASSUME NEW id, Handle(id) \/ Work(id) \/ Fail(id) \/ IdleExit(id) \/ Exited(id)
      PROVE SupervisorInv'
  BY <1>6, HandleOwner, WorkOwner, FailOwner, ExitedOwner
<1>7. ASSUME Glance PROVE SupervisorInv'
  <2>1. "scan" \in Actors
    BY DEF Actors
  <2> QED BY <1>7, <2>1, RecoverOwner, GiveUpOwner
<1>8. ASSUME Background \/ Shutdown PROVE SupervisorInv'
  BY <1>7, <1>8, InsertOwner, CheckOwner, DownOwner DEF Background
<1>9. ASSUME UNCHANGED vars PROVE SupervisorInv'
  BY <1>9 DEF vars, SupervisorInv, SupervisorTypes, Wired, OwnerInv, SlotsInv, RunnersInv,
     HoldersInv, DeletersInv, DeletedQuiet, Alive, Holding, Deletes, Slot
<1> QED BY <1>1, <1>2, <1>3, <1>4, <1>5, <1>6, <1>8, <1>9 DEF Next, Request

LEMMA SupervisorHolds == Spec => []SupervisorInv
<1> QED BY SupervisorInit, SupervisorStep, PTL DEF Spec

LEMMA OwnerOfAll == SupervisorInv => Ownership
<1> SUFFICES ASSUME SupervisorInv PROVE Ownership
  OBVIOUS
<1>1. \A x \in Actors : Holding(x) => Slot(x).status = "recovering"
  BY DEF SupervisorInv, OwnerInv, HoldersInv
<1> DEFINE H == {x \in Actors : Holding(x)}
<1>2. CASE H = {}
  <2>1. \A i, j \in Alive : i = j
    <3> SUFFICES ASSUME NEW i \in Alive, NEW j \in Alive PROVE i = j
      OBVIOUS
    <3>1. /\ i \in DOMAIN runners /\ j \in DOMAIN runners
          /\ i = slots[runners[i].at].id /\ j = slots[runners[j].at].id
          /\ runners[i].at \in DOMAIN slots /\ runners[j].at \in DOMAIN slots
      BY DEF SupervisorInv, OwnerInv, RunnersInv, Alive
    <3>2. log.dir # "detached"
      BY <3>1 DEF SupervisorInv, OwnerInv, DeletedQuiet
    <3>3. DOMAIN slots \subseteq {map}
      BY <3>2 DEF SupervisorInv, OwnerInv, SlotsInv
    <3> QED BY <3>1, <3>3
  <2>2. Alive = {} \/ \E i : Alive = {i}
    BY <2>1
  <2>3. Cardinality(Alive) \in {0, 1} /\ Cardinality(H) = 0
    BY <1>2, <2>2, FS_EmptySet, FS_Singleton
  <2> QED BY <1>1, <2>3 DEF Ownership, OneOwner, SupervisorInv, OwnerInv
<1>3. CASE H # {}
  <2>1. PICK x \in Actors : Holding(x)
    BY <1>3
  <2>2. H = {x} /\ Alive = {}
    BY <2>1, Alone
  <2>3. Cardinality(Alive) = 0 /\ Cardinality(H) = 1
    BY <2>2, FS_EmptySet, FS_Singleton
  <2> QED BY <1>1, <2>3 DEF Ownership, OneOwner, SupervisorInv, OwnerInv
<1> QED BY <1>2, <1>3

\* However requests, wakes, the scan, rebuilds after failures, deletions and a
\* shutdown meet, one runner at most owns the session or one task recovers it,
\* and nobody works on it once its directory was moved away (recover_slot,
\* activate, runner_exited, delete_session).
THEOREM OneOwnerAtATime == Spec => []Ownership
<1> QED BY SupervisorHolds, OwnerOfAll, PTL

-----------------------------------------------------------------------------
(* What a client is told of its command.                                   *)

Refusals == {"full", "overloaded", "circuit", "unavailable", "deleting", "notfound"}

\* Before a command is sent, and where a client can be.
Fresh == {"off", "insert", "admit", "read", "mark", "ensure", "waiting", "recover", "activate",
          "dispatch", "reserve", "reserving", "holding", "stop"}
ClientPcs == Fresh \cup {"awaiting", "join", "detach", "forget", "done", "left"}

\* Who is where, by what was asked for.
Suits(kind, pc, answer) ==
  /\ pc \in ClientPcs
  /\ pc = "read" => kind = "inspect"
  /\ pc \in {"mark", "stop", "join", "detach", "forget"} => kind = "delete"
  /\ pc \in {"ensure", "recover", "activate", "dispatch", "reserve", "reserving", "holding",
             "awaiting"} => kind # "delete"
  /\ pc = "dispatch" => kind \in External
  /\ pc \in {"reserve", "reserving", "holding"} => kind \notin External
  /\ pc \notin {"done", "left"} => answer = "none"
Fits(a) == Suits(a.kind, a.pc, a.answer)

\* The command of client c is the i-th of channel ch.
Lies(c, ch, i) ==
  ch \in DOMAIN chans /\ i \in DOMAIN chans[ch].queue /\ chans[ch].queue[i].from = c
Owed(c) == \E ch, i : Lies(c, ch, i)
Carries(kind) == IF kind = "delete" THEN "stop" ELSE kind

\* A command lies in one channel at most, and has no effect while it does; what
\* the client was told is so; and a place is held for a command that lies there,
\* or will.
Honest(c) ==
  /\ actors[c].pc \in Fresh => ~Owed(c) /\ Times(c) = 0
  /\ \A ch, i : Lies(c, ch, i) => chans[ch].queue[i].what = Carries(actors[c].kind)
  /\ Times(c) \in {0, 1}
  /\ actors[c].kind \notin External => Times(c) = 0
  /\ actors[c].kind \in External =>
       /\ \A ch, i, dh, j : Lies(c, ch, i) /\ Lies(c, dh, j) => ch = dh /\ i = j
       /\ Owed(c) => Times(c) = 0 /\ actors[c].pc \in {"awaiting", "left"}
       /\ actors[c].answer \in Refusals => ~Owed(c) /\ Times(c) = 0
       /\ actors[c].answer = "ok" => Times(c) = 1
  /\ actors[c].permit => /\ actors[c].kind \in External /\ actors[c].pc \notin {"off", "done"}
                         /\ actors[c].pc \in {"awaiting", "left"} => Owed(c)

\* A slot that is listed as finished rests, and so does its log; an active one has
\* a channel.
Listed(slot) ==
  /\ slot.finished => slot.status = "idle" /\ (log.dir = "live" => log.finished)
  /\ slot.status = "active" => slot.chan \in DOMAIN chans

ClientsInv == \A c \in Clients : Fits(actors[c]) /\ Honest(c)
PlacesInv == \A x \in Actors \ Clients : ~actors[x].permit
ListedInv == \A s \in DOMAIN slots : Listed(slots[s])
TruthInv == SupervisorInv /\ ClientsInv /\ PlacesInv /\ ListedInv

\* A client that neither sends nor is answered.
Goes(a, b) ==
  \/ b.pc = a.pc /\ b.kind = a.kind /\ b.answer = a.answer /\ b.permit = a.permit
  \/ /\ a.pc \in Fresh /\ (b.kind \in External => b.answer # "ok")
     /\ b.permit => b.kind \in External /\ b.pc \notin {"off", "done", "awaiting", "left"}
  \/ /\ a.pc = "awaiting" /\ b.pc = "left" /\ b.kind = a.kind /\ b.permit = a.permit
     /\ b.answer \notin Refusals \cup {"ok"}
  \/ a.kind \notin External /\ b.kind = a.kind /\ b.pc \notin Fresh /\ ~b.permit

PlainStep ==
  /\ \A c \in Clients : Goes(actors[c], actors'[c]) /\ Fits(actors'[c])
  /\ PlacesInv'

SameEntries(c) ==
  \A ch, i : /\ Lies(c, ch, i)' <=> Lies(c, ch, i)
             /\ Lies(c, ch, i) => chans'[ch].queue[i].what = chans[ch].queue[i].what

LEMMA PlainHonest ==
  ASSUME NEW c \in Clients, Honest(c), Goes(actors[c], actors'[c]), SameEntries(c),
         Times(c)' = Times(c)
  PROVE  Honest(c)'
<1>0. (Owed(c)' <=> Owed(c)) /\ (\A ch, i : Lies(c, ch, i)' <=> Lies(c, ch, i))
  BY DEF SameEntries, Owed
<1>1. \A ch, i : Lies(c, ch, i)' => /\ chans'[ch].queue[i].what = Carries(actors[c].kind)
  BY <1>0 DEF SameEntries, Honest
<1>2. \A ch, i : Lies(c, ch, i)' => Owed(c)
  BY <1>0 DEF Owed
<1> DEFINE a == actors[c]
           b == actors'[c]
           n == Times(c)
<1>3. /\ a.pc \in Fresh => ~Owed(c) /\ n = 0
      /\ n \in {0, 1}
      /\ a.kind \notin External => n = 0
      /\ a.kind \in External => /\ Owed(c) => n = 0 /\ a.pc \in {"awaiting", "left"}
                                /\ a.answer \in Refusals => ~Owed(c) /\ n = 0
                                /\ a.answer = "ok" => n = 1
      /\ a.permit => a.kind \in External /\ a.pc \notin {"off", "done"}
                     /\ (a.pc \in {"awaiting", "left"} => Owed(c))
  BY DEF Honest
<1>4. Goes(a, b)
  OBVIOUS
<1>5. /\ b.pc \in Fresh => ~Owed(c) /\ n = 0
      /\ b.kind \notin External => n = 0
      /\ b.kind \in External => /\ Owed(c) => n = 0 /\ b.pc \in {"awaiting", "left"}
                                /\ b.answer \in Refusals => ~Owed(c) /\ n = 0
                                /\ b.answer = "ok" => n = 1
      /\ b.kind = a.kind \/ ~Owed(c)
  <2> HIDE DEF a, b, n
  <2>1. {"awaiting", "left"} \cap Fresh = {}
    BY DEF Fresh
  <2> QED BY <1>3, <1>4, <2>1 DEF Goes
<1>6. b.permit => b.kind \in External /\ b.pc \notin {"off", "done"}
                  /\ (b.pc \in {"awaiting", "left"} => Owed(c))
  <2> HIDE DEF a, b, n
  <2> QED BY <1>3, <1>4 DEF Goes
<1>7. \A ch, i : Lies(c, ch, i)' => chans'[ch].queue[i].what = Carries(b.kind)
  BY <1>1, <1>2, <1>5
<1>8. b.kind \in External =>
        \A ch, i, dh, j : Lies(c, ch, i)' /\ Lies(c, dh, j)' => ch = dh /\ i = j
  BY <1>0, <1>2, <1>5 DEF Honest
<1>9. Times(c)' \in {0, 1}
  BY <1>3
<1> QED BY <1>0, <1>5, <1>6, <1>7, <1>8, <1>9 DEF Honest

\* A task that waits is woken.
LEMMA NotifiedGoes ==
  ASSUME NEW all \in [Actors -> ActorSet], NEW s, NEW c \in Clients, Honest(c), Fits(actors[c]),
         Goes(actors[c], all[c]), Fits(all[c]), all[c].permit => all[c].kind \in External
  PROVE  Goes(actors[c], Notified(all, s)[c]) /\ Fits(Notified(all, s)[c])
<1> DEFINE a == actors[c]
           b == all[c]
           d == Notified(all, s)[c]
<1>0. c \in Actors
  BY DEF Actors
<1>1. /\ d.kind = b.kind /\ d.permit = b.permit /\ d.answer = b.answer
      /\ \/ d.pc = b.pc
         \/ b.pc = "waiting" /\ b.kind = "delete" /\ d.pc = "mark"
         \/ b.pc = "waiting" /\ b.kind # "delete" /\ d.pc = "ensure"
  BY <1>0, NotifiedReturns
<1>2. Goes(a, b) /\ Fits(b) /\ Fits(a) /\ (b.permit => b.kind \in External)
  OBVIOUS
<1> HIDE DEF a, b, d
<1>3. Fits(d)
  BY <1>1, <1>2 DEF Fits, Suits, ClientPcs, Fresh
<1>4. Goes(a, d)
  <2>1. CASE d.pc = b.pc
    BY <1>1, <1>2, <2>1 DEF Goes
  <2>2. CASE b.pc = "waiting" /\ d.pc \in {"mark", "ensure"}
    <3>1. b.answer = "none" /\ a.pc \in Fresh
      BY <1>2, <2>2 DEF Fits, Suits, Goes, Fresh
    <3> QED BY <1>1, <1>2, <2>2, <3>1 DEF Goes
  <2> QED BY <1>1, <2>1, <2>2
<1> QED BY <1>3, <1>4 DEF a, d

LEMMA GoesAside ==
  ASSUME NEW a
  PROVE  Goes(a, a)
  BY DEF Goes

\* One task moves; those who wait may hear of it.
LEMMA PlainOne ==
  ASSUME TruthInv, NEW x \in Actors, NEW all \in [Actors -> ActorSet],
         \A y \in Actors : y # x => all[y] = actors[y],
         x \in Clients => /\ Goes(actors[x], all[x]) /\ Fits(all[x])
                          /\ all[x].permit => all[x].kind \in External,
         x \notin Clients => ~all[x].permit,
         actors' = all \/ \E s : actors' = Notified(all, s)
  PROVE  PlainStep
<1>0. Clients \subseteq Actors
  BY DEF Actors
<1>1. \A c \in Clients : /\ Goes(actors[c], all[c]) /\ Fits(all[c])
                         /\ all[c].permit => all[c].kind \in External
  <2>1. \A c \in Clients : Fits(actors[c]) /\ (actors[c].permit => actors[c].kind \in External)
    BY DEF TruthInv, ClientsInv, Honest
  <2>2. \A c \in Clients : Goes(actors[c], actors[c])
    BY GoesAside
  <2> QED BY <1>0, <2>1, <2>2
<1>2. \A y \in Actors \ Clients : ~all[y].permit
  BY DEF TruthInv, PlacesInv
<1>3. CASE actors' = all
  BY <1>1, <1>2, <1>3 DEF PlainStep, PlacesInv
<1>4. CASE \E s : actors' = Notified(all, s)
  <2>1. PICK s : actors' = Notified(all, s)
    BY <1>4
  <2>2. \A c \in Clients : Goes(actors[c], actors'[c]) /\ Fits(actors'[c])
    BY <1>1, <2>1, NotifiedGoes DEF TruthInv, ClientsInv
  <2>3. \A y \in Actors \ Clients : ~actors'[y].permit
    BY <1>2, <2>1, NotifiedReturns
  <2> QED BY <2>2, <2>3 DEF PlainStep, PlacesInv
<1> QED BY <1>3, <1>4

LEMMA PlainGo ==
  ASSUME TruthInv, NEW x \in Actors, NEW pc \in Pcs,
         actors' = Go(x, pc) \/ \E s : actors' = Notified(Go(x, pc), s),
         x \in Clients =>
           /\ Suits(actors[x].kind, pc, actors[x].answer)
           /\ \/ actors[x].pc \in Fresh /\ pc \notin {"off", "done", "awaiting", "left"}
              \/ actors[x].kind \notin External /\ pc \notin Fresh
  PROVE  PlainStep
<1> DEFINE all == Go(x, pc)
           a == actors[x]
           b == all[x]
<1>1. /\ all \in [Actors -> ActorSet] /\ \A y \in Actors : y # x => all[y] = actors[y]
      /\ b.pc = pc /\ b.kind = a.kind /\ b.permit = a.permit /\ b.answer = a.answer
  BY GoReturns DEF TruthInv, SupervisorInv, SupervisorTypes
<1>2. x \in Clients => /\ Fits(a) /\ (a.permit => a.kind \in External)
                       /\ a.pc \in Fresh => a.answer = "none"
  <2>1. \A pc1 \in Fresh : pc1 \notin {"done", "left"}
    BY DEF Fresh
  <2> QED BY <2>1 DEF TruthInv, ClientsInv, Honest, Fits, Suits
<1>3. x \in Clients => Goes(a, b) /\ Fits(b) /\ (b.permit => b.kind \in External)
  <2>0. x \in Clients =>
           /\ Suits(a.kind, pc, a.answer)
           /\ \/ a.pc \in Fresh /\ pc \notin {"off", "done", "awaiting", "left"}
              \/ a.kind \notin External /\ pc \notin Fresh
    OBVIOUS
  <2> HIDE DEF a, b, all
  <2> QED BY <1>1, <1>2, <2>0 DEF Goes, Fits
<1>4. x \notin Clients => ~b.permit
  BY <1>1 DEF TruthInv, PlacesInv
<1>5. actors' = all \/ \E s : actors' = Notified(all, s)
  OBVIOUS
<1> HIDE DEF all
<1> QED BY <1>1, <1>3, <1>4, <1>5, PlainOne

LEMMA PlainFinish ==
  ASSUME TruthInv, NEW x \in Actors, NEW answer \in Answers,
         actors' = Finish(x, answer) \/ \E s : actors' = Notified(Finish(x, answer), s),
         x \in Clients => \/ actors[x].pc \in Fresh
                             /\ (actors[x].kind \in External => answer # "ok")
                          \/ actors[x].kind \notin External
  PROVE  PlainStep
<1> DEFINE all == Finish(x, answer)
           a == actors[x]
           b == all[x]
<1>1. /\ all \in [Actors -> ActorSet] /\ \A y \in Actors : y # x => all[y] = actors[y]
      /\ b.pc = "done" /\ b.kind = a.kind /\ ~b.permit /\ b.answer = answer
  BY FinishReturns DEF TruthInv, SupervisorInv, SupervisorTypes
<1>2. x \in Clients => Goes(a, b) /\ Fits(b)
  <2>0. x \in Clients => \/ a.pc \in Fresh /\ (a.kind \in External => answer # "ok")
                         \/ a.kind \notin External
    OBVIOUS
  <2>1. "done" \notin Fresh /\ "done" \in ClientPcs
    BY DEF Fresh, ClientPcs
  <2> HIDE DEF a, b, all
  <2> QED BY <1>1, <2>0, <2>1 DEF Goes, Fits, Suits
<1>3. actors' = all \/ \E s : actors' = Notified(all, s)
  OBVIOUS
<1> HIDE DEF all
<1> QED BY <1>1, <1>2, <1>3, PlainOne

-----------------------------------------------------------------------------
\* What becomes of the commands in the channels, and of their effects.

LEMMA EntriesKept ==
  ASSUME NEW c, UNCHANGED chans
  PROVE  SameEntries(c)
  BY DEF SameEntries, Lies

LEMMA EntriesSent ==
  ASSUME chans \in Seq(ChanSet), NEW k \in DOMAIN chans, NEW command \in CommandSet,
         chans' = Sent(k, command), NEW c
  PROVE  /\ command.from # c \/ ~chans[k].open => SameEntries(c)
         /\ command.from = c /\ chans[k].open =>
              LET n == Len(chans[k].queue) + 1 IN
              /\ \A ch, i : Lies(c, ch, i)' <=> (Lies(c, ch, i) \/ (ch = k /\ i = n))
              /\ \A ch, i : Lies(c, ch, i) => chans'[ch].queue[i].what = chans[ch].queue[i].what
              /\ chans'[k].queue[n].what = command.what
<1> DEFINE queue == chans[k].queue
           n == Len(queue) + 1
           e == [chans[k] EXCEPT !.queue = Append(queue, command)]
<1>0. chans[k] \in ChanSet
  OBVIOUS
<1>1. chans[k] \in ChanSet /\ queue \in Seq(CommandSet)
  BY <1>0 DEF ChanSet
<1>2. CASE ~chans[k].open
  BY <1>2, EntriesKept DEF Sent
<1>3. CASE chans[k].open
  <2>1. chans' = [chans EXCEPT ![k] = e]
    BY <1>3 DEF Sent
  <2>2. e.queue = Append(queue, command)
    BY <1>1 DEF ChanSet
  <2> HIDE DEF e
  <2>3. /\ DOMAIN chans' = DOMAIN chans
        /\ \A ch \in DOMAIN chans : chans'[ch] = IF ch = k THEN e ELSE chans[ch]
    BY <2>1
  <2>4. /\ DOMAIN e.queue = DOMAIN queue \cup {n} /\ n \notin DOMAIN queue
        /\ e.queue[n] = command /\ \A j \in DOMAIN queue : e.queue[j] = queue[j]
    BY <1>1, <2>2, AppendAt
  <2> HIDE DEF n
  <2>5. \A ch, i : Lies(c, ch, i)' <=> (Lies(c, ch, i) \/ (ch = k /\ i = n /\ command.from = c))
    BY <2>3, <2>4 DEF Lies
  <2>6. \A ch, i : Lies(c, ch, i) => chans'[ch].queue[i].what = chans[ch].queue[i].what
    BY <2>3, <2>4 DEF Lies
  <2>7. chans'[k].queue[n].what = command.what
    BY <2>3, <2>4
  <2>8. command.from # c => SameEntries(c)
    BY <2>5, <2>6 DEF SameEntries
  <2> QED BY <1>3, <2>5, <2>6, <2>7, <2>8 DEF n
<1> QED BY <1>2, <1>3

Cut(c, k) ==
  \A ch, i : /\ Lies(c, ch, i)' <=> (Lies(c, ch, i) /\ ch # k)
             /\ Lies(c, ch, i)' => chans'[ch].queue[i].what = chans[ch].queue[i].what

LEMMA EntriesCut ==
  ASSUME chans \in Seq(ChanSet), NEW k \in DOMAIN chans, chans' = Closed(k), NEW c
  PROVE  Cut(c, k)
<1> DEFINE e == [queue |-> <<>>, open |-> FALSE]
<1>1. chans' = [chans EXCEPT ![k] = e] /\ DOMAIN e.queue = {}
  BY DEF Closed
<1> HIDE DEF e
<1>2. /\ DOMAIN chans' = DOMAIN chans
      /\ \A ch \in DOMAIN chans : chans'[ch] = IF ch = k THEN e ELSE chans[ch]
  BY <1>1
<1> QED BY <1>1, <1>2 DEF Cut, Lies

LEMMA CutNothing ==
  ASSUME NEW c, NEW k, Cut(c, k), \A i : ~Lies(c, k, i)
  PROVE  SameEntries(c)
  BY DEF Cut, SameEntries

\* The first command of channel k is taken.
Shifted(c, k) ==
  /\ \A ch, i : ch # k => /\ Lies(c, ch, i)' <=> Lies(c, ch, i)
                          /\ Lies(c, ch, i)' => chans'[ch].queue[i].what = chans[ch].queue[i].what
  /\ \A i : Lies(c, k, i)' => /\ i \in Nat \ {0} /\ Lies(c, k, i + 1)
                              /\ chans'[k].queue[i].what = chans[k].queue[i + 1].what
  /\ \A i : Lies(c, k, i) => i \in Nat /\ (i = 1 \/ Lies(c, k, i - 1)')

LEMMA EntriesTail ==
  ASSUME chans \in Seq(ChanSet), NEW k \in DOMAIN chans, chans[k].queue # <<>>,
         chans' = [chans EXCEPT ![k].queue = Tail(@)], NEW c
  PROVE  Shifted(c, k)
<1> DEFINE queue == chans[k].queue
           e == [chans[k] EXCEPT !.queue = Tail(queue)]
<1>0. chans[k] \in ChanSet
  OBVIOUS
<1>1. chans[k] \in ChanSet /\ queue \in Seq(CommandSet)
  BY <1>0 DEF ChanSet
<1>2. chans' = [chans EXCEPT ![k] = e]
  OBVIOUS
<1>3. e.queue = Tail(queue)
  BY <1>1 DEF ChanSet
<1> HIDE DEF e
<1>4. /\ DOMAIN chans' = DOMAIN chans
      /\ \A ch \in DOMAIN chans : chans'[ch] = IF ch = k THEN e ELSE chans[ch]
  BY <1>2
<1>5. /\ Len(queue) \in Nat /\ DOMAIN queue = 1..Len(queue)
      /\ DOMAIN e.queue = 1..(Len(queue) - 1)
      /\ \A j \in 1..(Len(queue) - 1) : e.queue[j] = queue[j + 1]
  BY <1>1, <1>3, LenProperties, HeadTailProperties
<1>6. \A ch, i : ch # k => /\ Lies(c, ch, i)' <=> Lies(c, ch, i)
                           /\ Lies(c, ch, i)' => chans'[ch].queue[i].what = chans[ch].queue[i].what
  BY <1>4 DEF Lies
<1>7. \A i : Lies(c, k, i)' => /\ i \in Nat \ {0} /\ Lies(c, k, i + 1)
                               /\ chans'[k].queue[i].what = chans[k].queue[i + 1].what
  <2> SUFFICES ASSUME NEW i, Lies(c, k, i)'
               PROVE  /\ i \in Nat \ {0} /\ Lies(c, k, i + 1)
                      /\ chans'[k].queue[i].what = chans[k].queue[i + 1].what
    OBVIOUS
  <2>1. i \in 1..(Len(queue) - 1) /\ e.queue[i].from = c
    BY <1>4, <1>5 DEF Lies
  <2>2. i \in Nat \ {0} /\ i + 1 \in DOMAIN queue /\ e.queue[i] = queue[i + 1]
    BY <1>5, <2>1
  <2>3. chans'[k].queue[i] = queue[i + 1]
    BY <1>4, <2>2
  <2> QED BY <2>1, <2>2, <2>3 DEF Lies
<1>8. \A i : Lies(c, k, i) => i \in Nat /\ (i = 1 \/ Lies(c, k, i - 1)')
  <2> SUFFICES ASSUME NEW i, Lies(c, k, i) PROVE i \in Nat /\ (i = 1 \/ Lies(c, k, i - 1)')
    OBVIOUS
  <2>1. i \in 1..Len(queue) /\ queue[i].from = c
    BY <1>5 DEF Lies
  <2>2. CASE i # 1
    <3>1. i - 1 \in 1..(Len(queue) - 1) /\ e.queue[i - 1] = queue[i]
      BY <1>5, <2>1, <2>2
    <3>2. k \in DOMAIN chans' /\ i - 1 \in DOMAIN chans'[k].queue /\ chans'[k].queue[i - 1].from = c
      BY <1>4, <1>5, <2>1, <3>1
    <3> QED BY <2>1, <3>2 DEF Lies
  <2> QED BY <2>1, <2>2
<1> QED BY <1>6, <1>7, <1>8 DEF Shifted

LEMMA EntriesNew ==
  ASSUME chans \in Seq(ChanSet), NEW e \in ChanSet, chans' = Append(chans, e), NEW c,
         \A i \in DOMAIN e.queue : e.queue[i].from # c
  PROVE  SameEntries(c)
<1> DEFINE n == Len(chans) + 1
<1>1. /\ DOMAIN chans' = DOMAIN chans \cup {n} /\ n \notin DOMAIN chans
      /\ chans'[n] = e /\ \A j \in DOMAIN chans : chans'[j] = chans[j]
  BY AppendAt
<1> HIDE DEF n
<1> QED BY <1>1 DEF SameEntries, Lies

LEMMA TimesMore ==
  ASSUME log \in LogSet, NEW d \in Actors \cup {"none"}, log'.applied = Append(log.applied, d), NEW c
  PROVE  /\ Times(c) \in Nat
         /\ Times(c)' = IF d = c THEN Times(c) + 1 ELSE Times(c)
<1> DEFINE seq == log.applied
           n == Len(seq) + 1
           S == {i \in DOMAIN seq : seq[i] = c}
           T == {i \in DOMAIN log'.applied : log'.applied[i] = c}
<1>1. seq \in Seq(Actors \cup {"none"})
  BY DEF LogSet
<1>2. /\ Len(seq) \in Nat /\ DOMAIN seq = 1..Len(seq)
      /\ DOMAIN log'.applied = DOMAIN seq \cup {n} /\ n \notin DOMAIN seq
      /\ log'.applied[n] = d /\ \A j \in DOMAIN seq : log'.applied[j] = seq[j]
  BY <1>1, AppendAt, LenProperties
<1>3. IsFiniteSet(S) /\ Cardinality(S) \in Nat
  <2>1. IsFiniteSet(DOMAIN seq)
    BY <1>2, FS_Interval
  <2> QED BY <2>1, FS_Subset, FS_CardinalityType
<1>4. T = IF d = c THEN S \cup {n} ELSE S
  BY <1>2
<1>5. n \notin S
  BY <1>2
<1>6. Times(c) = Cardinality(S) /\ Times(c)' = Cardinality(T)
  BY DEF Times
<1> HIDE DEF S, T, n
<1> QED BY <1>3, <1>4, <1>5, <1>6, FS_AddElement

LEMMA TimesKept ==
  ASSUME log'.applied = log.applied, NEW c
  PROVE  Times(c)' = Times(c)
  BY DEF Times

\* A command of a client has an effect, and only on what that client did.
LEMMA EffectTimes ==
  ASSUME log \in LogSet, NEW command \in CommandSet, log' = Effect(command), NEW c,
         Times(c) \in Nat
  PROVE  Times(c)' = IF command.from = c /\ command.what \in External THEN Times(c) + 1 ELSE Times(c)
<1>0. command.from \in Actors \cup {"none"}
  BY DEF CommandSet
<1>1. CASE command.what \in External
  <2>1. log'.applied = Append(log.applied, command.from)
    BY <1>1 DEF Effect, External, LogSet
  <2> QED BY <1>0, <1>1, <2>1, TimesMore
<1>2. CASE command.what \notin External
  <2>1. log'.applied = log.applied
    BY <1>2 DEF Effect, External, LogSet
  <2> QED BY <1>2, <2>1, TimesKept
<1> QED BY <1>1, <1>2

-----------------------------------------------------------------------------
\* What a client whose command is sent, moved, lost or taken can be told.

LEMMA SendsHonest ==
  ASSUME NEW c \in Clients, Honest(c), actors[c].pc \in Fresh, NEW k, NEW n,
         \A ch, i : Lies(c, ch, i)' <=> (Lies(c, ch, i) \/ (ch = k /\ i = n)),
         chans'[k].queue[n].what = Carries(actors[c].kind),
         Times(c)' = Times(c), actors'[c].kind = actors[c].kind, actors'[c].pc \notin Fresh,
         \/ /\ actors'[c].pc = "awaiting" /\ actors'[c].answer = "none"
            /\ actors'[c].permit = actors[c].permit
         \/ actors[c].kind \notin External /\ ~actors'[c].permit
  PROVE  Honest(c)'
<1>1. ~Owed(c) /\ Times(c) = 0 /\ (actors[c].permit => actors[c].kind \in External)
  BY DEF Honest
<1>2. \A ch, i : Lies(c, ch, i)' <=> (ch = k /\ i = n)
  BY <1>1 DEF Owed
<1>3. Owed(c)'
  BY <1>2 DEF Owed
<1>4. "awaiting" \notin {"off", "done"} /\ "none" \notin Refusals /\ "none" # "ok"
  BY DEF Refusals
<1>5. Times(c)' = 0
  BY <1>1
<1> QED BY <1>1, <1>2, <1>3, <1>4, <1>5 DEF Honest

LEMMA ShiftHonest ==
  ASSUME NEW c \in Clients, Honest(c), NEW k, actors'[c] = actors[c], Times(c)' = Times(c),
         Shifted(c, k),
         ~Lies(c, k, 1)
  PROVE  Honest(c)'
<1>1. \A ch, i : Lies(c, ch, i)' => \E j : /\ Lies(c, ch, j)
                                           /\ chans'[ch].queue[i].what = chans[ch].queue[j].what
  BY DEF Shifted
<1>2. Owed(c)' <=> Owed(c)
  <2>1. Owed(c)' => Owed(c)
    BY <1>1 DEF Owed
  <2>2. ASSUME NEW ch, NEW i, Lies(c, ch, i) PROVE Owed(c)'
    <3>1. CASE ch # k
      BY <2>2, <3>1 DEF Owed, Shifted
    <3>2. CASE ch = k
      BY <2>2, <3>2 DEF Owed, Shifted
    <3> QED BY <3>1, <3>2
  <2> QED BY <2>1, <2>2 DEF Owed
<1>3. \A ch, i : Lies(c, ch, i)' => chans'[ch].queue[i].what = Carries(actors[c].kind)
  BY <1>1 DEF Honest
<1>4. actors[c].kind \in External =>
        \A ch, i, dh, j : Lies(c, ch, i)' /\ Lies(c, dh, j)' => ch = dh /\ i = j
  <2> SUFFICES ASSUME actors[c].kind \in External,
                      NEW ch, NEW i, NEW dh, NEW j, Lies(c, ch, i)', Lies(c, dh, j)'
               PROVE  ch = dh /\ i = j
    OBVIOUS
  <2>1. \A eh, m, fh, n : Lies(c, eh, m) /\ Lies(c, fh, n) => eh = fh /\ m = n
    BY DEF Honest
  <2>2. ch = dh
    BY <1>1, <2>1
  <2>3. CASE ch # k
    BY <2>1, <2>2, <2>3 DEF Shifted
  <2>4. CASE ch = k
    <3>1. i \in Nat /\ j \in Nat /\ Lies(c, k, i + 1) /\ Lies(c, k, j + 1)
      BY <2>2, <2>4 DEF Shifted
    <3>2. i + 1 = j + 1
      BY <2>1, <3>1
    <3> QED BY <2>2, <3>1, <3>2
  <2> QED BY <2>3, <2>4
<1> QED BY <1>2, <1>3, <1>4 DEF Honest

\* Its channel is closed.
Loses(a, b) ==
  /\ ~b.permit /\ b.kind = a.kind
  /\ \/ a.pc # "awaiting" /\ b.pc = a.pc /\ b.answer = a.answer
     \/ a.pc = "awaiting" /\ b.pc = "done" /\ b.answer = "lost"

LEMMA LosesHonest ==
  ASSUME NEW c \in Clients, Honest(c), Fits(actors[c]), NEW k, NEW i, Cut(c, k), Lies(c, k, i),
         Times(c)' = Times(c), Loses(actors[c], actors'[c])
  PROVE  Honest(c)' /\ Fits(actors'[c])
<1> DEFINE a == actors[c]
           b == actors'[c]
<1>1. Owed(c) /\ a.pc \notin Fresh
  BY DEF Owed, Honest
<1>2. a.kind \in External => ~Owed(c)' /\ Times(c)' = 0 /\ a.answer # "ok"
  <2>1. a.kind \in External => ~Owed(c)'
    BY DEF Honest, Cut, Owed
  <2>2. a.kind \in External => Times(c) = 0 /\ a.answer # "ok"
    BY <1>1 DEF Honest
  <2> QED BY <2>1, <2>2
<1>3. \A ch, j : Lies(c, ch, j)' => chans'[ch].queue[j].what = Carries(a.kind)
  BY DEF Cut, Honest
<1>4. "done" \notin Fresh /\ "done" \in ClientPcs /\ "lost" # "ok"
  BY DEF Fresh, ClientPcs
<1>5. Loses(a, b) /\ Fits(a)
  OBVIOUS
<1>6. Fits(b) /\ b.pc \notin Fresh
  <2> HIDE DEF a, b
  <2> QED BY <1>1, <1>4, <1>5 DEF Loses, Fits, Suits
<1>7. b.kind = a.kind /\ ~b.permit /\ (b.answer = "ok" => a.answer = "ok")
  BY <1>4, <1>5 DEF Loses
<1>8. Times(c)' \in {0, 1} /\ (a.kind \notin External => Times(c)' = 0)
  BY DEF Honest
<1>9. a.kind \in External => \A ch, j : ~Lies(c, ch, j)'
  BY <1>2 DEF Owed
<1> HIDE DEF a, b
<1> QED BY <1>2, <1>3, <1>6, <1>7, <1>8, <1>9 DEF Honest, a, b

\* It takes effect, whatever the client learns of it.
LEMMA TakesHonest ==
  ASSUME NEW c \in Clients, Honest(c), Fits(actors[c]), NEW k, NEW i, Lies(c, k, i),
         actors[c].kind \in External => ~Owed(c)' /\ Times(c)' = 1,
         actors[c].kind \notin External => Times(c)' = 0,
         \A ch, j : Lies(c, ch, j)' => \E m : /\ Lies(c, ch, m)
                                              /\ chans'[ch].queue[j].what = chans[ch].queue[m].what,
         actors'[c].kind = actors[c].kind, ~actors'[c].permit,
         \/ actors'[c].pc = actors[c].pc /\ actors'[c].answer = actors[c].answer
         \/ actors'[c].pc = "done" /\ actors'[c].answer \in {"ok", "lost"}
  PROVE  Honest(c)' /\ Fits(actors'[c])
<1> DEFINE a == actors[c]
           b == actors'[c]
<1>1. Owed(c) /\ a.pc \notin Fresh
  BY DEF Owed, Honest
<1>2. a.kind \in External => a.answer \notin Refusals
  BY <1>1 DEF Honest
<1>3. \A ch, j : Lies(c, ch, j)' => chans'[ch].queue[j].what = Carries(a.kind)
  BY DEF Honest
<1>4. "done" \notin Fresh /\ "done" \in ClientPcs /\ {"ok", "lost"} \cap Refusals = {}
  BY DEF Fresh, ClientPcs, Refusals
<1>5. Fits(b) /\ b.pc \notin Fresh
  <2>1. /\ Fits(a) /\ b.kind = a.kind
        /\ \/ b.pc = a.pc /\ b.answer = a.answer
           \/ b.pc = "done" /\ b.answer \in {"ok", "lost"}
    OBVIOUS
  <2> HIDE DEF a, b
  <2> QED BY <1>1, <1>4, <2>1 DEF Fits, Suits
<1>6. b.kind = a.kind /\ ~b.permit /\ (a.kind \in External => b.answer \notin Refusals)
  BY <1>2, <1>4
<1>7. Times(c)' \in {0, 1}
  OBVIOUS
<1>8. a.kind \in External => (\A ch, j : ~Lies(c, ch, j)') /\ ~Owed(c)' /\ Times(c)' = 1
  BY DEF Owed
<1>9. a.kind \notin External => Times(c)' = 0
  OBVIOUS
<1> HIDE DEF a, b
<1> QED BY <1>3, <1>5, <1>6, <1>7, <1>8, <1>9 DEF Honest, a, b

-----------------------------------------------------------------------------
\* The steps, one by one.

TruthStep == ClientsInv' /\ PlacesInv' /\ ListedInv'

LEMMA PlainTruth ==
  ASSUME TruthInv, PlainStep, UNCHANGED chans, log'.applied = log.applied, ListedInv'
  PROVE  TruthStep
<1>1. \A c \in Clients : Honest(c)'
  BY PlainHonest, EntriesKept, TimesKept DEF TruthInv, ClientsInv, PlainStep
<1> QED BY <1>1 DEF TruthStep, ClientsInv, PlainStep

LEMMA ListedSame ==
  ASSUME TruthInv, UNCHANGED slots, DOMAIN chans \subseteq DOMAIN chans',
         log'.dir = "live" => log.dir = "live" /\ log'.finished = log.finished
  PROVE  ListedInv'
  BY DEF TruthInv, ListedInv, Listed

LEMMA ListedOne ==
  ASSUME TruthInv, UNCHANGED <<log, chans>>, NEW s, NEW e \in SlotSet, Listed(e),
         slots' = [slots EXCEPT ![s] = e]
  PROVE  ListedInv'
<1>1. slots \in Seq(SlotSet)
  BY DEF TruthInv, SupervisorInv, SupervisorTypes
<1>2. DOMAIN slots' = DOMAIN slots /\ \A j \in DOMAIN slots : slots'[j] = IF j = s THEN e ELSE slots[j]
  BY <1>1, ExceptAt
<1> QED BY <1>2 DEF TruthInv, ListedInv, Listed

LEMMA ListedNew ==
  ASSUME TruthInv, UNCHANGED <<log, chans>>, NEW status \in Statuses, status # "active",
         slots' = Append(slots, NewSlot(status))
  PROVE  ListedInv'
<1>1. slots \in Seq(SlotSet) /\ NewSlot(status) \in SlotSet /\ ~NewSlot(status).finished
     /\ NewSlot(status).status # "active"
  BY DEF TruthInv, SupervisorInv, SupervisorTypes, NewSlot, SlotSet
<1> DEFINE e == NewSlot(status)
<1>2. \A j \in DOMAIN slots' : (j \in DOMAIN slots /\ slots'[j] = slots[j]) \/ slots'[j] = e
  <2>1. slots' = Append(slots, e) /\ e \in SlotSet
    BY <1>1
  <2> HIDE DEF e
  <2> QED BY <1>1, <2>1, AppendAt
<1>3. ~e.finished /\ e.status # "active"
  BY <1>1
<1> HIDE DEF e
<1> QED BY <1>2, <1>3 DEF TruthInv, ListedInv, Listed

\* While a runner is alive no slot is idle.
LEMMA AliveRuns ==
  ASSUME TruthInv, NEW id \in Alive
  PROVE  \A s \in DOMAIN slots : slots[s].status # "idle" /\ ~slots[s].finished
<1>1. \A s \in DOMAIN slots : slots[s].status # "idle"
  BY Unheld DEF TruthInv
<1> QED BY <1>1 DEF TruthInv, ListedInv, Listed

LEMMA ListedRun ==
  ASSUME TruthInv, NEW id \in Alive, UNCHANGED slots, DOMAIN chans \subseteq DOMAIN chans'
  PROVE  ListedInv'
  BY AliveRuns DEF ListedInv, Listed, TruthInv

LEMMA ClientKnown ==
  ASSUME TruthInv, NEW c \in Clients
  PROVE  /\ c \in Actors /\ actors[c] \in ActorSet /\ actors \in [Actors -> ActorSet]
         /\ Honest(c) /\ Suits(actors[c].kind, actors[c].pc, actors[c].answer)
         /\ actors[c].permit => actors[c].kind \in External
         /\ actors[c].pc \in Fresh => actors[c].answer = "none"
         /\ actors[c].kind \in AllKinds \cup {"none"}
<1>1. c \in Actors /\ actors \in [Actors -> ActorSet]
  BY DEF Actors, TruthInv, SupervisorInv, SupervisorTypes
<1>2. actors[c] \in ActorSet
  BY <1>1
<1>3. Honest(c) /\ Suits(actors[c].kind, actors[c].pc, actors[c].answer)
  BY DEF TruthInv, ClientsInv, Fits
<1>4. actors[c].pc \in Fresh => actors[c].answer = "none"
  <2>1. \A pc \in Fresh : pc \notin {"done", "left"}
    BY DEF Fresh
  <2> QED BY <1>3, <2>1 DEF Suits
<1>5. actors[c].permit => actors[c].kind \in External
  BY <1>3 DEF Honest
<1>6. actors[c].kind \in AllKinds \cup {"none"}
  BY <1>2 DEF ActorSet
<1> QED BY <1>1, <1>2, <1>3, <1>4, <1>5, <1>6

\* A client that moves by itself, with a record of its own.
LEMMA PlainRecord ==
  ASSUME TruthInv, NEW c \in Clients, NEW v \in ActorSet,
         actors' = [actors EXCEPT ![c] = v] \/ \E s : actors' = Notified([actors EXCEPT ![c] = v], s),
         Goes(actors[c], v), Fits(v), v.permit => v.kind \in External
  PROVE  PlainStep
<1> DEFINE all == [actors EXCEPT ![c] = v]
<1>1. /\ c \in Actors /\ all \in [Actors -> ActorSet] /\ all[c] = v
      /\ \A y \in Actors : y # c => all[y] = actors[y]
  BY ClientKnown
<1>2. actors' = all \/ \E s : actors' = Notified(all, s)
  OBVIOUS
<1> HIDE DEF all
<1> QED BY <1>1, <1>2, PlainOne

LEMMA CreateTruth ==
  ASSUME TruthInv, NEW c \in Clients, Create(c)
  PROVE  TruthStep
<1> DEFINE v == [NoActor EXCEPT !.pc = "activate", !.kind = "create", !.at = 1, !.permit = TRUE]
<1>1. /\ v \in ActorSet /\ v.pc = "activate" /\ v.kind = "create" /\ v.answer = "none"
  <2>1. TRUE \in BOOLEAN /\ 1 \in Nat /\ "create" \in AllKinds
    BY DEF AllKinds
  <2> QED BY <2>1, IsAt DEF ActorSet, NoActor
<1>2. actors' = [actors EXCEPT ![c] = v] /\ actors[c].pc = "off" /\ UNCHANGED <<log, chans>>
  BY DEF Create
<1> HIDE DEF v
<1>3. Goes(actors[c], v) /\ Fits(v) /\ v.kind \in External
  BY <1>1, <1>2 DEF Goes, Fits, Suits, Fresh, ClientPcs, External
<1>4. PlainStep
  BY <1>1, <1>2, <1>3, PlainRecord
<1>5. ListedInv'
  <2>1. slots' = <<NewSlot("recovering")>>
    BY DEF Create
  <2>2. \A s \in DOMAIN slots' : ~slots'[s].finished /\ slots'[s].status # "active"
    BY <2>1 DEF NewSlot
  <2> QED BY <2>2 DEF ListedInv, Listed
<1> QED BY <1>2, <1>4, <1>5, PlainTruth

LEMMA LookupTruth ==
  ASSUME TruthInv, NEW c \in Clients, Lookup(c)
  PROVE  TruthStep
<1>0. /\ c \in Actors /\ map \in Nat
  BY ClientKnown DEF TruthInv, SupervisorInv, SupervisorTypes
<1>1. PICK kind \in Kinds \ {"create"} : actors' = [actors EXCEPT ![c] =
         [NoActor EXCEPT !.kind = kind, !.at = map,
            !.pc = IF map # 0 THEN "admit" ELSE IF log.dir = "live" THEN "insert" ELSE "done",
            !.answer = IF map = 0 /\ log.dir # "live" THEN "notfound" ELSE "none"]]
  BY DEF Lookup
<1>2. PICK pc \in {"admit", "insert", "done"}, answer \in {"none", "notfound"} :
        /\ actors' = [actors EXCEPT ![c] =
             [NoActor EXCEPT !.kind = kind, !.at = map, !.pc = pc, !.answer = answer]]
        /\ pc # "done" => answer = "none"
  BY <1>1
<1> DEFINE v == [NoActor EXCEPT !.kind = kind, !.at = map, !.pc = pc, !.answer = answer]
<1>3. v \in ActorSet /\ v.pc = pc /\ v.answer = answer /\ ~v.permit
  <2>1. kind \in AllKinds
    BY SupervisorAssumption
  <2> QED BY <1>0, <2>1, IsAt DEF ActorSet, NoActor
<1>4. actors' = [actors EXCEPT ![c] = v] /\ actors[c].pc = "off" /\ UNCHANGED <<log, slots, chans>>
  BY <1>2 DEF Lookup
<1> HIDE DEF v
<1>5. Goes(actors[c], v) /\ Fits(v)
  BY <1>2, <1>3, <1>4 DEF Goes, Fits, Suits, Fresh, ClientPcs
<1>6. PlainStep
  BY <1>3, <1>4, <1>5, PlainRecord
<1> QED BY <1>4, <1>6, ListedSame, PlainTruth

LEMMA InsertTruth ==
  ASSUME TruthInv, NEW c \in Clients, Insert(c)
  PROVE  TruthStep
<1> DEFINE a == actors[c]
           v == [a EXCEPT !.pc = "admit", !.at = map']
<1>0. /\ c \in Actors /\ a \in ActorSet /\ actors \in [Actors -> ActorSet]
      /\ (a.permit => a.kind \in External) /\ a.pc = "insert" /\ a.answer = "none"
      /\ UNCHANGED <<log, chans>>
  <2>1. "insert" \in Fresh
    BY DEF Fresh
  <2> QED BY <2>1, ClientKnown DEF Insert
<1>1. map' \in Nat
  <2>1. SupervisorTypes'
    BY InsertOwner DEF TruthInv, SupervisorInv
  <2> QED BY <2>1 DEF SupervisorTypes
<1>2. /\ v \in ActorSet /\ v.pc = "admit" /\ v.kind = a.kind /\ v.permit = a.permit
      /\ v.answer = "none"
  BY <1>0, <1>1, IsAt DEF ActorSet
<1>3. actors' = [actors EXCEPT ![c] = v]
  BY <1>0 DEF Insert
<1> HIDE DEF v
<1>4. Goes(a, v) /\ Fits(v)
  BY <1>0, <1>2 DEF Goes, Fits, Suits, Fresh, ClientPcs
<1>5. PlainStep
  BY <1>0, <1>2, <1>3, <1>4, PlainRecord
<1>6. ListedInv'
  <2>1. slots' = slots \/ slots' = Append(slots, NewSlot("unchecked"))
    BY DEF Insert
  <2>2. "unchecked" \in Statuses
    BY DEF Statuses
  <2> QED BY <1>0, <2>1, <2>2, ListedSame, ListedNew
<1> QED BY <1>0, <1>5, <1>6, PlainTruth

LEMMA AdmitTruth ==
  ASSUME TruthInv, NEW c \in Clients, Admit(c) \/ ReadLog(c)
  PROVE  TruthStep
<1> DEFINE a == actors[c]
<1>0. /\ c \in Actors /\ a \in ActorSet /\ actors \in [Actors -> ActorSet]
      /\ (a.permit => a.kind \in External) /\ a.pc \in {"admit", "read"} /\ a.answer = "none"
      /\ a.pc \in Fresh /\ (a.pc = "read" => a.kind = "inspect")
      /\ UNCHANGED <<log, chans, slots>>
  <2>1. {"admit", "read"} \subseteq Fresh
    BY DEF Fresh
  <2> QED BY <2>1, ClientKnown DEF Admit, ReadLog, Suits
<1>1. CASE ReadLog(c)
  <2>1. a.kind \notin External
    BY <1>0, <1>1 DEF ReadLog, External
  <2> QED BY <1>0, <1>1, <2>1, IsAt, PlainFinish, ListedSame, PlainTruth DEF ReadLog
<1>2. CASE Admit(c) /\ actors' = Finish(c, "overloaded")
  BY <1>0, <1>2, IsAt, PlainFinish, ListedSame, PlainTruth
<1>3. CASE Admit(c) /\ \E next \in {"mark", "read", "ensure"} :
             /\ actors' = [actors EXCEPT ![c].pc = next, ![c].permit = a.kind \in External]
             /\ next = "mark" <=> a.kind = "delete"
             /\ next = "read" => a.kind = "inspect"
  <2>1. PICK next \in {"mark", "read", "ensure"} :
             /\ actors' = [actors EXCEPT ![c].pc = next, ![c].permit = a.kind \in External]
             /\ next = "mark" <=> a.kind = "delete"
             /\ next = "read" => a.kind = "inspect"
    BY <1>3
  <2> DEFINE v == [a EXCEPT !.pc = next, !.permit = a.kind \in External]
  <2>2. actors' = [actors EXCEPT ![c] = v]
    BY <1>0, <2>1
  <2>3. /\ v \in ActorSet /\ v.pc = next /\ v.kind = a.kind /\ v.answer = "none"
        /\ v.permit <=> a.kind \in External
    <3> DEFINE b == a.kind \in External
    <3>1. b \in BOOLEAN /\ v = [a EXCEPT !.pc = next, !.permit = b] /\ (b <=> a.kind \in External)
      OBVIOUS
    <3> HIDE DEF v, b
    <3> QED BY <1>0, <3>1, IsAt DEF ActorSet
  <2> HIDE DEF v
  <2>4. Goes(a, v)
    BY <1>0, <2>3 DEF Goes
  <2>5. Fits(v)
    BY <2>1, <2>3 DEF Fits, Suits, Fresh, ClientPcs
  <2>6. PlainStep
    BY <2>2, <2>3, <2>4, <2>5, PlainRecord
  <2> QED BY <1>0, <2>6, ListedSame, PlainTruth
<1>4. CASE Admit(c)
  BY <1>2, <1>3, <1>4 DEF Admit
<1> QED BY <1>1, <1>4

LEMMA EnsureTruth ==
  ASSUME TruthInv, NEW c \in Clients, EnsureActive(c)
  PROVE  TruthStep
<1> DEFINE a == actors[c]
<1>0. /\ c \in Actors /\ a.pc = "ensure" /\ a.pc \in Fresh /\ a.answer = "none" /\ a.kind # "delete"
      /\ UNCHANGED <<log, chans>>
  <2>1. "ensure" \in Fresh
    BY DEF Fresh
  <2> QED BY <2>1, ClientKnown DEF EnsureActive, Suits
<1>1. /\ actors[c].at \in DOMAIN slots /\ Slot(c) \in SlotSet /\ Slot(c).status \in Statuses
  BY <1>0, Placed, IsAt DEF TruthInv
<1>2. PlainStep
  <2>1. CASE \E pc \in {"recover", "waiting", Sends(c)} : actors' = Go(c, pc)
    <3>1. PICK pc \in {"recover", "waiting", Sends(c)} : actors' = Go(c, pc)
      BY <2>1
    <3>2. /\ Suits(a.kind, pc, a.answer) /\ pc \notin {"off", "done", "awaiting", "left"}
          /\ pc \in Pcs
      <4>1. pc \in {"recover", "waiting", "dispatch", "reserve"}
        BY <3>1 DEF Sends
      <4>2. (pc = "dispatch" => a.kind \in External) /\ (pc = "reserve" => a.kind \notin External)
        BY <3>1 DEF Sends
      <4>3. pc \in Pcs
        BY <4>1, IsAt
      <4> QED BY <1>0, <4>1, <4>2, <4>3 DEF Suits, ClientPcs, Fresh
    <3> QED BY <1>0, <3>1, <3>2, PlainGo
  <2>2. CASE actors' = Finish(c, Slot(c).status) /\ Slot(c).status \in {"circuit", "unavailable", "deleting"}
    BY <1>0, <2>2, IsAt, PlainFinish
  <2> QED BY <1>1, <2>1, <2>2 DEF EnsureActive, Statuses
<1>3. ListedInv'
  <2>1. CASE UNCHANGED slots
    BY <1>0, <2>1, ListedSame
  <2>2. CASE slots' = [slots EXCEPT ![actors[c].at].status = "recovering", ![actors[c].at].finished = FALSE]
    <3> DEFINE e == [Slot(c) EXCEPT !.status = "recovering", !.finished = FALSE]
    <3>1. slots' = [slots EXCEPT ![actors[c].at] = e]
      BY <1>1, <2>2 DEF Slot
    <3>2. e \in SlotSet /\ ~e.finished /\ e.status # "active"
      BY <1>1 DEF SlotSet, Statuses
    <3> HIDE DEF e
    <3> QED BY <1>0, <3>1, <3>2, ListedOne DEF Listed
  <2> QED BY <2>1, <2>2 DEF EnsureActive
<1> QED BY <1>0, <1>2, <1>3, PlainTruth

\* Room is looked for and taken without a change of the channel.
LEMMA ReserveTruth ==
  ASSUME TruthInv, NEW c \in Clients, Reserve(c) \/ TakePlace(c)
  PROVE  TruthStep
<1> DEFINE a == actors[c]
<1>0. /\ c \in Actors /\ a \in ActorSet /\ a.pc \in {"reserve", "reserving"} /\ a.pc \in Fresh
      /\ a.answer = "none" /\ a.kind # "delete" /\ a.kind \notin External /\ ~a.permit
      /\ actors \in [Actors -> ActorSet] /\ UNCHANGED <<log, slots, chans>>
  <2>1. {"reserve", "reserving"} \subseteq Fresh
    BY DEF Fresh
  <2> QED BY <2>1, ClientKnown DEF Reserve, TakePlace, Suits
<1>1. PlainStep
  <2>1. CASE \E pc \in {"waiting", "ensure", "holding"} : actors' = Go(c, pc)
    <3>1. PICK pc \in {"waiting", "ensure", "holding"} : actors' = Go(c, pc)
      BY <2>1
    <3>2. Suits(a.kind, pc, a.answer) /\ pc \notin {"off", "done", "awaiting", "left"} /\ pc \in Pcs
      BY <1>0, IsAt DEF Suits, ClientPcs, Fresh
    <3> QED BY <1>0, <3>1, <3>2, PlainGo
  <2>2. CASE \E answer \in {"circuit", "unavailable", "deleting"} : actors' = Finish(c, answer)
    BY <1>0, <2>2, IsAt, PlainFinish
  <2>3. CASE Reserve(c) /\ Slot(c).status = "active"
    <3> DEFINE v == [a EXCEPT !.pc = "reserving", !.id = Slot(c).id, !.heard = FALSE]
    <3>1. actors' = [actors EXCEPT ![c] = v]
      BY <1>0, <2>3 DEF Reserve
    <3>2. Slot(c).id \in Nat
      BY <1>0, <2>3, Placed, IsAt DEF Reserve, SlotSet, TruthInv
    <3>3. v \in ActorSet /\ v.pc = "reserving" /\ v.kind = a.kind /\ v.answer = "none" /\ ~v.permit
      BY <1>0, <3>2, IsAt DEF ActorSet
    <3> HIDE DEF v
    <3>4. Goes(a, v) /\ Fits(v)
      BY <1>0, <3>3 DEF Goes, Fits, Suits, ClientPcs, Fresh
    <3> QED BY <3>1, <3>3, <3>4, PlainRecord
  <2> QED BY <2>1, <2>2, <2>3 DEF Reserve, TakePlace, Refused
<1> QED BY <1>0, <1>1, ListedSame, PlainTruth

LEMMA LeaveTruth ==
  ASSUME TruthInv, NEW c \in Clients, Leave(c)
  PROVE  TruthStep
<1> DEFINE a == actors[c]
           b == a.permit /\ a.pc = "awaiting"
           v == [Ended(a, "left", a.pc) EXCEPT !.permit = b]
<1>0. /\ c \in Actors /\ a \in ActorSet /\ a.pc \notin {"off", "done", "left"}
      /\ actors \in [Actors -> ActorSet] /\ UNCHANGED <<slots, chans>>
      /\ Suits(a.kind, a.pc, a.answer) /\ b \in BOOLEAN /\ actors' = [actors EXCEPT ![c] = v]
      /\ (a.permit => a.kind \in External)
  BY ClientKnown DEF Leave
<1>1. b => a.permit /\ a.pc = "awaiting"
  OBVIOUS
<1>2. a.pc = "awaiting" => b = a.permit
  <2>1. a.permit \in BOOLEAN
    BY <1>0 DEF ActorSet
  <2> QED BY <2>1
<1> HIDE DEF b
<1>3. v \in ActorSet /\ v.pc = "left" /\ v.kind = a.kind /\ v.answer = a.pc /\ v.permit = b
  BY <1>0, IsAt DEF ActorSet, Ended, NoActor
<1> HIDE DEF v
<1>4. Fits(v)
  BY <1>3 DEF Fits, Suits, ClientPcs
<1>5. Goes(a, v)
  <2>1. CASE a.pc \in Fresh
    <3>1. "awaiting" \notin Fresh /\ "ok" \notin Fresh
      BY DEF Fresh
    <3> QED BY <1>1, <1>3, <2>1, <3>1 DEF Goes
  <2>2. CASE a.pc = "awaiting"
    BY <1>2, <1>3, <2>2 DEF Goes, Refusals
  <2>3. CASE a.pc \in {"join", "detach", "forget"}
    <3>1. a.kind \notin External /\ ~b /\ "left" \notin Fresh
      BY <1>0, <1>1, <2>3 DEF Suits, External, Fresh
    <3> QED BY <1>3, <3>1 DEF Goes
  <2> QED BY <1>0, <2>1, <2>2, <2>3 DEF Suits, ClientPcs
<1>6. PlainStep
  BY <1>0, <1>1, <1>3, <1>4, <1>5, PlainRecord
<1>7. log'.applied = log.applied /\ (log'.dir = "live" => log.dir = "live" /\ log'.finished = log.finished)
  <2>1. log' = log \/ log' = [log EXCEPT !.dir = "detached"]
    BY DEF Leave
  <2>2. log \in LogSet
    BY DEF TruthInv, SupervisorInv, SupervisorTypes
  <2> QED BY <2>1, <2>2 DEF LogSet
<1> QED BY <1>0, <1>6, <1>7, ListedSame, PlainTruth

LEMMA MarkTruth ==
  ASSUME TruthInv, NEW c \in Clients, MarkDeleting(c)
  PROVE  TruthStep
<1> DEFINE a == actors[c]
<1>0. /\ c \in Actors /\ a \in ActorSet /\ a.pc = "mark" /\ a.pc \in Fresh
      /\ a.answer = "none" /\ a.kind = "delete" /\ a.kind \notin External /\ ~a.permit
      /\ actors \in [Actors -> ActorSet] /\ UNCHANGED <<log, chans>>
  <2>1. "mark" \in Fresh /\ "delete" \notin External
    BY DEF Fresh, External
  <2> QED BY <2>1, ClientKnown DEF MarkDeleting, Suits
<1>1. /\ a.at \in DOMAIN slots /\ Slot(c) \in SlotSet /\ Slot(c).id \in Nat
  BY <1>0, Placed, IsAt DEF TruthInv, SlotSet
<1>2. PlainStep
  <2>1. CASE actors' = Go(c, "waiting")
    <3>1. Suits(a.kind, "waiting", a.answer) /\ "waiting" \in Pcs
      BY <1>0, IsAt DEF Suits, ClientPcs, Fresh
    <3> QED BY <1>0, <2>1, <3>1, PlainGo
  <2>2. CASE actors' = Finish(c, "deleting")
    BY <1>0, <2>2, IsAt, PlainFinish
  <2>3. CASE \E pc \in {"stop", "detach"} :
               actors' = Notified([actors EXCEPT ![c].pc = pc, ![c].id = Slot(c).id], a.at)
    <3>1. PICK pc \in {"stop", "detach"} :
            actors' = Notified([actors EXCEPT ![c].pc = pc, ![c].id = Slot(c).id], a.at)
      BY <2>3
    <3> DEFINE v == [a EXCEPT !.pc = pc, !.id = Slot(c).id]
    <3>2. [actors EXCEPT ![c].pc = pc, ![c].id = Slot(c).id] = [actors EXCEPT ![c] = v]
      BY <1>0
    <3>3. v \in ActorSet /\ v.pc = pc /\ v.kind = a.kind /\ v.answer = "none" /\ ~v.permit
      BY <1>0, <1>1, IsAt DEF ActorSet
    <3> HIDE DEF v
    <3>4. Goes(a, v) /\ Fits(v)
      BY <1>0, <3>3 DEF Goes, Fits, Suits, ClientPcs, Fresh
    <3>5. \E s : actors' = Notified([actors EXCEPT ![c] = v], s)
      BY <3>1, <3>2
    <3> QED BY <3>3, <3>4, <3>5, PlainRecord
  <2>4. CASE Slot(c).status = "active"
    BY <2>1, <2>2, <2>3, <2>4 DEF MarkDeleting
  <2>5. CASE Slot(c).status # "active"
    BY <2>1, <2>2, <2>3, <2>5 DEF MarkDeleting
  <2> QED BY <2>4, <2>5
<1>3. ListedInv'
  <2>1. CASE UNCHANGED slots
    BY <1>0, <2>1, ListedSame
  <2>2. CASE slots' = [slots EXCEPT ![a.at].status = "deleting", ![a.at].finished = FALSE]
    <3> DEFINE e == [Slot(c) EXCEPT !.status = "deleting", !.finished = FALSE]
    <3>1. slots' = [slots EXCEPT ![a.at] = e]
      BY <1>1, <2>2 DEF Slot
    <3>2. e \in SlotSet /\ ~e.finished /\ e.status # "active"
      BY <1>1 DEF SlotSet, Statuses
    <3> HIDE DEF e
    <3> QED BY <1>0, <3>1, <3>2, ListedOne DEF Listed
  <2> QED BY <2>1, <2>2 DEF MarkDeleting
<1> QED BY <1>0, <1>2, <1>3, PlainTruth

LEMMA JoinTruth ==
  ASSUME TruthInv, NEW x \in Actors, Join(x)
  PROVE  TruthStep
<1> DEFINE pc == IF x = "down" THEN "next" ELSE "detach"
<1>1. actors' = Go(x, pc) /\ actors[x].pc = "join" /\ UNCHANGED <<log, slots, chans>>
  BY DEF Join
<1>2. pc \in Pcs
  BY IsAt
<1>3. x \in Clients => /\ Suits(actors[x].kind, pc, actors[x].answer)
                       /\ actors[x].kind \notin External /\ pc \notin Fresh
  <2> SUFFICES ASSUME x \in Clients
               PROVE  /\ Suits(actors[x].kind, pc, actors[x].answer)
                      /\ actors[x].kind \notin External /\ pc \notin Fresh
    OBVIOUS
  <2>1. pc = "detach"
    BY SupervisorAssumption
  <2>2. actors[x].kind = "delete" /\ actors[x].answer = "none"
    BY <1>1, ClientKnown DEF Suits
  <2> QED BY <2>1, <2>2 DEF Suits, ClientPcs, Fresh, External
<1> HIDE DEF pc
<1> QED BY <1>1, <1>2, <1>3, PlainGo, ListedSame, PlainTruth

LEMMA DetachTruth ==
  ASSUME TruthInv, NEW c \in Clients, Detach(c) \/ Forget(c)
  PROVE  TruthStep
<1> DEFINE a == actors[c]
<1>0. /\ c \in Actors /\ a.pc \in {"detach", "forget"} /\ a.answer = "none" /\ a.kind = "delete"
      /\ a.kind \notin External /\ UNCHANGED <<slots, chans>>
  <2>1. "delete" \notin External
    BY DEF External
  <2> QED BY <2>1, ClientKnown DEF Detach, Forget, Suits
<1>1. PlainStep
  <2>1. CASE actors' = Go(c, "forget")
    <3>1. Suits(a.kind, "forget", a.answer) /\ "forget" \in Pcs /\ "forget" \notin Fresh
      BY <1>0, IsAt DEF Suits, ClientPcs, Fresh
    <3> QED BY <1>0, <2>1, <3>1, PlainGo
  <2>2. CASE \E answer \in {"notfound", "failed", "ok"} : actors' = Finish(c, answer)
    BY <1>0, <2>2, IsAt, PlainFinish
  <2> QED BY <2>1, <2>2 DEF Detach, Forget
<1>2. log'.applied = log.applied /\ (log'.dir = "live" => log.dir = "live" /\ log'.finished = log.finished)
  <2>1. log' = log \/ log' = [log EXCEPT !.dir = "detached"]
    BY DEF Detach, Forget
  <2>2. log \in LogSet
    BY DEF TruthInv, SupervisorInv, SupervisorTypes
  <2> QED BY <2>1, <2>2 DEF LogSet
<1> QED BY <1>0, <1>1, <1>2, ListedSame, PlainTruth

LEMMA RecoverTruth ==
  ASSUME TruthInv, NEW x \in Actors, Recover(x) \/ RecoveryFails(x)
  PROVE  TruthStep
<1>0. actors[x].pc = "recover" /\ UNCHANGED <<log, chans>>
  BY DEF Recover, RecoveryFails
<1>1. x \in Clients => /\ actors[x].pc \in Fresh /\ actors[x].answer = "none"
                       /\ actors[x].kind # "delete"
  <2>1. "recover" \in Fresh
    BY DEF Fresh
  <2> QED BY <1>0, <2>1, ClientKnown DEF Suits
<1>2. CASE Recover(x)
  <2>1. actors' = Go(x, "activate") /\ UNCHANGED slots
    BY <1>2 DEF Recover
  <2>2. x \in Clients => Suits(actors[x].kind, "activate", actors[x].answer)
    BY <1>1 DEF Suits, ClientPcs, Fresh
  <2> QED BY <1>0, <1>1, <2>1, <2>2, IsAt, PlainGo, ListedSame, PlainTruth
<1>3. CASE RecoveryFails(x)
  <2>1. /\ actors' = Notified(Finish(x, "unavailable"), actors[x].at)
        /\ slots' = [slots EXCEPT ![actors[x].at].status = "unavailable"]
    BY <1>3 DEF RecoveryFails
  <2>2. PlainStep
    BY <1>1, <2>1, IsAt, PlainFinish
  <2>3. actors[x].at \in DOMAIN slots /\ Slot(x) \in SlotSet /\ Slot(x).status = "recovering"
    BY <1>0, Placed, IsAt DEF TruthInv, SupervisorInv, OwnerInv, HoldersInv, Holding
  <2> DEFINE e == [Slot(x) EXCEPT !.status = "unavailable"]
  <2>4. slots' = [slots EXCEPT ![actors[x].at] = e]
    BY <2>1, <2>3 DEF Slot
  <2>5. ~Slot(x).finished
    BY <2>3 DEF TruthInv, ListedInv, Listed, Slot
  <2>6. e \in SlotSet /\ ~e.finished /\ e.status # "active"
    BY <2>3, <2>5 DEF SlotSet, Statuses
  <2> HIDE DEF e
  <2> QED BY <1>0, <2>2, <2>4, <2>6, ListedOne, PlainTruth DEF Listed
<1> QED BY <1>2, <1>3

\* The scan and the shutdown.
LEMMA ScanTruth ==
  ASSUME TruthInv, Discover \/ Enlist \/ Check \/ Glance
  PROVE  TruthStep
<1>0. /\ "scan" \in Actors \ Clients /\ actors \in [Actors -> ActorSet]
      /\ actors["scan"] \in ActorSet /\ ~actors["scan"].permit /\ UNCHANGED <<log, chans>>
  <2>1. "scan" \in Actors \ Clients /\ actors \in [Actors -> ActorSet]
    BY SupervisorAssumption DEF Actors, TruthInv, SupervisorInv, SupervisorTypes
  <2> QED BY <2>1 DEF Discover, Enlist, Check, Glance, TruthInv, PlacesInv
<1>1. CASE Discover
  <2>1. actors' = Go("scan", "enlist") \/ \E answer \in {"ok", "failed"} : actors' = Finish("scan", answer)
    BY <1>1 DEF Discover
  <2>2. PlainStep
    BY <1>0, <2>1, IsAt, PlainGo, PlainFinish
  <2> QED BY <1>0, <1>1, <2>2, ListedSame, PlainTruth DEF Discover
<1>2. CASE Enlist
  <2> DEFINE v == [actors["scan"] EXCEPT !.pc = "check", !.at = map']
  <2>1. actors' = [actors EXCEPT !["scan"] = v]
    BY <1>0, <1>2 DEF Enlist
  <2>2. map' \in Nat
    <3>1. SupervisorTypes'
      BY <1>2, InsertOwner DEF TruthInv, SupervisorInv
    <3> QED BY <3>1 DEF SupervisorTypes
  <2>3. v \in ActorSet /\ ~v.permit
    BY <1>0, <2>2, IsAt DEF ActorSet
  <2> HIDE DEF v
  <2>4. actors' \in [Actors -> ActorSet] /\ \A y \in Actors : y # "scan" => actors'[y] = actors[y]
    BY <1>0, <2>1, <2>3
  <2>5. ~actors'["scan"].permit
    BY <1>0, <2>1, <2>3
  <2>6. PlainStep
    BY <1>0, <2>4, <2>5, PlainOne
  <2>7. slots' = slots \/ slots' = Append(slots, NewSlot("unchecked"))
    BY <1>2 DEF Enlist
  <2>8. "unchecked" \in Statuses
    BY DEF Statuses
  <2>9. ListedInv'
    BY <1>0, <2>7, <2>8, ListedSame, ListedNew
  <2> QED BY <1>0, <2>6, <2>9, PlainTruth
<1>3. CASE Check \/ Glance
  <2>1. \/ \E pc \in {"glance", "recover"} : actors' = Go("scan", pc)
        \/ actors' = Finish("scan", "ok")
        \/ \E s : actors' = Notified(Finish("scan", "ok"), s)
    BY <1>3 DEF Check, Glance
  <2>2. PlainStep
    <3>1. CASE \E pc \in {"glance", "recover"} : actors' = Go("scan", pc)
      BY <1>0, <3>1, IsAt, PlainGo
    <3>2. CASE actors' = Finish("scan", "ok") \/ \E s : actors' = Notified(Finish("scan", "ok"), s)
      BY <1>0, <3>2, IsAt, PlainFinish
    <3> QED BY <2>1, <3>1, <3>2
  <2>3. /\ actors["scan"].at \in DOMAIN slots /\ Slot("scan") \in SlotSet
        /\ Slot("scan") = slots[actors["scan"].at]
    BY <1>0, <1>3, Placed, IsAt DEF TruthInv, Check, Glance, Slot
  <2>4. CASE UNCHANGED slots
    BY <1>0, <2>2, <2>4, ListedSame, PlainTruth
  <2>5. CASE Check /\ Slot("scan").status = "unchecked"
             /\ slots' = [slots EXCEPT ![actors["scan"].at].status = "recovering"]
    <3> DEFINE e == [Slot("scan") EXCEPT !.status = "recovering"]
    <3>1. slots' = [slots EXCEPT ![actors["scan"].at] = e]
      BY <2>3, <2>5
    <3>2. ~Slot("scan").finished
      BY <2>3, <2>5 DEF TruthInv, ListedInv, Listed
    <3>3. e \in SlotSet /\ ~e.finished /\ e.status # "active"
      BY <2>3, <3>2 DEF SlotSet, Statuses
    <3> HIDE DEF e
    <3> QED BY <1>0, <2>2, <3>1, <3>3, ListedOne, PlainTruth DEF Listed
  <2>6. CASE log.dir = "live" /\ slots' = [slots EXCEPT ![actors["scan"].at].status = "idle",
                                                        ![actors["scan"].at].finished = log.finished]
    <3> DEFINE e == [Slot("scan") EXCEPT !.status = "idle", !.finished = log.finished]
    <3>1. slots' = [slots EXCEPT ![actors["scan"].at] = e]
      BY <2>3, <2>6
    <3>2. log.finished \in BOOLEAN
      BY DEF TruthInv, SupervisorInv, SupervisorTypes, LogSet
    <3>3. e \in SlotSet /\ e.status = "idle" /\ e.finished = log.finished
      BY <2>3, <3>2 DEF SlotSet, Statuses
    <3> HIDE DEF e
    <3> QED BY <1>0, <2>2, <3>1, <3>3, ListedOne, PlainTruth DEF Listed
  <2> QED BY <1>3, <2>4, <2>5, <2>6 DEF Check, Glance
<1> QED BY <1>1, <1>2, <1>3

LEMMA DownTruth ==
  ASSUME TruthInv, ScanEnded \/ Look \/ Again \/ Shutdown
  PROVE  TruthStep
<1>0. /\ "down" \in Actors \ Clients /\ actors \in [Actors -> ActorSet]
      /\ actors["down"] \in ActorSet /\ ~actors["down"].permit
      /\ UNCHANGED <<log, slots, chans>>
  <2>1. "down" \in Actors \ Clients /\ actors \in [Actors -> ActorSet]
    BY SupervisorAssumption DEF Actors, TruthInv, SupervisorInv, SupervisorTypes
  <2> QED BY <2>1 DEF ScanEnded, Look, Again, Shutdown, TruthInv, PlacesInv
<1>1. PlainStep
  <2>1. CASE actors' = Go("down", "scan") \/ actors' = Go("down", "next")
    BY <1>0, <2>1, IsAt, PlainGo
  <2>2. CASE \E v : ~v.permit /\ actors' = [actors EXCEPT !["down"] = v]
    <3>1. actors' \in [Actors -> ActorSet]
      BY DownOwner DEF TruthInv, SupervisorInv, SupervisorTypes
    <3>2. \A y \in Actors : y # "down" => actors'[y] = actors[y]
      BY <1>0, <2>2
    <3>3. ~actors'["down"].permit
      BY <1>0, <2>2
    <3> QED BY <1>0, <3>1, <3>2, <3>3, PlainOne
  <2> DEFINE a == actors["down"]
  <2>3. CASE ScanEnded
    <3> DEFINE v == [a EXCEPT !.pc = "look", !.at = map]
    <3>1. actors' = [actors EXCEPT !["down"] = v] /\ ~v.permit
      BY <1>0, <2>3 DEF ScanEnded, ActorSet
    <3> QED BY <2>2, <3>1
  <2>4. CASE Again
    <3> DEFINE v == [a EXCEPT !.pc = "scan", !.answer = "drained"]
    <3>1. actors' = [actors EXCEPT !["down"] = v] /\ ~v.permit
      BY <1>0, <2>4 DEF Again, ActorSet
    <3> QED BY <2>2, <3>1
  <2>5. CASE Look /\ a.at # 0 /\ Slot("down").status = "active"
    <3> DEFINE v == [a EXCEPT !.pc = "stop", !.id = Slot("down").id]
    <3>1. actors' = [actors EXCEPT !["down"] = v] /\ ~v.permit
      BY <1>0, <2>5 DEF Look, ActorSet
    <3> QED BY <2>2, <3>1
  <2> QED BY <2>1, <2>3, <2>4, <2>5 DEF Look, Shutdown
<1> QED BY <1>0, <1>1, ListedSame, PlainTruth

LEMMA PlainEntries ==
  ASSUME TruthInv, PlainStep, \A c \in Clients : SameEntries(c), log'.applied = log.applied,
         ListedInv'
  PROVE  TruthStep
<1>1. \A c \in Clients : Honest(c)'
  BY PlainHonest, TimesKept DEF TruthInv, ClientsInv, PlainStep
<1> QED BY <1>1 DEF TruthStep, ClientsInv, PlainStep

LEMMA ActivateTruth ==
  ASSUME TruthInv, NEW x \in Actors, Activate(x)
  PROVE  TruthStep
<1> DEFINE first == [queue |-> IF x = "rebuild"
                    THEN <<Fault(runners[actors[x].id].stage, NextCount(runners[actors[x].id].stage))>>
                    ELSE <<>>, open |-> TRUE]
<1>0. /\ actors[x].pc = "activate" /\ UNCHANGED log
      /\ chans \in Seq(ChanSet) /\ slots \in Seq(SlotSet) /\ chans' = Append(chans, first)
  BY DEF Activate, TruthInv, SupervisorInv, SupervisorTypes
<1>1. first \in ChanSet
  BY <1>0, FirstTyped DEF TruthInv
<1>2. \A c \in Clients : \A i \in DOMAIN first.queue : first.queue[i].from # c
  BY SupervisorAssumption DEF Fault
<1>3. DOMAIN chans' = DOMAIN chans \cup {Len(chans')}
  <2> HIDE DEF first
  <2> QED BY <1>0, <1>1, AppendAt
<1> HIDE DEF first
<1>4. \A c \in Clients : SameEntries(c)
  BY <1>0, <1>1, <1>2, EntriesNew
<1>5. PlainStep
  <2>1. CASE x \in Clients
    <3>1. /\ actors[x].pc \in Fresh /\ actors[x].answer = "none" /\ actors[x].kind # "delete"
      <4>1. "activate" \in Fresh
        BY DEF Fresh
      <4> QED BY <1>0, <2>1, <4>1, ClientKnown DEF Suits
    <3>2. PICK pc \in {"dispatch", "reserve"} :
            /\ actors' = Notified(Go(x, pc), actors[x].at)
            /\ pc = "dispatch" <=> actors[x].kind \in External
      BY <2>1 DEF Activate, Sends
    <3>3. Suits(actors[x].kind, pc, actors[x].answer) /\ pc \in Pcs
      BY <3>1, <3>2, IsAt DEF Suits, ClientPcs, Fresh
    <3> QED BY <3>1, <3>2, <3>3, PlainGo
  <2>2. CASE x \notin Clients
    BY <2>2, IsAt, PlainFinish DEF Activate
  <2> QED BY <2>1, <2>2
<1>6. ListedInv'
  <2> DEFINE e == [status |-> "active", id |-> Len(runners) + 1, chan |-> Len(chans'), finished |-> FALSE]
  <2>1. slots' = [slots EXCEPT ![actors[x].at] = e]
    BY DEF Activate
  <2>2. e.chan \in DOMAIN chans' /\ ~e.finished
    BY <1>3
  <2> HIDE DEF e
  <2>3. DOMAIN slots' = DOMAIN slots /\ \A s \in DOMAIN slots : slots'[s] \in {e, slots[s]}
    BY <1>0, <2>1
  <2> QED BY <1>0, <1>3, <2>2, <2>3 DEF TruthInv, ListedInv, Listed
<1> QED BY <1>0, <1>4, <1>5, <1>6, PlainEntries

\* A command goes to a channel, or to one nobody receives from any more.
LEMMA SendTruth ==
  ASSUME TruthInv, NEW c \in Clients, actors[c].pc \in Fresh, UNCHANGED <<log, slots>>,
         NEW k, NEW command \in CommandSet, chans' = Sent(k, command),
         command.from = c, command.what = Carries(actors[c].kind),
         NEW b \in ActorSet, actors' = [actors EXCEPT ![c] = b], b.kind = actors[c].kind, Fits(b),
         \/ /\ k \in DOMAIN chans /\ chans[k].open
            /\ b.pc = "awaiting" /\ b.answer = "none" /\ b.permit = actors[c].permit
         \/ actors[c].kind \notin External /\ ~b.permit /\ b.pc \notin Fresh
  PROVE  TruthStep
<1>0. /\ chans \in Seq(ChanSet) /\ actors \in [Actors -> ActorSet] /\ Clients \subseteq Actors
      /\ log'.applied = log.applied
  BY DEF TruthInv, SupervisorInv, SupervisorTypes, Actors
<1>1. DOMAIN chans' = DOMAIN chans
  BY <1>0, SentReturns
<1>2. ListedInv'
  BY <1>1, ListedSame
<1>3. PlacesInv'
  BY <1>0 DEF TruthInv, PlacesInv
<1>4. \A d \in Clients : d # c => actors'[d] = actors[d] /\ Fits(actors'[d])
  BY <1>0 DEF TruthInv, ClientsInv
<1>5. actors'[c] = b
  BY <1>0
<1>6. "awaiting" \notin Fresh
  BY DEF Fresh
<1>7. CASE k \in DOMAIN chans
  <2>1. ASSUME NEW d \in Clients, d # c PROVE Honest(d)'
    <3>1. SameEntries(d)
      BY <1>0, <1>7, <2>1, EntriesSent
    <3> QED BY <1>0, <1>4, <2>1, <3>1, GoesAside, PlainHonest, TimesKept DEF TruthInv, ClientsInv
  <2>2. CASE chans[k].open
    <3> DEFINE n == Len(chans[k].queue) + 1
    <3>1. /\ \A ch, i : Lies(c, ch, i)' <=> (Lies(c, ch, i) \/ (ch = k /\ i = n))
          /\ chans'[k].queue[n].what = Carries(actors[c].kind)
      BY <1>0, <1>7, <2>2, EntriesSent
    <3> HIDE DEF n
    <3>2. Honest(c) /\ Times(c)' = Times(c)
      BY <1>0, TimesKept DEF TruthInv, ClientsInv
    <3>3. actors'[c].kind = actors[c].kind /\ actors'[c].pc \notin Fresh
      BY <1>5, <1>6
    <3>4. \/ /\ actors'[c].pc = "awaiting" /\ actors'[c].answer = "none"
             /\ actors'[c].permit = actors[c].permit
          \/ actors[c].kind \notin External /\ ~actors'[c].permit
      BY <1>5
    <3>5. Honest(c)'
      BY <3>1, <3>2, <3>3, <3>4, SendsHonest
    <3> QED BY <1>2, <1>3, <1>4, <1>5, <2>1, <3>5 DEF TruthStep, ClientsInv
  <2>3. CASE ~chans[k].open
    <3>1. SameEntries(c)
      BY <1>0, <1>7, <2>3, EntriesSent
    <3>2. Goes(actors[c], actors'[c])
      BY <1>5, <2>3 DEF Goes
    <3>3. Honest(c)'
      BY <1>0, <3>1, <3>2, PlainHonest, TimesKept DEF TruthInv, ClientsInv
    <3> QED BY <1>2, <1>3, <1>4, <1>5, <2>1, <3>3 DEF TruthStep, ClientsInv
  <2> QED BY <2>2, <2>3
<1>8. CASE k \notin DOMAIN chans
  <2>1. UNCHANGED chans
    BY <1>0, <1>8 DEF Sent
  <2>2. Goes(actors[c], actors'[c])
    BY <1>5, <1>8 DEF Goes
  <2>3. \A d \in Clients : Goes(actors[d], actors'[d])
    BY <1>4, <2>2, GoesAside
  <2>4. PlainStep
    BY <1>3, <1>4, <1>5, <2>3 DEF PlainStep
  <2> QED BY <1>0, <1>2, <2>1, <2>4, PlainTruth
<1> QED BY <1>7, <1>8

LEMMA GoRecord ==
  ASSUME TruthInv, NEW x \in Actors, NEW pc \in Pcs
  PROVE  \E b \in ActorSet : /\ Go(x, pc) = [actors EXCEPT ![x] = b]
                             /\ b.pc = pc /\ b.kind = actors[x].kind /\ b.permit = actors[x].permit
                             /\ b.answer = actors[x].answer
<1> DEFINE b == [actors[x] EXCEPT !.pc = pc, !.id = IF pc \in Forgetful THEN 0 ELSE actors[x].id,
                               !.heard = FALSE]
<1>1. actors[x] \in ActorSet
  BY DEF TruthInv, SupervisorInv, SupervisorTypes
<1>2. b \in ActorSet
  BY <1>1 DEF ActorSet
<1>3. /\ b.pc = pc /\ b.kind = actors[x].kind
      /\ b.permit = actors[x].permit /\ b.answer = actors[x].answer
  BY <1>1 DEF ActorSet
<1>4. Go(x, pc) = [actors EXCEPT ![x] = b]
  BY DEF Go
<1> HIDE DEF b
<1> QED BY <1>2, <1>3, <1>4

LEMMA DispatchTruth ==
  ASSUME TruthInv, NEW c \in Clients, Dispatch(c)
  PROVE  TruthStep
<1> DEFINE a == actors[c]
           k == Slot(c).chan
<1>0. /\ c \in Actors /\ a.pc = "dispatch" /\ a.pc \in Fresh /\ a.answer = "none"
      /\ a.kind # "delete" /\ a.kind \in External /\ UNCHANGED <<log, slots>>
  <2>1. "dispatch" \in Fresh /\ "delete" \notin External
    BY DEF Fresh, External
  <2> QED BY <2>1, ClientKnown DEF Dispatch, Suits
<1>1. /\ a.at \in DOMAIN slots /\ Slot(c) \in SlotSet /\ Slot(c).status \in Statuses
      /\ Slot(c) = slots[a.at]
  BY <1>0, Placed, IsAt DEF TruthInv, Slot
<1>2. CASE Slot(c).status = "active" /\ chans[k].open /\ chans' = Sent(k, Command(a.kind, c))
           /\ actors' = Go(c, "awaiting")
  <2>1. k \in DOMAIN chans
    BY <1>1, <1>2 DEF TruthInv, ListedInv, Listed
  <2>2. PICK b \in ActorSet : /\ actors' = [actors EXCEPT ![c] = b]
                              /\ b.pc = "awaiting" /\ b.kind = a.kind /\ b.permit = a.permit
                              /\ b.answer = a.answer
    BY <1>0, <1>2, IsAt, GoRecord
  <2>3. Fits(b)
    BY <1>0, <2>2 DEF Fits, Suits, ClientPcs
  <2>4. Command(a.kind, c) \in CommandSet
    BY <1>0, CommandTyped DEF TruthInv, SupervisorInv, SupervisorTypes
  <2>5. Command(a.kind, c).from = c /\ Command(a.kind, c).what = Carries(a.kind)
    BY <1>0 DEF Command, Carries
  <2> DEFINE command == Command(a.kind, c)
  <2>6. /\ command \in CommandSet /\ command.from = c /\ command.what = Carries(a.kind)
        /\ chans' = Sent(k, command)
    BY <1>2, <2>4, <2>5
  <2> HIDE DEF command
  <2> QED BY <1>0, <1>2, <2>1, <2>2, <2>3, <2>6, SendTruth
<1>3. CASE UNCHANGED chans /\ PlainStep
  BY <1>0, <1>3, ListedSame, PlainTruth
<1>4. ASSUME \/ \E pc \in {"ensure", "waiting"} : actors' = Go(c, pc)
             \/ \E answer \in {"circuit", "unavailable", "deleting", "full"} : actors' = Finish(c, answer)
      PROVE  PlainStep
  <2>1. CASE \E pc \in {"ensure", "waiting"} : actors' = Go(c, pc)
    <3>1. PICK pc \in {"ensure", "waiting"} : actors' = Go(c, pc)
      BY <2>1
    <3>2. Suits(a.kind, pc, a.answer) /\ pc \notin {"off", "done", "awaiting", "left"} /\ pc \in Pcs
      BY <1>0, IsAt DEF Suits, ClientPcs, Fresh
    <3> QED BY <1>0, <3>1, <3>2, PlainGo
  <2>2. CASE \E answer \in {"circuit", "unavailable", "deleting", "full"} : actors' = Finish(c, answer)
    BY <1>0, <2>2, IsAt, PlainFinish
  <2> QED BY <1>4, <2>1, <2>2
<1> QED BY <1>2, <1>3, <1>4 DEF Dispatch, Refused

LEMMA SendInternalTruth ==
  ASSUME TruthInv, NEW c \in Clients, SendInternal(c)
  PROVE  TruthStep
<1> DEFINE a == actors[c]
           k == runners[a.id].chan
<1>0. /\ c \in Actors /\ a.pc = "holding" /\ a.pc \in Fresh /\ a.answer = "none"
      /\ a.kind # "delete" /\ a.kind \notin External /\ ~a.permit /\ UNCHANGED <<log, slots>>
      /\ actors \in [Actors -> ActorSet]
  <2>1. "holding" \in Fresh
    BY DEF Fresh
  <2> QED BY <2>1, ClientKnown DEF SendInternal, Suits
<1>1. CASE chans' = chans /\ actors' = Go(c, "ensure")
  <2>1. Suits(a.kind, "ensure", a.answer) /\ "ensure" \in Pcs
    BY <1>0, IsAt DEF Suits, ClientPcs, Fresh
  <2> QED BY <1>0, <1>1, <2>1, PlainGo, ListedSame, PlainTruth
<1>2. CASE /\ chans' = Sent(k, Command(a.kind, c))
           /\ \/ actors' = Go(c, "awaiting")
              \/ \E answer \in {"ok", "lost"} : actors' = Finish(c, answer)
  <2>1. PICK b \in ActorSet : /\ actors' = [actors EXCEPT ![c] = b] /\ b.kind = a.kind /\ ~b.permit
                              /\ (b.pc = "awaiting" /\ b.answer = "none") \/ b.pc = "done"
    <3>1. CASE actors' = Go(c, "awaiting")
      <4>1. PICK b \in ActorSet : /\ actors' = [actors EXCEPT ![c] = b]
                                  /\ b.pc = "awaiting" /\ b.kind = a.kind /\ b.permit = a.permit
                                  /\ b.answer = a.answer
        BY <1>0, <3>1, IsAt, GoRecord
      <4> QED BY <1>0, <4>1
    <3>2. CASE \E answer \in {"ok", "lost"} : actors' = Finish(c, answer)
      <4>1. PICK answer \in {"ok", "lost"} : actors' = Finish(c, answer)
        BY <3>2
      <4> DEFINE b == Ended(a, "done", answer)
      <4>2. actors' = [actors EXCEPT ![c] = b]
        BY <4>1 DEF Finish
      <4>3. b.kind = a.kind /\ ~b.permit /\ b.pc = "done"
        BY DEF Ended, NoActor
      <4>4. b \in ActorSet
        <5>1. a \in ActorSet
          BY <1>0
        <5> QED BY <5>1, IsAt DEF ActorSet, Ended, NoActor
      <4> HIDE DEF b
      <4> QED BY <4>2, <4>3, <4>4
    <3> QED BY <1>2, <3>1, <3>2
  <2>2. Fits(b) /\ b.pc \notin Fresh
    BY <1>0, <2>1 DEF Fits, Suits, ClientPcs, Fresh
  <2> DEFINE command == Command(a.kind, c)
  <2>3. command \in CommandSet
    BY <1>0, CommandTyped
  <2>4. command.from = c /\ command.what = Carries(a.kind) /\ chans' = Sent(k, command)
    BY <1>0, <1>2 DEF Command, Carries
  <2> HIDE DEF command, k
  <2> QED BY <1>0, <2>1, <2>2, <2>3, <2>4, SendTruth
<1> QED BY <1>1, <1>2 DEF SendInternal

LEMMA StopTruth ==
  ASSUME TruthInv, NEW x \in Actors, SendStop(x)
  PROVE  TruthStep
<1> DEFINE a == actors[x]
           k == runners[a.id].chan
           command == Command("stop", x)
<1>0. /\ a.pc = "stop" /\ UNCHANGED <<log, slots>> /\ chans \in Seq(ChanSet)
      /\ actors \in [Actors -> ActorSet] /\ chans' = Sent(k, command) /\ actors' = Go(x, "join")
  BY DEF SendStop, TruthInv, SupervisorInv, SupervisorTypes
<1>1. command \in CommandSet
  BY <1>0, CommandTyped
<1>2. command.from = x /\ command.what = "stop"
  BY DEF Command
<1> HIDE DEF command, k
<1>3. CASE x \in Clients
  <2>1. /\ a.pc \in Fresh /\ a.answer = "none" /\ a.kind = "delete" /\ a.kind \notin External
        /\ ~a.permit
    <3>1. "stop" \in Fresh /\ "delete" \notin External
      BY DEF Fresh, External
    <3> QED BY <1>0, <1>3, <3>1, ClientKnown DEF Suits
  <2>2. PICK b \in ActorSet : /\ actors' = [actors EXCEPT ![x] = b]
                              /\ b.pc = "join" /\ b.kind = a.kind /\ b.permit = a.permit
                              /\ b.answer = a.answer
    BY <1>0, IsAt, GoRecord
  <2>3. Fits(b) /\ b.pc \notin Fresh
    BY <2>1, <2>2 DEF Fits, Suits, ClientPcs, Fresh
  <2>4. command.what = Carries(a.kind)
    BY <1>2, <2>1 DEF Carries
  <2> QED BY <1>0, <1>1, <1>2, <1>3, <2>1, <2>2, <2>3, <2>4, SendTruth
<1>4. CASE x \notin Clients
  <2>1. PlainStep
    BY <1>0, <1>4, IsAt, PlainGo
  <2>2. \A c \in Clients : SameEntries(c)
    <3>1. CASE k \in DOMAIN chans
      BY <1>0, <1>1, <1>2, <1>4, <3>1, EntriesSent
    <3>2. CASE k \notin DOMAIN chans
      <4>1. UNCHANGED chans
        BY <1>0, <3>2 DEF Sent
      <4> QED BY <4>1, EntriesKept
    <3> QED BY <3>1, <3>2
  <2>3. ListedInv'
    BY <1>0, <1>1, SentReturns, ListedSame
  <2> QED BY <1>0, <2>1, <2>2, <2>3, PlainEntries
<1> QED BY <1>3, <1>4

-----------------------------------------------------------------------------
\* The runners.

LEMMA WorkTruth ==
  ASSUME TruthInv, NEW id, Work(id) \/ IdleExit(id)
  PROVE  TruthStep
<1>1. /\ id \in DOMAIN runners /\ runners[id].pc = "run" /\ id \in Alive
      /\ UNCHANGED <<slots, chans, actors>>
  BY DEF Work, IdleExit, Runs, Alive
<1>2. log'.applied = log.applied
  <2>1. log \in LogSet
    BY DEF TruthInv, SupervisorInv, SupervisorTypes
  <2> QED BY <2>1 DEF Work, IdleExit, LogSet
<1>3. PlainStep
  BY <1>1, GoesAside DEF PlainStep, TruthInv, ClientsInv, PlacesInv
<1> QED BY <1>1, <1>2, <1>3, ListedRun, PlainTruth

\* A channel is closed: what lay in it is lost.
LEMMA CutHonest ==
  ASSUME TruthInv, NEW k \in DOMAIN chans, chans' = Closed(k), NEW c \in Clients,
         Times(c)' = Times(c),
         \/ (\A i : ~Lies(c, k, i)) /\ Goes(actors[c], actors'[c]) /\ Fits(actors'[c])
         \/ (\E i : Lies(c, k, i)) /\ Loses(actors[c], actors'[c])
  PROVE  Honest(c)' /\ Fits(actors'[c])
<1>1. Cut(c, k) /\ Honest(c) /\ Fits(actors[c])
  BY EntriesCut DEF TruthInv, SupervisorInv, SupervisorTypes, ClientsInv
<1>2. CASE (\A i : ~Lies(c, k, i)) /\ Goes(actors[c], actors'[c]) /\ Fits(actors'[c])
  BY <1>1, <1>2, CutNothing, PlainHonest
<1>3. CASE (\E i : Lies(c, k, i)) /\ Loses(actors[c], actors'[c])
  BY <1>1, <1>3, LosesHonest
<1> QED BY <1>2, <1>3

\* What the drop of a channel's commands makes of a client.
LEMMA DroppedLoses ==
  ASSUME actors \in [Actors -> ActorSet], NEW commands, NEW c \in Clients
  PROVE  LET b == Dropped(actors, commands)[c] IN
         \/ b = actors[c] /\ \A i \in DOMAIN commands : commands[i].from # c
         \/ Loses(actors[c], b) /\ \E i \in DOMAIN commands : commands[i].from = c
<1>1. c \in Actors
  BY DEF Actors
<1> QED BY <1>1, DroppedReturns DEF Loses

LEMMA PlacesDropped ==
  ASSUME TruthInv, NEW commands
  PROVE  \A x \in Actors \ Clients : ~Dropped(actors, commands)[x].permit
<1>1. actors \in [Actors -> ActorSet] /\ \A x \in Actors \ Clients : ~actors[x].permit
  BY DEF TruthInv, SupervisorInv, SupervisorTypes, PlacesInv
<1> QED BY <1>1, DroppedReturns

\* What a command that takes effect does to the record of the log.
LEMMA EffectOf ==
  ASSUME TruthInv, NEW k, NEW i, NEW c \in Clients,
         k \in DOMAIN chans, i \in DOMAIN chans[k].queue, log' = Effect(chans[k].queue[i])
  PROVE  /\ chans[k].queue[i].from # c => Times(c)' = Times(c)
         /\ chans[k].queue[i].from = c =>
              Times(c)' = IF actors[c].kind \in External THEN 1 ELSE 0
<1> DEFINE command == chans[k].queue[i]
<1>1. /\ chans \in Seq(ChanSet) /\ log \in LogSet /\ Honest(c)
      /\ actors[c].kind \in AllKinds \cup {"none"}
  BY ClientKnown DEF TruthInv, SupervisorInv, SupervisorTypes
<1>2. chans[k] \in ChanSet
  BY <1>1
<1>3. command \in CommandSet
  BY <1>2 DEF ChanSet
<1>4. Times(c) \in Nat
  BY <1>1 DEF Honest
<1>5. command.from = c => command.what = Carries(actors[c].kind) /\ Lies(c, k, i)
  BY <1>1 DEF Honest, Lies
<1>6. command.from = c /\ actors[c].kind \in External => Times(c) = 0
  BY <1>1, <1>5 DEF Honest, Owed
<1>7. actors[c].kind \notin External => Times(c) = 0
  BY <1>1 DEF Honest
<1>8. Carries(actors[c].kind) \in External <=> actors[c].kind \in External
  BY <1>1 DEF Carries, External, AllKinds
<1>9. log' = Effect(command)
  OBVIOUS
<1> HIDE DEF command
<1>10. Times(c)' = IF command.from = c /\ command.what \in External THEN Times(c) + 1 ELSE Times(c)
  BY <1>1, <1>3, <1>4, <1>9, EffectTimes
<1>11. command.from # c => Times(c)' = Times(c)
  BY <1>10
<1>12. command.from = c => Times(c)' = IF actors[c].kind \in External THEN 1 ELSE 0
  BY <1>5, <1>6, <1>7, <1>8, <1>10
<1> QED BY <1>11, <1>12 DEF command

LEMMA FailTruth ==
  ASSUME TruthInv, NEW id, Fail(id)
  PROVE  TruthStep
<1> DEFINE k == runners[id].chan
           queue == chans[k].queue
<1>0. /\ id \in DOMAIN runners /\ id \in Alive /\ actors \in [Actors -> ActorSet]
      /\ chans \in Seq(ChanSet) /\ chans' = Closed(k) /\ actors' = Dropped(actors, queue)
      /\ UNCHANGED slots
  BY DEF Fail, Runs, Alive, TruthInv, SupervisorInv, SupervisorTypes
<1>1. k \in DOMAIN chans /\ queue \in Seq(CommandSet)
  BY <1>0, RunnerAt DEF TruthInv
<1>2. DOMAIN chans' = DOMAIN chans
  BY <1>0, ClosedReturns
<1>3. ListedInv'
  BY <1>0, <1>2, ListedRun
<1>4. PlacesInv'
  BY <1>0, PlacesDropped DEF PlacesInv
<1>5. log' = log \/ (1 \in DOMAIN queue /\ log' = Effect(queue[1]))
  BY DEF Fail
<1>6. \A c \in Clients : \A i : Lies(c, k, i) <=> i \in DOMAIN queue /\ queue[i].from = c
  BY <1>1 DEF Lies
<1>7. ASSUME NEW c \in Clients PROVE Honest(c)' /\ Fits(actors'[c])
  <2>1. \/ actors'[c] = actors[c] /\ \A i : ~Lies(c, k, i)
        \/ Loses(actors[c], actors'[c]) /\ \E i : Lies(c, k, i)
    BY <1>0, <1>6, DroppedLoses
  <2>2. CASE Times(c)' = Times(c)
    <3>1. Fits(actors[c]) /\ Goes(actors[c], actors[c])
      BY GoesAside DEF TruthInv, ClientsInv
    <3> QED BY <1>0, <1>1, <2>1, <2>2, <3>1, CutHonest
  <2>3. CASE 1 \in DOMAIN queue /\ log' = Effect(queue[1]) /\ queue[1].from = c
    <3>1. Lies(c, k, 1) /\ Honest(c) /\ Fits(actors[c]) /\ Cut(c, k)
      BY <1>0, <1>1, <1>6, <2>3, EntriesCut DEF TruthInv, ClientsInv
    <3>2. Times(c)' = IF actors[c].kind \in External THEN 1 ELSE 0
      BY <1>1, <2>3, EffectOf
    <3>3. actors[c].kind \in External => ~Owed(c)'
      <4>1. actors[c].kind \in External => \A ch, i : Lies(c, ch, i) => ch = k
        BY <3>1 DEF Honest
      <4> QED BY <3>1, <4>1 DEF Owed, Cut
    <3>4. \A ch, j : Lies(c, ch, j)' => \E m : /\ Lies(c, ch, m)
                                               /\ chans'[ch].queue[j].what = chans[ch].queue[m].what
      BY <3>1 DEF Cut
    <3>5. /\ actors'[c].kind = actors[c].kind /\ ~actors'[c].permit
          /\ \/ actors'[c].pc = actors[c].pc /\ actors'[c].answer = actors[c].answer
             \/ actors'[c].pc = "done" /\ actors'[c].answer \in {"ok", "lost"}
      BY <2>1, <3>1 DEF Loses
    <3> HIDE DEF k, queue
    <3> QED BY <3>1, <3>2, <3>3, <3>4, <3>5, TakesHonest
  <2>4. Times(c)' = Times(c) \/ (1 \in DOMAIN queue /\ log' = Effect(queue[1]) /\ queue[1].from = c)
    <3>1. CASE log' = log
      BY <3>1, TimesKept
    <3>2. CASE 1 \in DOMAIN queue /\ log' = Effect(queue[1])
      BY <1>1, <3>2, EffectOf
    <3> QED BY <1>5, <3>1, <3>2
  <2> QED BY <2>2, <2>3, <2>4
<1> QED BY <1>3, <1>4, <1>7 DEF TruthStep, ClientsInv

\* What a handled command makes of the clients: d is the one it came from.
LEMMA HandledClients ==
  ASSUME TruthInv, NEW rest \in [Actors -> ActorSet], NEW from \in Actors \cup {"none"},
         actors' = IF from \notin Clients \/ rest[from].pc # "awaiting"
                   THEN IF from \in Clients THEN [rest EXCEPT ![from].permit = FALSE] ELSE rest
                   ELSE [rest EXCEPT ![from] = Ended(rest[from], "done", "ok")]
  PROVE  /\ \A x \in Actors : x # from \/ x \notin Clients => actors'[x] = rest[x]
         /\ from \in Clients =>
              /\ actors'[from].kind = rest[from].kind /\ ~actors'[from].permit
              /\ \/ actors'[from].pc = rest[from].pc /\ actors'[from].answer = rest[from].answer
                 \/ actors'[from].pc = "done" /\ actors'[from].answer = "ok"
<1>1. CASE from \notin Clients
  BY <1>1
<1>2. CASE from \in Clients
  <2> DEFINE v == [rest[from] EXCEPT !.permit = FALSE]
             w == Ended(rest[from], "done", "ok")
  <2>1. from \in Actors /\ rest[from] \in ActorSet
    BY <1>2 DEF Actors
  <2>2. actors' \in {[rest EXCEPT ![from] = v], [rest EXCEPT ![from] = w]}
    BY <1>2, <2>1
  <2>3. ~v.permit /\ v.kind = rest[from].kind /\ v.pc = rest[from].pc /\ v.answer = rest[from].answer
    BY <2>1 DEF ActorSet
  <2>4. ~w.permit /\ w.kind = rest[from].kind /\ w.pc = "done" /\ w.answer = "ok"
    BY DEF Ended, NoActor
  <2> HIDE DEF v, w
  <2> QED BY <1>2, <2>1, <2>2, <2>3, <2>4
<1> QED BY <1>1, <1>2

LEMMA HandleTruth ==
  ASSUME TruthInv, NEW id, Handle(id)
  PROVE  TruthStep
<1>. PICK k : k = runners[id].chan
  OBVIOUS
<1> DEFINE queue == chans[k].queue
           command == Head(queue)
           ends == command.what = "stop" \/ Opens(command)
           rest == IF ends THEN Dropped(actors, Tail(queue)) ELSE actors
<1>0. /\ id \in DOMAIN runners /\ id \in Alive /\ actors \in [Actors -> ActorSet]
      /\ chans \in Seq(ChanSet) /\ queue # <<>> /\ log' = Effect(command)
      /\ UNCHANGED slots
  BY DEF Handle, Runs, Alive, TruthInv, SupervisorInv, SupervisorTypes
<1>1. k \in DOMAIN chans /\ queue \in Seq(CommandSet)
  BY <1>0, RunnerAt DEF TruthInv
<1>2. /\ 1 \in DOMAIN queue /\ command = queue[1] /\ command \in CommandSet
      /\ Len(queue) \in Nat /\ DOMAIN queue = 1..Len(queue)
      /\ DOMAIN Tail(queue) = 1..(Len(queue) - 1)
      /\ \A j \in 1..(Len(queue) - 1) : Tail(queue)[j] = queue[j + 1]
  BY <1>0, <1>1, HeadTailProperties, LenProperties
<1>3. chans' = (IF ends THEN Closed(k) ELSE [chans EXCEPT ![k].queue = Tail(@)])
  BY DEF Handle
<1>4. DOMAIN chans' = DOMAIN chans
  BY <1>0, <1>3, ClosedReturns
<1>5. command.from \in Actors \cup {"none"}
  BY <1>2 DEF CommandSet
<1>6. rest \in [Actors -> ActorSet] /\ \A x \in Actors \ Clients : ~rest[x].permit
  BY <1>0, DroppedReturns, PlacesDropped DEF TruthInv, PlacesInv
<1>7. actors' = IF command.from \notin Clients \/ rest[command.from].pc # "awaiting"
                THEN IF command.from \in Clients THEN [rest EXCEPT ![command.from].permit = FALSE] ELSE rest
                ELSE [rest EXCEPT ![command.from] = Ended(rest[command.from], "done", "ok")]
  BY DEF Handle
<1>8. \A c \in Clients : \A i : Lies(c, k, i) <=> i \in DOMAIN queue /\ queue[i].from = c
  BY <1>1 DEF Lies
<1>9. log' = Effect(queue[1])
  BY <1>0, <1>2
<1>10. \A c \in Clients :
         \/ rest[c] = actors[c] /\ (ends => \A i : Lies(c, k, i) => i = 1)
         \/ ends /\ Loses(actors[c], rest[c]) /\ \E i : Lies(c, k, i)
  <2> SUFFICES ASSUME NEW c \in Clients, ends
               PROVE  \/ rest[c] = actors[c] /\ \A i : Lies(c, k, i) => i = 1
                      \/ Loses(actors[c], rest[c]) /\ \E i : Lies(c, k, i)
    OBVIOUS
  <2>1. \/ rest[c] = actors[c] /\ \A i \in DOMAIN Tail(queue) : Tail(queue)[i].from # c
        \/ Loses(actors[c], rest[c]) /\ \E i \in DOMAIN Tail(queue) : Tail(queue)[i].from = c
    <3>1. rest = Dropped(actors, Tail(queue))
      OBVIOUS
    <3> HIDE DEF rest, queue
    <3> QED BY <1>0, <3>1, DroppedLoses
  <2>2. CASE \A i \in DOMAIN Tail(queue) : Tail(queue)[i].from # c
    <3>1. ASSUME NEW i, Lies(c, k, i) PROVE i = 1
      <4>1. i \in 1..Len(queue) /\ queue[i].from = c
        BY <1>2, <1>8, <3>1
      <4>2. CASE i # 1
        <5>1. i - 1 \in 1..(Len(queue) - 1) /\ queue[(i - 1) + 1] = queue[i]
          BY <1>2, <4>1, <4>2
        <5>2. Tail(queue)[i - 1].from = c
          BY <1>2, <4>1, <5>1
        <5> QED BY <1>2, <2>2, <5>1, <5>2
      <4> QED BY <4>2
    <3>2. ~\E i \in DOMAIN Tail(queue) : Tail(queue)[i].from = c
      BY <2>2
    <3> HIDE DEF rest
    <3> QED BY <2>1, <3>1, <3>2
  <2>3. CASE \E i \in DOMAIN Tail(queue) : Tail(queue)[i].from = c
    <3>1. PICK i \in DOMAIN Tail(queue) : Tail(queue)[i].from = c
      BY <2>3
    <3>2. i + 1 \in DOMAIN queue /\ queue[i + 1].from = c
      BY <1>2, <3>1
    <3>3. Lies(c, k, i + 1)
      BY <1>8, <3>2
    <3>4. Loses(actors[c], rest[c])
      BY <2>1, <3>1
    <3> QED BY <3>3, <3>4
  <2> QED BY <2>2, <2>3
<1> HIDE DEF rest
<1>11. /\ \A x \in Actors : x # command.from \/ x \notin Clients => actors'[x] = rest[x]
       /\ command.from \in Clients =>
              /\ actors'[command.from].kind = rest[command.from].kind /\ ~actors'[command.from].permit
              /\ \/ actors'[command.from].pc = rest[command.from].pc
                    /\ actors'[command.from].answer = rest[command.from].answer
                 \/ actors'[command.from].pc = "done" /\ actors'[command.from].answer = "ok"
  <2> HIDE DEF command
  <2> QED BY <1>5, <1>6, <1>7, HandledClients
<1>12. ListedInv'
  BY <1>0, <1>4, ListedRun
<1>13. PlacesInv'
  BY <1>6, <1>11 DEF PlacesInv
<1> DEFINE from == command.from
<1>16. /\ from = chans[k].queue[1].from /\ 1 \in DOMAIN chans[k].queue /\ chans[k].queue # <<>>
       /\ log' = Effect(chans[k].queue[1])
  BY <1>0, <1>2, <1>9
<1>17. /\ \A x \in Actors : x # from \/ x \notin Clients => actors'[x] = rest[x]
       /\ from \in Clients =>
              /\ actors'[from].kind = rest[from].kind /\ ~actors'[from].permit
              /\ \/ actors'[from].pc = rest[from].pc /\ actors'[from].answer = rest[from].answer
                 \/ actors'[from].pc = "done" /\ actors'[from].answer = "ok"
  BY <1>11
<1>18. \A c \in Clients : Lies(c, k, 1) <=> c = from
  BY <1>8, <1>16
<1> HIDE DEF from, command, ends
<1>14. ASSUME NEW c \in Clients, c # from PROVE Honest(c)' /\ Fits(actors'[c])
  <2>0. /\ c \in Actors /\ Honest(c) /\ Fits(actors[c]) /\ Goes(actors[c], actors[c])
        /\ actors'[c] = rest[c]
    BY <1>14, <1>17, GoesAside DEF Actors, TruthInv, ClientsInv
  <2>1. Times(c)' = Times(c)
    BY <1>1, <1>14, <1>16, EffectOf
  <2>2. ~Lies(c, k, 1)
    BY <1>14, <1>18
  <2>3. CASE ends
    <3>1. \/ actors'[c] = actors[c] /\ \A i : ~Lies(c, k, i)
          \/ Loses(actors[c], actors'[c]) /\ \E i : Lies(c, k, i)
      BY <1>10, <2>0, <2>2, <2>3
    <3> QED BY <1>1, <1>3, <2>0, <2>1, <2>3, <3>1, CutHonest
  <2>4. CASE ~ends
    <3>1. actors'[c] = actors[c]
      BY <1>10, <2>0, <2>4
    <3>2. chans' = [chans EXCEPT ![k].queue = Tail(@)]
      BY <1>3, <2>4
    <3>3. Shifted(c, k)
      BY <1>0, <1>1, <1>16, <3>2, EntriesTail
    <3>4. Honest(c)'
      BY <2>0, <2>1, <2>2, <3>1, <3>3, ShiftHonest
    <3> QED BY <2>0, <3>1, <3>4
  <2> QED BY <2>3, <2>4
<1>15. ASSUME NEW c \in Clients, c = from PROVE Honest(c)' /\ Fits(actors'[c])
  <2>1. Lies(c, k, 1) /\ Honest(c) /\ Fits(actors[c])
    BY <1>15, <1>18 DEF TruthInv, ClientsInv
  <2>2. Times(c)' = IF actors[c].kind \in External THEN 1 ELSE 0
    BY <1>1, <1>15, <1>16, EffectOf
  <2>3. \A ch, j : Lies(c, ch, j)' => \E m : /\ Lies(c, ch, m) /\ (ch = k => m # 1)
                                             /\ chans'[ch].queue[j].what = chans[ch].queue[m].what
    <3>1. CASE ends
      <4>1. Cut(c, k)
        BY <1>0, <1>1, <1>3, <3>1, EntriesCut
      <4> QED BY <4>1 DEF Cut
    <3>2. CASE ~ends
      <4>1. chans' = [chans EXCEPT ![k].queue = Tail(@)]
        BY <1>3, <3>2
      <4>2. Shifted(c, k)
        BY <1>0, <1>1, <1>16, <4>1, EntriesTail
      <4> SUFFICES ASSUME NEW ch, NEW j, Lies(c, ch, j)'
                   PROVE  \E m : /\ Lies(c, ch, m) /\ (ch = k => m # 1)
                                 /\ chans'[ch].queue[j].what = chans[ch].queue[m].what
        OBVIOUS
      <4>3. CASE ch # k
        BY <4>2, <4>3 DEF Shifted
      <4>4. CASE ch = k
        <5>1. /\ j \in Nat \ {0} /\ Lies(c, k, j + 1)
              /\ chans'[k].queue[j].what = chans[k].queue[j + 1].what
          BY <4>2, <4>4 DEF Shifted
        <5> QED BY <4>4, <5>1
      <4> QED BY <4>3, <4>4
    <3> QED BY <3>1, <3>2
  <2>4. actors[c].kind \in External => ~Owed(c)'
    <3>1. actors[c].kind \in External => \A ch, i : Lies(c, ch, i) => ch = k /\ i = 1
      BY <2>1 DEF Honest
    <3> QED BY <2>3, <3>1 DEF Owed
  <2>5. /\ actors'[c].kind = actors[c].kind /\ ~actors'[c].permit
        /\ \/ actors'[c].pc = actors[c].pc /\ actors'[c].answer = actors[c].answer
           \/ actors'[c].pc = "done" /\ actors'[c].answer \in {"ok", "lost"}
    <3>1. rest[c] = actors[c] \/ Loses(actors[c], rest[c])
      BY <1>10
    <3>2. /\ actors'[c].kind = rest[c].kind /\ ~actors'[c].permit
          /\ \/ actors'[c].pc = rest[c].pc /\ actors'[c].answer = rest[c].answer
             \/ actors'[c].pc = "done" /\ actors'[c].answer = "ok"
      BY <1>15, <1>17
    <3> QED BY <3>1, <3>2 DEF Loses
  <2>6. \A ch, j : Lies(c, ch, j)' => \E m : /\ Lies(c, ch, m)
                                             /\ chans'[ch].queue[j].what = chans[ch].queue[m].what
    BY <2>3
  <2> QED BY <2>1, <2>2, <2>4, <2>5, <2>6, TakesHonest
<1> QED BY <1>12, <1>13, <1>14, <1>15 DEF TruthStep, ClientsInv

LEMMA ExitedTruth ==
  ASSUME TruthInv, NEW id, Exited(id)
  PROVE  TruthStep
<1> DEFINE k == runners[id].chan
           queue == chans[k].queue
           s == runners[id].at
           restarts == runners[id].pc = "idle" /\ Mine(id) /\ ~stopping /\ queue # <<>>
           rest == IF restarts THEN actors ELSE Dropped(actors, queue)
           told == IF Mine(id) THEN Notified(rest, s) ELSE rest
<1>0. /\ id \in DOMAIN runners /\ actors \in [Actors -> ActorSet] /\ chans \in Seq(ChanSet)
      /\ slots \in Seq(SlotSet) /\ "rebuild" \in Actors \ Clients /\ Clients \subseteq Actors
      /\ UNCHANGED log
      /\ chans' = IF restarts THEN chans ELSE Closed(k)
  BY SupervisorAssumption DEF Exited, Actors, TruthInv, SupervisorInv, SupervisorTypes
<1>1. k \in DOMAIN chans /\ queue \in Seq(CommandSet)
  BY <1>0, RunnerAt DEF TruthInv
<1>2. DOMAIN chans' = DOMAIN chans
  BY <1>0, ClosedReturns
<1>3. \/ actors' = told
      \/ actors' = [told EXCEPT !["rebuild"] = [NoActor EXCEPT !.pc = "recover", !.at = s, !.id = id]]
  BY DEF Exited
<1>4. rest \in [Actors -> ActorSet] /\ \A x \in Actors \ Clients : ~rest[x].permit
  BY <1>0, DroppedReturns, PlacesDropped DEF TruthInv, PlacesInv
<1>5. \A c \in Clients :
         \/ rest[c] = actors[c] /\ (~restarts => \A i : ~Lies(c, k, i))
         \/ ~restarts /\ Loses(actors[c], rest[c]) /\ \E i : Lies(c, k, i)
  BY <1>0, <1>1, DroppedLoses DEF Lies
<1> HIDE DEF rest
<1>6. told \in [Actors -> ActorSet] /\ \A x \in Actors \ Clients : ~told[x].permit
  BY <1>4, NotifiedReturns
<1>7. PlacesInv'
  <2>1. ~[NoActor EXCEPT !.pc = "recover", !.at = s, !.id = id].permit
    BY DEF NoActor
  <2> HIDE DEF told
  <2> QED BY <1>0, <1>3, <1>6, <2>1 DEF PlacesInv
<1>8. \A c \in Clients : actors'[c] = told[c]
  <2> HIDE DEF told
  <2> QED BY <1>0, <1>3, <1>6
<1>9. ASSUME NEW c \in Clients PROVE Honest(c)' /\ Fits(actors'[c])
  <2>1. /\ Honest(c) /\ Fits(actors[c]) /\ Goes(actors[c], actors[c])
        /\ actors[c].permit => actors[c].kind \in External
    BY ClientKnown, GoesAside DEF TruthInv, ClientsInv
  <2>2. Times(c)' = Times(c)
    BY <1>0, TimesKept
  <2>3. CASE rest[c] = actors[c] /\ (~restarts => \A i : ~Lies(c, k, i))
    <3>1. Goes(actors[c], told[c]) /\ Fits(told[c])
      BY <1>4, <2>1, <2>3, NotifiedGoes
    <3>2. Goes(actors[c], actors'[c]) /\ Fits(actors'[c])
      BY <1>8, <3>1
    <3>3. SameEntries(c)
      <4>1. CASE restarts
        <5>1. UNCHANGED chans
          BY <1>0, <4>1
        <5> QED BY <5>1, EntriesKept
      <4>2. CASE ~restarts
        <5>1. Cut(c, k)
          BY <1>0, <1>1, <4>2, EntriesCut
        <5> QED BY <2>3, <4>2, <5>1, CutNothing
      <4> QED BY <4>1, <4>2
    <3> QED BY <2>1, <2>2, <3>2, <3>3, PlainHonest
  <2>4. CASE ~restarts /\ Loses(actors[c], rest[c]) /\ \E i : Lies(c, k, i)
    <3>1. actors[c].pc # "waiting"
      BY <2>1, <2>4 DEF Honest, Owed, Fresh
    <3>2. rest[c].pc # "waiting"
      BY <2>4, <3>1 DEF Loses
    <3>3. /\ told[c].pc = rest[c].pc /\ told[c].kind = rest[c].kind
          /\ told[c].permit = rest[c].permit /\ told[c].answer = rest[c].answer
      BY <1>0, <1>4, <3>2, NotifiedReturns
    <3>4. Loses(actors[c], actors'[c])
      BY <1>8, <2>4, <3>3 DEF Loses
    <3>5. Cut(c, k)
      BY <1>0, <1>1, <2>4, EntriesCut
    <3> HIDE DEF k
    <3> QED BY <2>1, <2>2, <2>4, <3>4, <3>5, LosesHonest
  <2> QED BY <1>5, <2>3, <2>4
<1>10. ListedInv'
  <2>1. CASE UNCHANGED slots
    BY <1>0, <1>2, <2>1, ListedSame
  <2>2. CASE Mine(id) /\ restarts
    <3>1. /\ slots' = [slots EXCEPT ![s].id = Len(runners')]
      BY <2>2 DEF Exited
    <3>2. s \in DOMAIN slots
      BY <1>0, RunnerAt DEF TruthInv
    <3> DEFINE e == [slots[s] EXCEPT !.id = Len(runners')]
    <3>3. slots' = [slots EXCEPT ![s] = e]
      BY <3>1, <3>2
    <3>4. slots[s] \in SlotSet
      BY <1>0, <3>2
    <3>5. e.status = slots[s].status /\ e.finished = slots[s].finished /\ e.chan = slots[s].chan
      BY <3>4 DEF SlotSet
    <3> HIDE DEF e
    <3>6. DOMAIN slots' = DOMAIN slots /\ \A j \in DOMAIN slots : slots'[j] = IF j = s THEN e ELSE slots[j]
      BY <1>0, <3>3
    <3> QED BY <1>0, <1>2, <3>5, <3>6 DEF TruthInv, ListedInv, Listed
  <2>3. CASE Mine(id) /\ ~restarts
    <3>1. PICK status \in {"recovering", "circuit", "idle"} :
            /\ slots' = [slots EXCEPT ![s].status = status, ![s].finished = ListedFinished(id)]
            /\ runners[id].pc = "idle" => status = "idle"
      BY <2>3 DEF Exited, Rebuilds
    <3>2. s \in DOMAIN slots
      BY <1>0, RunnerAt DEF TruthInv
    <3> DEFINE e == [slots[s] EXCEPT !.status = status, !.finished = ListedFinished(id)]
    <3>3. slots' = [slots EXCEPT ![s] = e]
      BY <3>1, <3>2
    <3>4. slots[s] \in SlotSet
      BY <1>0, <3>2
    <3>5. e.status = status /\ e.finished = ListedFinished(id)
      BY <3>4 DEF SlotSet
    <3> HIDE DEF e
    <3>6. e.finished => e.status = "idle" /\ log.finished
      BY <3>1, <3>5 DEF ListedFinished
    <3>7. e.status # "active"
      BY <3>5
    <3>8. DOMAIN slots' = DOMAIN slots /\ \A j \in DOMAIN slots : slots'[j] = IF j = s THEN e ELSE slots[j]
      BY <1>0, <3>3
    <3> QED BY <1>0, <1>2, <3>6, <3>7, <3>8 DEF TruthInv, ListedInv, Listed
  <2> QED BY <2>1, <2>2, <2>3 DEF Exited
<1> HIDE DEF k, queue, s, restarts, told
<1> QED BY <1>7, <1>9, <1>10 DEF TruthStep, ClientsInv

-----------------------------------------------------------------------------
LEMMA TruthInit == Init => TruthInv
<1> SUFFICES ASSUME Init PROVE TruthInv
  OBVIOUS
<1>1. slots = <<>> /\ chans = <<>> /\ DOMAIN slots = {} /\ DOMAIN chans = {}
  BY DEF Init
<1>2. log.applied = <<>>
  BY DEF Init
<1>3. \A c \in Clients : Times(c) = 0
  <2> SUFFICES ASSUME NEW c \in Clients PROVE Times(c) = 0
    OBVIOUS
  <2>1. {i \in DOMAIN log.applied : log.applied[i] = c} = {}
    BY <1>2
  <2> QED BY <2>1, FS_EmptySet DEF Times
<1>4. \A c \in Clients : ~Owed(c) /\ \A ch, i : ~Lies(c, ch, i)
  BY <1>1 DEF Owed, Lies
<1>5. Clients \subseteq Actors /\ "scan" \notin Clients
  BY SupervisorAssumption DEF Actors
<1>6. \A x \in Actors : ~actors[x].permit
  <2> DEFINE v == [NoActor EXCEPT !.pc = "discover"]
  <2>1. ~v.permit /\ ~NoActor.permit
    BY DEF NoActor
  <2>2. actors = [x \in Actors |-> IF x = "scan" THEN v ELSE NoActor]
    BY DEF Init
  <2> HIDE DEF v
  <2> QED BY <2>1, <2>2
<1>7. \A c \in Clients : actors[c].pc = "off" /\ actors[c].kind = "none" /\ actors[c].answer = "none"
  <2>1. \A c \in Clients : actors[c] = NoActor
    BY <1>5 DEF Init
  <2> QED BY <2>1 DEF NoActor
<1>8. \A c \in Clients : Fits(actors[c])
  BY <1>7 DEF Fits, Suits, ClientPcs, Fresh
<1>9. \A c \in Clients : Honest(c)
  <2>1. "none" \notin External /\ "off" \in Fresh
    BY DEF External, Fresh
  <2> QED BY <1>3, <1>4, <1>5, <1>6, <1>7, <2>1 DEF Honest
<1>10. PlacesInv /\ ListedInv
  BY <1>1, <1>6 DEF PlacesInv, ListedInv
<1> QED BY <1>8, <1>9, <1>10, SupervisorInit DEF TruthInv, ClientsInv

LEMMA TruthNext == TruthInv /\ [Next]_vars => TruthInv'
<1> SUFFICES ASSUME TruthInv, [Next]_vars PROVE TruthInv'
  OBVIOUS
<1>0. SupervisorInv'
  BY SupervisorStep DEF TruthInv
<1>1. ASSUME NEW c \in Clients, Create(c) \/ Lookup(c) \/ Leave(c) PROVE TruthStep
  BY <1>1, CreateTruth, LookupTruth, LeaveTruth
<1>2. ASSUME NEW c \in Clients, Insert(c) \/ Admit(c) \/ ReadLog(c) \/ EnsureActive(c)
      PROVE TruthStep
  BY <1>2, InsertTruth, AdmitTruth, EnsureTruth
<1>3. ASSUME NEW c \in Clients, Dispatch(c) \/ Reserve(c) \/ TakePlace(c) \/ SendInternal(c)
      PROVE TruthStep
  BY <1>3, DispatchTruth, ReserveTruth, SendInternalTruth
<1>4. ASSUME NEW c \in Clients, MarkDeleting(c) \/ Detach(c) \/ Forget(c) PROVE TruthStep
  BY <1>4, MarkTruth, DetachTruth
<1>5. ASSUME NEW x \in Actors, Common(x) PROVE TruthStep
  BY <1>5, RecoverTruth, ActivateTruth, StopTruth, JoinTruth DEF Common
<1>6. ASSUME NEW id, Handle(id) \/ Work(id) \/ Fail(id) \/ IdleExit(id) \/ Exited(id)
      PROVE TruthStep
  BY <1>6, HandleTruth, WorkTruth, FailTruth, ExitedTruth
<1>7. ASSUME Background \/ Shutdown PROVE TruthStep
  BY <1>7, ScanTruth, DownTruth DEF Background
<1>8. ASSUME UNCHANGED vars PROVE TruthStep
  <2>1. PlainStep
    BY <1>8, GoesAside DEF vars, PlainStep, TruthInv, ClientsInv, PlacesInv
  <2>2. ListedInv'
    BY <1>8 DEF vars, ListedInv, Listed, TruthInv
  <2> QED BY <1>8, <2>1, <2>2, PlainTruth DEF vars
<1>9. TruthStep
  BY <1>1, <1>2, <1>3, <1>4, <1>5, <1>6, <1>7, <1>8 DEF Next, Request
<1> QED BY <1>0, <1>9 DEF TruthInv, TruthStep

LEMMA TruthHolds == Spec => []TruthInv
<1> QED BY TruthInit, TruthNext, PTL DEF Spec

LEMMA TruthOfAll == TruthInv => TruthTold
<1> SUFFICES ASSUME TruthInv PROVE TruthTold
  OBVIOUS
<1>1. Definite
  <2> SUFFICES ASSUME NEW c \in Clients
               PROVE  /\ Times(c) <= 1
                      /\ actors[c].kind \in External /\ actors[c].answer = "ok" => Times(c) = 1
                      /\ actors[c].answer \in Refusals => Times(c) = 0
    BY DEF Definite, Refusals
  <2>1. Honest(c)
    BY DEF TruthInv, ClientsInv
  <2> QED BY <2>1 DEF Honest
<1>2. FinishedHonest
  <2> SUFFICES ASSUME NEW s \in DOMAIN slots, slots[s].finished, log.dir = "live"
               PROVE  log.finished /\ Alive = {}
    BY DEF FinishedHonest
  <2>1. log.finished
    BY DEF TruthInv, ListedInv, Listed
  <2>2. Alive = {}
    BY AliveRuns
  <2> QED BY <2>1, <2>2
<1> QED BY <1>1, <1>2 DEF TruthTold

LEMMA PlacesOfAll == TruthInv => PlacesReturn
<1> SUFFICES ASSUME TruthInv,
                    \A c \in Clients : actors[c].pc \in {"off", "done", "left"},
                    \A ch \in DOMAIN chans : chans[ch].queue = <<>>
             PROVE  Permits = 0
  BY DEF PlacesReturn
<1>1. \A c \in Clients : ~Owed(c)
  BY DEF Owed, Lies
<1>2. \A c \in Clients : ~actors[c].permit
  BY <1>1 DEF TruthInv, ClientsInv, Honest
<1>3. {x \in Actors : actors[x].permit} = {}
  BY <1>2 DEF TruthInv, PlacesInv
<1> QED BY <1>3, FS_EmptySet DEF Permits

\* A command takes effect at most once, has when it was confirmed and has not when
\* it was refused, and a session that is listed as finished is, with no runner:
\* whatever meets the command between its channel and its answer, a full queue,
\* a fault, an idle exit, a restart, a deletion or a client that goes away
\* (dispatch_external, await_response, runner_exited, delete, list).
THEOREM ClientsHearTheTruth == Spec => []TruthTold
<1> QED BY TruthHolds, TruthOfAll, PTL

\* When every request has ended and every channel is empty, no place in the global
\* queue is held, whichever way the requests ended (try_global_capacity: the permit
\* travels with the command).
THEOREM PlacesComeBack == Spec => []PlacesReturn
<1> QED BY TruthHolds, PlacesOfAll, PTL

-----------------------------------------------------------------------------
(* The circuit: what the log counts and what happened.                      *)

\* A fault to be recorded is the first command of its channel, and a channel is
\* passed only from a runner that is gone.
FaultsFirst ==
  \A ch \in DOMAIN chans : \A i \in DOMAIN chans[ch].queue :
    chans[ch].queue[i].what = "fault" => i = 1
Passed ==
  \A i, j \in DOMAIN runners :
    runners[i].chan = runners[j].chan /\ i < j => runners[i].pc = "gone"
ChansInv == FaultsFirst /\ Passed

First(ch) == Head(chans[ch].queue)
Due(ch) == chans[ch].queue # <<>> /\ First(ch).what = "fault"

\* The log has counted every failure, or the last one is still to be recorded.
Even == row = log.streak /\ row.count < FaultLimit
Ahead == row.stage = "loop" /\ row.steps = 0 /\ row.count = NextCount("loop")

\* What is to be recorded is known to whoever records it: the runner that left,
\* the task that rebuilds it, or the new runner's channel.
Faulty(stage) == Ahead /\ stage = "loop"
RunnerCounts(id) ==
  /\ runners[id].pc = "run" /\ Due(runners[id].chan) =>
       Faulty(First(runners[id].chan).stage) /\ First(runners[id].chan).count = row.count
  /\ runners[id].pc = "run" /\ ~Due(runners[id].chan) => Even
  /\ runners[id].pc = "idle" => ~Due(runners[id].chan) /\ Even
  /\ runners[id].pc = "stopped" /\ Mine(id) => Even
  /\ runners[id].pc = "failed" /\ Mine(id) => Faulty(runners[id].stage)

HolderCounts(x) ==
  Holding(x) =>
    /\ x = "rebuild" /\ actors[x].id \in DOMAIN runners => Faulty(runners[actors[x].id].stage)
    /\ x # "rebuild" => Even

Rests(slot) == slot.status \in {"unchecked", "idle"}
Counting == "append" \notin Stages /\ ~stopping /\ log.dir # "detached"
CountsInv ==
  /\ "append" \notin Stages /\ ~stopping =>
       row.count <= FaultLimit /\ (slots = <<>> => Even)
  /\ Counting =>
       /\ \A s \in DOMAIN slots : Rests(slots[s]) => Even
       /\ \A x \in Actors : HolderCounts(x)
       /\ \A id \in DOMAIN runners : RunnerCounts(id)

CircuitInv == SupervisorInv /\ ChansInv /\ CountsInv
CircuitStep == ChansInv' /\ CountsInv'

-----------------------------------------------------------------------------
\* What an action does to the channels.

SameDue ==
  \A ch \in DOMAIN chans : /\ Due(ch)' <=> Due(ch)
                           /\ Due(ch) => First(ch)' = First(ch)

LEMMA DueKept ==
  ASSUME CircuitInv, UNCHANGED chans
  PROVE  SameDue /\ FaultsFirst'
  BY DEF SameDue, Due, First, CircuitInv, ChansInv, FaultsFirst

LEMMA DueSent ==
  ASSUME CircuitInv, NEW k \in DOMAIN chans, NEW command \in CommandSet,
         command.what # "fault", chans' = Sent(k, command)
  PROVE  SameDue /\ FaultsFirst'
<1> DEFINE queue == chans[k].queue
           e == [chans[k] EXCEPT !.queue = Append(queue, command)]
<1>0. chans \in Seq(ChanSet) /\ FaultsFirst
  BY DEF CircuitInv, SupervisorInv, SupervisorTypes, ChansInv
<1>1. chans[k] \in ChanSet
  BY <1>0
<1>2. queue \in Seq(CommandSet) /\ e.queue = Append(queue, command)
  BY <1>1 DEF ChanSet
<1>3. UNCHANGED chans \/ chans' = [chans EXCEPT ![k] = e]
  BY DEF Sent
<1>4. /\ DOMAIN Append(queue, command) = DOMAIN queue \cup {Len(queue) + 1}
      /\ Append(queue, command)[Len(queue) + 1] = command
      /\ \A j \in DOMAIN queue : Append(queue, command)[j] = queue[j]
      /\ Append(queue, command) \in Seq(CommandSet) /\ Len(Append(queue, command)) = Len(queue) + 1
      /\ Len(queue) \in Nat
  BY <1>2, AppendAt, LenProperties
<1>5. /\ Append(queue, command) # <<>>
      /\ queue # <<>> => Head(Append(queue, command)) = Head(queue)
      /\ queue = <<>> => Head(Append(queue, command)) = command
  BY <1>2, <1>4, HeadTailProperties, EmptySeq
<1> HIDE DEF e
<1>6. CASE chans' = [chans EXCEPT ![k] = e]
  <2>1. DOMAIN chans' = DOMAIN chans /\ \A ch \in DOMAIN chans : chans'[ch] = IF ch = k THEN e ELSE chans[ch]
    BY <1>6
  <2>2. FaultsFirst'
    <3> SUFFICES ASSUME NEW ch \in DOMAIN chans', NEW i \in DOMAIN chans'[ch].queue,
                        chans'[ch].queue[i].what = "fault"
                 PROVE  i = 1
      BY DEF FaultsFirst
    <3>1. CASE ch # k
      BY <1>0, <2>1, <3>1 DEF FaultsFirst
    <3>2. CASE ch = k
      <4>1. i \in DOMAIN queue /\ queue[i].what = "fault"
        BY <1>2, <1>4, <2>1, <3>2
      <4> QED BY <1>0, <4>1 DEF FaultsFirst
    <3> QED BY <3>1, <3>2
  <2>3. SameDue
    <3> SUFFICES ASSUME NEW ch \in DOMAIN chans
                 PROVE  (Due(ch)' <=> Due(ch)) /\ (Due(ch) => First(ch)' = First(ch))
      BY DEF SameDue
    <3>1. CASE ch # k
      BY <2>1, <3>1 DEF Due, First
    <3>2. CASE ch = k
      <4>1. chans'[ch].queue = Append(queue, command)
        BY <1>2, <2>1, <3>2
      <4> QED BY <1>5, <3>2, <4>1 DEF Due, First
    <3> QED BY <3>1, <3>2
  <2> QED BY <2>2, <2>3
<1> QED BY <1>3, <1>6, DueKept

LEMMA DueClosed ==
  ASSUME CircuitInv, NEW k \in DOMAIN chans, chans' = Closed(k)
  PROVE  /\ FaultsFirst' /\ ~Due(k)' /\ DOMAIN chans' = DOMAIN chans
         /\ \A ch \in DOMAIN chans : ch # k => /\ Due(ch)' <=> Due(ch)
                                                /\ First(ch)' = First(ch)
<1> DEFINE e == [queue |-> <<>>, open |-> FALSE]
<1>1. chans' = [chans EXCEPT ![k] = e] /\ e.queue = <<>>
  BY DEF Closed
<1> HIDE DEF e
<1>2. DOMAIN chans' = DOMAIN chans /\ \A ch \in DOMAIN chans : chans'[ch] = IF ch = k THEN e ELSE chans[ch]
  BY <1>1
<1>3. FaultsFirst'
  BY <1>1, <1>2 DEF FaultsFirst, CircuitInv, ChansInv
<1>4. ~Due(k)'
  BY <1>1, <1>2 DEF Due
<1>5. \A ch \in DOMAIN chans : ch # k => (Due(ch)' <=> Due(ch)) /\ First(ch)' = First(ch)
  BY <1>2 DEF Due, First
<1> QED BY <1>2, <1>3, <1>4, <1>5

LEMMA DueTaken ==
  ASSUME CircuitInv, NEW k \in DOMAIN chans, chans[k].queue # <<>>,
         chans' = [chans EXCEPT ![k].queue = Tail(@)]
  PROVE  /\ FaultsFirst' /\ ~Due(k)' /\ DOMAIN chans' = DOMAIN chans
         /\ \A ch \in DOMAIN chans : ch # k => /\ Due(ch)' <=> Due(ch)
                                                /\ First(ch)' = First(ch)
<1> DEFINE queue == chans[k].queue
           e == [chans[k] EXCEPT !.queue = Tail(queue)]
<1>0. chans \in Seq(ChanSet) /\ FaultsFirst
  BY DEF CircuitInv, SupervisorInv, SupervisorTypes, ChansInv
<1>1. chans[k] \in ChanSet
  BY <1>0
<1>2. queue \in Seq(CommandSet) /\ e.queue = Tail(queue)
  BY <1>1 DEF ChanSet
<1>3. chans' = [chans EXCEPT ![k] = e]
  OBVIOUS
<1> HIDE DEF e
<1>4. DOMAIN chans' = DOMAIN chans /\ \A ch \in DOMAIN chans : chans'[ch] = IF ch = k THEN e ELSE chans[ch]
  BY <1>3
<1>5. /\ Len(queue) \in Nat /\ DOMAIN queue = 1..Len(queue)
      /\ DOMAIN e.queue = 1..(Len(queue) - 1)
      /\ \A j \in 1..(Len(queue) - 1) : e.queue[j] = queue[j + 1]
      /\ e.queue \in Seq(CommandSet)
  BY <1>2, LenProperties, HeadTailProperties
<1>6. ASSUME NEW j \in DOMAIN e.queue PROVE e.queue[j].what # "fault"
  <2>1. j + 1 \in DOMAIN queue /\ e.queue[j] = queue[j + 1] /\ j + 1 # 1
    BY <1>5
  <2> QED BY <1>0, <2>1 DEF FaultsFirst
<1>7. FaultsFirst'
  BY <1>0, <1>4, <1>6 DEF FaultsFirst
<1>8. ~Due(k)'
  <2>1. CASE e.queue # <<>>
    <3>1. Head(e.queue) = e.queue[1] /\ 1 \in DOMAIN e.queue
      BY <1>5, <2>1, HeadTailProperties, EmptySeq
    <3> QED BY <1>4, <1>6, <3>1 DEF Due, First
  <2>2. CASE e.queue = <<>>
    BY <1>4, <2>2 DEF Due
  <2> QED BY <2>1, <2>2
<1>9. \A ch \in DOMAIN chans : ch # k => (Due(ch)' <=> Due(ch)) /\ First(ch)' = First(ch)
  BY <1>4 DEF Due, First
<1> QED BY <1>4, <1>7, <1>8, <1>9

LEMMA DueMade ==
  ASSUME CircuitInv, NEW e \in ChanSet, Len(e.queue) <= 1, chans' = Append(chans, e)
  PROVE  /\ FaultsFirst' /\ SameDue
         /\ chans'[Len(chans) + 1] = e /\ Len(chans) + 1 \notin DOMAIN chans
<1>0. chans \in Seq(ChanSet) /\ FaultsFirst
  BY DEF CircuitInv, SupervisorInv, SupervisorTypes, ChansInv
<1>1. /\ DOMAIN chans' = DOMAIN chans \cup {Len(chans) + 1} /\ Len(chans) + 1 \notin DOMAIN chans
      /\ chans'[Len(chans) + 1] = e /\ \A ch \in DOMAIN chans : chans'[ch] = chans[ch]
  BY <1>0, AppendAt
<1>2. e.queue \in Seq(CommandSet)
  BY DEF ChanSet
<1>3. \A i \in DOMAIN e.queue : i = 1
  BY <1>2, LenProperties
<1>4. FaultsFirst'
  BY <1>0, <1>1, <1>3 DEF FaultsFirst
<1>5. SameDue
  BY <1>1 DEF SameDue, Due, First
<1> QED BY <1>1, <1>4, <1>5

-----------------------------------------------------------------------------
\* Whoever holds the slot held it before, with the same runner in mind.
Unclaimed ==
  \A x \in Actors : Holding(x)' => Holding(x) /\ actors'[x].id = actors[x].id

LEMMA QuietUnclaimed ==
  ASSUME Quiet(actors')
  PROVE  Unclaimed
<1>1. {"done", "mark", "ensure"} \cap HoldPcs = {}
  BY DEF HoldPcs
<1> QED BY <1>1 DEF Quiet, Unclaimed, Holding, HoldPcs

\* One task goes elsewhere.
LEMMA Strolls ==
  ASSUME SupervisorInv, NEW x \in Actors, NEW all \in [Actors -> ActorSet],
         \A y \in Actors : y # x => all[y] = actors[y],
         all[x].pc \notin HoldPcs \/ (Holding(x) /\ all[x].id = actors[x].id),
         actors' = all \/ \E s : actors' = Notified(all, s)
  PROVE  Unclaimed
<1>0. {"mark", "ensure"} \cap HoldPcs = {}
  BY DEF HoldPcs
<1>1. \A y \in Actors : /\ actors'[y].id = all[y].id
                        /\ actors'[y].pc = all[y].pc \/ actors'[y].pc \in {"mark", "ensure"}
  BY NotifiedReturns
<1> QED BY <1>0, <1>1 DEF Unclaimed, Holding, HoldPcs

LEMMA StrollsGo ==
  ASSUME SupervisorInv, NEW x \in Actors, NEW pc \in Pcs, pc \notin HoldPcs,
         actors' = Go(x, pc) \/ \E s : actors' = Notified(Go(x, pc), s)
  PROVE  Unclaimed
<1> DEFINE all == Go(x, pc)
<1>1. /\ all \in [Actors -> ActorSet] /\ \A y \in Actors : y # x => all[y] = actors[y]
      /\ all[x].pc = pc
  BY GoReturns DEF SupervisorInv, SupervisorTypes
<1>2. actors' = all \/ \E s : actors' = Notified(all, s)
  OBVIOUS
<1> HIDE DEF all
<1> QED BY <1>1, <1>2, Strolls

LEMMA StrollsEnd ==
  ASSUME SupervisorInv, NEW x \in Actors, NEW answer \in Answers,
         actors' = Finish(x, answer) \/ \E s : actors' = Notified(Finish(x, answer), s)
  PROVE  Unclaimed
<1> DEFINE all == Finish(x, answer)
<1>1. /\ all \in [Actors -> ActorSet] /\ \A y \in Actors : y # x => all[y] = actors[y]
      /\ all[x].pc = "done"
  BY FinishReturns DEF SupervisorInv, SupervisorTypes
<1>2. actors' = all \/ \E s : actors' = Notified(all, s)
  OBVIOUS
<1>3. "done" \notin HoldPcs
  BY DEF HoldPcs
<1> HIDE DEF all
<1> QED BY <1>1, <1>2, <1>3, Strolls

\* A task changes what it remembers.
LEMMA StrollsTo ==
  ASSUME SupervisorInv, NEW x \in Actors, NEW v, v.pc \notin HoldPcs,
         actors' = [actors EXCEPT ![x] = v] \/ \E s : actors' = Notified([actors EXCEPT ![x] = v], s) /\ v \in ActorSet
  PROVE  Unclaimed
<1>0. actors \in [Actors -> ActorSet]
  BY DEF SupervisorInv, SupervisorTypes
<1>1. CASE actors' = [actors EXCEPT ![x] = v]
  BY <1>0, <1>1 DEF Unclaimed, Holding, HoldPcs
<1>2. CASE \E s : actors' = Notified([actors EXCEPT ![x] = v], s) /\ v \in ActorSet
  <2> DEFINE all == [actors EXCEPT ![x] = v]
  <2>1. all \in [Actors -> ActorSet] /\ (\A y \in Actors : y # x => all[y] = actors[y]) /\ all[x] = v
    BY <1>0, <1>2
  <2>2. \E s : actors' = Notified(all, s)
    BY <1>2
  <2> HIDE DEF all
  <2> QED BY <2>1, <2>2, Strolls
<1> QED BY <1>1, <1>2

\* Nothing happens that is counted; slots may change.
LEMMA CountsFrom ==
  ASSUME CircuitInv, UNCHANGED <<row, stopping, runners>>, log'.streak = log.streak,
         log'.dir = "detached" \/ log.dir # "detached", SameDue, FaultsFirst',
         slots' = <<>> => slots = <<>>,
         \A s \in DOMAIN slots' : Rests(slots'[s]) =>
            (s \in DOMAIN slots /\ Rests(slots[s])) \/ (Counting => Even),
         \A id \in DOMAIN runners : Mine(id)' => Mine(id),
         \A x \in Actors : Holding(x)' =>
            \/ Holding(x) /\ actors'[x].id = actors[x].id
            \/ x # "rebuild" /\ (Counting => Even)
  PROVE  CircuitStep
<1>1. Passed'
  BY DEF CircuitInv, ChansInv, Passed
<1>2. (Counting' => Counting) /\ (Even' <=> Even) /\ (\A stage : Faulty(stage)' <=> Faulty(stage))
  BY DEF Counting, Even, Faulty, Ahead, NextCount
<1>3. (row.count <= FaultLimit /\ (slots' = <<>> => Even))
      \/ "append" \in Stages \/ stopping
  BY DEF CircuitInv, CountsInv
<1>4. ASSUME Counting' PROVE \A s \in DOMAIN slots' : Rests(slots'[s]) => Even'
  BY <1>2, <1>4 DEF CircuitInv, CountsInv
<1>5. ASSUME Counting', NEW x \in Actors PROVE HolderCounts(x)'
  <2>1. HolderCounts(x)
    BY <1>2, <1>5 DEF CircuitInv, CountsInv
  <2> QED BY <1>2, <1>5, <2>1 DEF HolderCounts
<1>6. ASSUME Counting', NEW id \in DOMAIN runners PROVE RunnerCounts(id)'
  <2>1. RunnerCounts(id) /\ runners[id].chan \in DOMAIN chans
    BY <1>2, <1>6, RunnerAt DEF CircuitInv, CountsInv
  <2> PICK k : k = runners[id].chan
    OBVIOUS
  <2>2. (Due(k)' <=> Due(k)) /\ (Due(k) => First(k)' = First(k))
    BY <2>1 DEF SameDue
  <2> QED BY <1>2, <2>1, <2>2 DEF RunnerCounts
<1> QED BY <1>1, <1>2, <1>3, <1>4, <1>5, <1>6 DEF CircuitStep, ChansInv, CountsInv

LEMMA Calm ==
  ASSUME CircuitInv, UNCHANGED <<row, stopping, runners, slots>>, log'.streak = log.streak,
         log'.dir = "detached" \/ log.dir # "detached", SameDue, FaultsFirst', Unclaimed
  PROVE  CircuitStep
<1>1. \A id \in DOMAIN runners : Mine(id)' => Mine(id)
  BY DEF Mine
<1> QED BY <1>1, CountsFrom DEF Unclaimed

\* In a shutdown failures are not counted.
LEMMA Stops ==
  ASSUME CircuitInv, UNCHANGED <<chans, runners>>, stopping'
  PROVE  CircuitStep
  BY DEF CircuitInv, CircuitStep, ChansInv, FaultsFirst, Passed, CountsInv, Counting

-----------------------------------------------------------------------------
\* Actions of tasks that touch no slot and no runner.

LEMMA Typed ==
  ASSUME CircuitInv
  PROVE  /\ SupervisorInv /\ actors \in [Actors -> ActorSet] /\ Clients \subseteq Actors
         /\ slots \in Seq(SlotSet) /\ runners \in Seq(RunnerSet) /\ chans \in Seq(ChanSet)
         /\ {"scan", "rebuild", "down"} \subseteq Actors \ Clients
         /\ log \in LogSet /\ row \in StreakSet
  BY SupervisorAssumption DEF CircuitInv, SupervisorInv, SupervisorTypes, Actors

LEMMA LookupCounts ==
  ASSUME CircuitInv, NEW c \in Clients, Lookup(c) \/ Admit(c) \/ ReadLog(c) \/ Leave(c)
  PROVE  CircuitStep
<1>0. /\ SupervisorInv /\ c \in Actors /\ actors \in [Actors -> ActorSet] /\ actors[c] \in ActorSet
      /\ UNCHANGED <<row, stopping, runners, slots, chans>>
  BY Typed DEF Lookup, Admit, ReadLog, Leave
<1>1. log'.streak = log.streak /\ (log'.dir = "detached" \/ log.dir # "detached")
  <2>1. log' = log \/ log' = [log EXCEPT !.dir = "detached"]
    BY DEF Lookup, Admit, ReadLog, Leave
  <2>2. log \in LogSet
    BY <1>0 DEF SupervisorInv, SupervisorTypes
  <2> QED BY <2>1, <2>2 DEF LogSet
<1>2. Unclaimed
  <2>1. CASE Lookup(c)
    <3>1. PICK kind \in Kinds \ {"create"} :
            actors' = [actors EXCEPT ![c] =
              [NoActor EXCEPT !.kind = kind, !.at = map,
               !.pc = IF map # 0 THEN "admit" ELSE IF log.dir = "live" THEN "insert" ELSE "done",
               !.answer = IF map = 0 /\ log.dir # "live" THEN "notfound" ELSE "none"]]
      BY <2>1 DEF Lookup
    <3> DEFINE v == [NoActor EXCEPT !.kind = kind, !.at = map,
               !.pc = IF map # 0 THEN "admit" ELSE IF log.dir = "live" THEN "insert" ELSE "done",
               !.answer = IF map = 0 /\ log.dir # "live" THEN "notfound" ELSE "none"]
    <3>2. v.pc \in {"admit", "insert", "done"}
      BY DEF NoActor
    <3>3. v.pc \notin HoldPcs
      BY <3>2 DEF HoldPcs
    <3>4. actors' = [actors EXCEPT ![c] = v]
      BY <3>1
    <3> HIDE DEF v
    <3> QED BY <1>0, <3>3, <3>4, StrollsTo
  <2>2. CASE Admit(c)
    <3>1. CASE actors' = Finish(c, "overloaded")
      BY <1>0, <3>1, IsAt, StrollsEnd
    <3>2. CASE actors' # Finish(c, "overloaded")
      <4> DEFINE permit == actors[c].kind \in External
                 pc == IF actors[c].kind = "delete" THEN "mark"
                       ELSE IF actors[c].kind = "inspect" /\ Slot(c).status = "circuit" THEN "read"
                       ELSE "ensure"
                 v == [actors[c] EXCEPT !.pc = pc, !.permit = permit]
      <4>1. actors' = [actors EXCEPT ![c] = v]
        BY <1>0, <2>2, <3>2 DEF Admit
      <4>2. pc \in {"mark", "read", "ensure"}
        OBVIOUS
      <4> HIDE DEF pc, permit
      <4>3. v.pc = pc
        BY <1>0 DEF ActorSet
      <4>4. pc \notin HoldPcs
        BY <4>2 DEF HoldPcs
      <4> HIDE DEF v
      <4> QED BY <1>0, <4>1, <4>3, <4>4, StrollsTo
    <3> QED BY <3>1, <3>2
  <2>3. CASE ReadLog(c)
    <3>1. PICK answer \in {"ok", "notfound"} : actors' = Finish(c, answer)
      BY <2>3 DEF ReadLog
    <3> QED BY <1>0, <3>1, IsAt, StrollsEnd
  <2>4. CASE Leave(c)
    <3> DEFINE permit == actors[c].permit /\ actors[c].pc = "awaiting"
               v == [Ended(actors[c], "left", actors[c].pc) EXCEPT !.permit = permit]
    <3>1. actors' = [actors EXCEPT ![c] = v] /\ v.pc = "left"
      BY <1>0, <2>4 DEF Leave, Ended, NoActor
    <3>2. "left" \notin HoldPcs
      BY DEF HoldPcs
    <3> HIDE DEF v
    <3> QED BY <1>0, <3>1, <3>2, StrollsTo
  <2> QED BY <2>1, <2>2, <2>3, <2>4
<1> QED BY <1>0, <1>1, <1>2, DueKept, Calm

LEMMA ReserveCounts ==
  ASSUME CircuitInv, NEW x \in Actors,
         (x \in Clients /\ (Reserve(x) \/ TakePlace(x) \/ Detach(x) \/ Forget(x))) \/ Join(x)
  PROVE  CircuitStep
<1>0. /\ SupervisorInv /\ actors \in [Actors -> ActorSet] /\ actors[x] \in ActorSet
      /\ UNCHANGED <<row, stopping, runners, slots, chans>>
  BY Typed DEF Reserve, TakePlace, Detach, Forget, Join
<1>1. log'.streak = log.streak /\ (log'.dir = "detached" \/ log.dir # "detached")
  <2>1. log' = log \/ log' = [log EXCEPT !.dir = "detached"]
    BY DEF Reserve, TakePlace, Detach, Forget, Join
  <2>2. log \in LogSet
    BY <1>0 DEF SupervisorInv, SupervisorTypes
  <2> QED BY <2>1, <2>2 DEF LogSet
<1>2. \/ \E pc \in {"waiting", "ensure", "holding", "next", "detach", "forget"} : actors' = Go(x, pc)
      \/ \E answer \in {"circuit", "unavailable", "deleting", "notfound", "failed", "ok"} : actors' = Finish(x, answer)
      \/ actors' = [actors EXCEPT ![x].pc = "reserving", ![x].id = Slot(x).id, ![x].heard = FALSE]
  BY DEF Reserve, TakePlace, Detach, Forget, Join, Refused
<1>3. {"waiting", "ensure", "holding", "next", "detach", "forget", "reserving"} \cap HoldPcs = {}
  BY DEF HoldPcs
<1>4. Unclaimed
  <2>1. CASE \E pc \in {"waiting", "ensure", "holding", "next", "detach", "forget"} : actors' = Go(x, pc)
    BY <1>0, <1>3, <2>1, IsAt, StrollsGo
  <2>2. CASE \E answer \in {"circuit", "unavailable", "deleting", "notfound", "failed", "ok"} : actors' = Finish(x, answer)
    BY <1>0, <2>2, IsAt, StrollsEnd
  <2>3. CASE actors' = [actors EXCEPT ![x].pc = "reserving", ![x].id = Slot(x).id, ![x].heard = FALSE]
    <3> DEFINE v == [actors[x] EXCEPT !.pc = "reserving", !.id = Slot(x).id, !.heard = FALSE]
    <3>1. v.pc = "reserving" /\ actors' = [actors EXCEPT ![x] = v]
      BY <1>0, <2>3 DEF ActorSet
    <3> HIDE DEF v
    <3> QED BY <1>0, <1>3, <3>1, StrollsTo
  <2> QED BY <1>2, <2>1, <2>2, <2>3
<1> QED BY <1>0, <1>1, <1>4, DueKept, Calm

LEMMA BackgroundCounts ==
  ASSUME CircuitInv, Discover \/ ScanEnded \/ Look \/ Again
  PROVE  CircuitStep
<1>0. /\ SupervisorInv /\ actors \in [Actors -> ActorSet] /\ "scan" \in Actors /\ "down" \in Actors
      /\ UNCHANGED <<log, row, stopping, runners, slots, chans>>
  BY Typed DEF Discover, ScanEnded, Look, Again
<1>1. {"enlist", "look", "stop", "next", "scan"} \cap HoldPcs = {}
  BY DEF HoldPcs
<1>2. Unclaimed
  <2>1. CASE Discover
    <3>1. actors' = Go("scan", "enlist") \/ \E answer \in {"ok", "failed"} : actors' = Finish("scan", answer)
      BY <2>1 DEF Discover
    <3> QED BY <1>0, <1>1, <3>1, IsAt, StrollsGo, StrollsEnd
  <2>2. CASE Look /\ actors' = Go("down", "next")
    BY <1>0, <1>1, <2>2, IsAt, StrollsGo
  <2>3. CASE ScanEnded \/ Again \/ (Look /\ actors' # Go("down", "next"))
    <3>1. actors["down"] \in ActorSet
      BY <1>0
    <3>2. /\ actors'["down"].pc \in {"look", "stop", "scan"}
          /\ \A y \in Actors : y # "down" => actors'[y] = actors[y]
      BY <1>0, <2>3, <3>1 DEF ScanEnded, Again, Look, ActorSet
    <3> QED BY <1>1, <3>2 DEF Unclaimed, Holding, HoldPcs
  <2> QED BY <2>1, <2>2, <2>3
<1> QED BY <1>0, <1>2, DueKept, Calm

LEMMA ShutdownCounts ==
  ASSUME CircuitInv, Shutdown
  PROVE  CircuitStep
  BY Stops DEF Shutdown

\* What is sent is never a fault.
LEMMA DispatchCounts ==
  ASSUME CircuitInv, NEW c \in Clients, Dispatch(c) \/ SendInternal(c)
  PROVE  CircuitStep
<1>0. /\ SupervisorInv /\ c \in Actors /\ actors \in [Actors -> ActorSet] /\ actors[c] \in ActorSet
      /\ UNCHANGED <<log, row, stopping, runners, slots>>
  BY Typed DEF Dispatch, SendInternal
<1>1. \/ \E pc \in {"awaiting", "ensure", "waiting"} : actors' = Go(c, pc)
      \/ \E answer \in {"circuit", "unavailable", "deleting", "full", "ok", "lost"} : actors' = Finish(c, answer)
  BY DEF Dispatch, SendInternal, Refused
<1>2. {"waiting", "ensure", "awaiting"} \cap HoldPcs = {}
  BY DEF HoldPcs
<1>3. Unclaimed
  BY <1>0, <1>1, <1>2, IsAt, StrollsGo, StrollsEnd
<1>4. UNCHANGED chans \/ \E k : chans' = Sent(k, Command(actors[c].kind, c))
  BY DEF Dispatch, SendInternal
<1>5. Command(actors[c].kind, c) \in CommandSet /\ Command(actors[c].kind, c).what # "fault"
  <2>1. actors[c].kind \in AllKinds \cup {"none"} /\ "fault" \notin AllKinds \cup {"none"}
    BY <1>0 DEF ActorSet, AllKinds
  <2>2. Command(actors[c].kind, c).what = actors[c].kind
    BY DEF Command
  <2>3. Command(actors[c].kind, c) \in CommandSet
    BY <1>0, <2>1, CommandTyped
  <2> QED BY <2>1, <2>2, <2>3
<1>6. SameDue /\ FaultsFirst'
  <2>1. CASE UNCHANGED chans
    BY <2>1, DueKept
  <2>2. ASSUME NEW k, chans' = Sent(k, Command(actors[c].kind, c)) PROVE SameDue /\ FaultsFirst'
    <3>1. CASE k \in DOMAIN chans
      BY <1>5, <2>2, <3>1, DueSent
    <3>2. CASE k \notin DOMAIN chans
      <4>1. chans' = chans
        BY <2>2, <3>2, Typed DEF Sent
      <4> QED BY <4>1, DueKept
    <3> QED BY <3>1, <3>2
  <2> QED BY <1>4, <2>1, <2>2
<1> QED BY <1>0, <1>3, <1>6, Calm

LEMMA StopCounts ==
  ASSUME CircuitInv, NEW x \in Actors, SendStop(x)
  PROVE  CircuitStep
<1>0. /\ SupervisorInv /\ actors' = Go(x, "join") /\ "join" \notin HoldPcs
      /\ UNCHANGED <<log, row, stopping, runners, slots>>
  BY Typed DEF SendStop, HoldPcs
<1>1. Unclaimed
  BY <1>0, IsAt, StrollsGo
<1> PICK k : k = runners[actors[x].id].chan
  OBVIOUS
<1>2. chans' = Sent(k, Command("stop", x))
  BY DEF SendStop
<1>3. Command("stop", x).what = "stop" /\ Command("stop", x) \in CommandSet
  BY DEF Command, CommandSet, StageSet
<1>4. SameDue /\ FaultsFirst'
  <2>1. CASE k \in DOMAIN chans
    BY <1>2, <1>3, <2>1, DueSent
  <2>2. CASE k \notin DOMAIN chans
    <3>1. chans' = chans
      BY <1>2, <2>2, Typed DEF Sent
    <3> QED BY <3>1, DueKept
  <2> QED BY <2>1, <2>2
<1> QED BY <1>0, <1>1, <1>4, Calm

-----------------------------------------------------------------------------
\* Slots are made, claimed and given up.

LEMMA EvenBefore ==
  ASSUME CircuitInv, Counting
  PROVE  /\ \A s \in DOMAIN slots : Rests(slots[s]) => Even
         /\ \A x \in Actors : Holding(x) /\ x # "rebuild" => Even
         /\ slots = <<>> => Even
  BY DEF CircuitInv, CountsInv, HolderCounts, Counting

LEMMA SlotChanges ==
  ASSUME CircuitInv, UNCHANGED <<log, row, stopping, runners, chans>>,
         NEW s \in DOMAIN slots, NEW e \in SlotSet, slots' = [slots EXCEPT ![s] = e],
         e.status # "active", Rests(e) => (Counting => Even),
         \A x \in Actors : Holding(x)' =>
            \/ Holding(x) /\ actors'[x].id = actors[x].id
            \/ x # "rebuild" /\ (Counting => Even)
  PROVE  CircuitStep
<1>1. /\ DOMAIN slots' = DOMAIN slots /\ \A j \in DOMAIN slots : slots'[j] = IF j = s THEN e ELSE slots[j]
      /\ slots' \in Seq(SlotSet)
  BY Typed, ExceptAt
<1>2. slots' # <<>>
  BY <1>1
<1>3. \A j \in DOMAIN slots' : Rests(slots'[j]) => (j \in DOMAIN slots /\ Rests(slots[j])) \/ (Counting => Even)
  BY <1>1
<1>4. ASSUME NEW id \in DOMAIN runners, Mine(id)' PROVE Mine(id)
  <2>1. runners[id].at \in DOMAIN slots
    BY <1>4, RunnerAt DEF CircuitInv
  <2> QED BY <1>1, <1>4, <2>1 DEF Mine
<1>5. SameDue /\ FaultsFirst'
  BY DueKept
<1> QED BY <1>2, <1>3, <1>4, <1>5, CountsFrom

LEMMA SlotMade ==
  ASSUME CircuitInv, UNCHANGED <<log, row, stopping, runners, chans>>,
         map = 0, NEW status \in Statuses, status # "active", slots' = Append(slots, NewSlot(status)),
         \A x \in Actors : Holding(x)' =>
            \/ Holding(x) /\ actors'[x].id = actors[x].id
            \/ x # "rebuild" /\ (Counting => Even)
  PROVE  CircuitStep
<1>0. /\ slots \in Seq(SlotSet) /\ SlotsInv /\ 0 \notin DOMAIN slots
  BY Typed, LenProperties DEF CircuitInv, SupervisorInv, OwnerInv
<1>1. NewSlot(status) \in SlotSet /\ NewSlot(status).status = status
  BY DEF NewSlot, SlotSet
<1>2. /\ slots' \in Seq(SlotSet) /\ Len(slots') = Len(slots) + 1
      /\ DOMAIN slots' = DOMAIN slots \cup {Len(slots) + 1}
      /\ \A j \in DOMAIN slots : slots'[j] = slots[j]
  BY <1>0, <1>1, AppendAt
<1>3. slots' # <<>>
  BY <1>0, <1>2, LenProperties
<1>4. ASSUME Counting PROVE Even
  <2>1. DOMAIN slots = {}
    BY <1>0, <1>4 DEF SlotsInv, Counting
  <2>2. slots = <<>>
    BY <1>0, <2>1, EmptySeq, LenProperties
  <2> QED BY <1>4, <2>2, EvenBefore
<1>5. ASSUME NEW id \in DOMAIN runners, Mine(id)' PROVE Mine(id)
  <2>1. runners[id].at \in DOMAIN slots
    BY <1>5, RunnerAt DEF CircuitInv
  <2> QED BY <1>2, <1>5, <2>1 DEF Mine
<1>6. SameDue /\ FaultsFirst'
  BY DueKept
<1> QED BY <1>3, <1>4, <1>5, <1>6, CountsFrom

LEMMA CreateCounts ==
  ASSUME CircuitInv, NEW c \in Clients, Create(c)
  PROVE  CircuitStep
<1>0. /\ slots = <<>> /\ slots' = <<NewSlot("recovering")>>
      /\ UNCHANGED <<log, row, stopping, runners, chans>>
      /\ actors \in [Actors -> ActorSet] /\ c # "rebuild"
  BY Typed DEF Create
<1>1. map = 0
  BY <1>0 DEF CircuitInv, SupervisorInv, SupervisorTypes
<1>2. slots' = Append(slots, NewSlot("recovering")) /\ "recovering" \in Statuses
  BY <1>0 DEF Statuses
<1>3. \A y \in Actors : y # c => actors'[y] = actors[y]
  BY <1>0 DEF Create
<1>4. Counting => Even
  BY <1>0, EvenBefore
<1> QED BY <1>0, <1>1, <1>2, <1>3, <1>4, SlotMade DEF Holding

LEMMA InsertCounts ==
  ASSUME CircuitInv, NEW x \in Actors, (x \in Clients /\ Insert(x)) \/ (x = "scan" /\ Enlist)
  PROVE  CircuitStep
<1>0. /\ UNCHANGED <<log, row, stopping, runners, chans>>
      /\ actors \in [Actors -> ActorSet] /\ SupervisorInv /\ actors[x] \in ActorSet
  BY Typed DEF Insert, Enlist
<1>1. Unclaimed
  <2>1. PICK pc \in {"admit", "check"} : actors' = [actors EXCEPT ![x].pc = pc, ![x].at = map']
    BY DEF Insert, Enlist
  <2> DEFINE v == [actors[x] EXCEPT !.pc = pc, !.at = map']
  <2>2. v.pc = pc /\ actors' = [actors EXCEPT ![x] = v]
    BY <1>0, <2>1 DEF ActorSet
  <2>3. pc \notin HoldPcs
    BY DEF HoldPcs
  <2> HIDE DEF v
  <2> QED BY <1>0, <2>2, <2>3, StrollsTo
<1>2. CASE map = 0
  <2>1. slots' = Append(slots, NewSlot("unchecked")) /\ "unchecked" \in Statuses
    BY <1>2 DEF Insert, Enlist, Statuses
  <2> QED BY <1>0, <1>1, <1>2, <2>1, SlotMade DEF Unclaimed
<1>3. CASE map # 0
  <2>1. UNCHANGED slots
    BY <1>3 DEF Insert, Enlist
  <2> QED BY <1>0, <1>1, <2>1, DueKept, Calm
<1> QED BY <1>2, <1>3

\* Who finds a slot at rest claims it.
LEMMA ClaimCounts ==
  ASSUME CircuitInv, NEW x \in Actors, (x \in Clients /\ EnsureActive(x)) \/ (x = "scan" /\ Check)
  PROVE  CircuitStep
<1>0. /\ UNCHANGED <<log, row, stopping, runners, chans>>
      /\ actors \in [Actors -> ActorSet] /\ SupervisorInv /\ actors[x] \in ActorSet
      /\ actors[x].pc \in PlacedPcs /\ x # "rebuild"
  BY Typed, IsAt DEF EnsureActive, Check
<1>1. actors[x].at \in DOMAIN slots /\ Slot(x) \in SlotSet
  BY <1>0, Placed
<1>2. ASSUME Rests(Slot(x)), \E pc \in {"recover", "glance"} : actors' = Go(x, pc),
             \/ slots' = [slots EXCEPT ![actors[x].at].status = "recovering"]
             \/ slots' = [slots EXCEPT ![actors[x].at].status = "recovering", ![actors[x].at].finished = FALSE]
      PROVE  CircuitStep
  <2> DEFINE f == [Slot(x) EXCEPT !.status = "recovering"]
             g == [Slot(x) EXCEPT !.status = "recovering", !.finished = FALSE]
  <2>1. f \in SlotSet /\ f.status = "recovering" /\ g \in SlotSet /\ g.status = "recovering"
    BY <1>1 DEF SlotSet, Statuses
  <2>2. slots' = [slots EXCEPT ![actors[x].at] = f] \/ slots' = [slots EXCEPT ![actors[x].at] = g]
    BY <1>1, <1>2 DEF Slot
  <2> HIDE DEF f, g
  <2>3. PICK e \in SlotSet : e.status = "recovering" /\ slots' = [slots EXCEPT ![actors[x].at] = e]
    BY <2>1, <2>2
  <2>4. Counting => Even
    BY <1>1, <1>2, EvenBefore DEF Slot
  <2>5. \A y \in Actors : y # x => actors'[y] = actors[y]
    BY <1>0, <1>2, IsAt, GoReturns
  <2>6. ~Rests(e)
    BY <2>3 DEF Rests
  <2> QED BY <1>0, <1>1, <2>3, <2>4, <2>5, <2>6, SlotChanges DEF Holding
<1>3. ASSUME UNCHANGED slots,
             \/ \E pc \in {"dispatch", "reserve", "waiting"} : actors' = Go(x, pc)
             \/ \E answer \in {"ok", "circuit", "unavailable", "deleting"} : actors' = Finish(x, answer)
      PROVE  CircuitStep
  <2>1. {"dispatch", "reserve", "waiting"} \cap HoldPcs = {}
    BY DEF HoldPcs
  <2>2. Unclaimed
    BY <1>0, <1>3, <2>1, IsAt, StrollsGo, StrollsEnd
  <2> QED BY <1>0, <1>3, <2>2, DueKept, Calm
<1>4. CASE x \in Clients /\ EnsureActive(x)
  <2>1. Slot(x).status \in Statuses
    BY <1>1 DEF SlotSet
  <2>2. CASE Rests(Slot(x))
    BY <1>2, <1>4, <2>2 DEF EnsureActive, Rests
  <2>3. CASE ~Rests(Slot(x))
    <3>1. UNCHANGED slots /\ Slot(x).status \in {"recovering", "active", "circuit", "unavailable", "deleting"}
      BY <1>4, <2>1, <2>3 DEF EnsureActive, Rests, Statuses
    <3> QED BY <1>3, <1>4, <3>1 DEF EnsureActive, Sends
  <2> QED BY <2>2, <2>3
<1>5. CASE x = "scan" /\ Check
  BY <1>2, <1>3, <1>5 DEF Check, Rests
<1> QED BY <1>4, <1>5

LEMMA MarkCounts ==
  ASSUME CircuitInv, NEW c \in Clients, MarkDeleting(c)
  PROVE  CircuitStep
<1>0. /\ UNCHANGED <<log, row, stopping, runners, chans>> /\ c \in Actors
      /\ actors \in [Actors -> ActorSet] /\ SupervisorInv /\ actors[c] \in ActorSet
      /\ actors[c].pc \in PlacedPcs
  BY Typed, IsAt DEF MarkDeleting
<1>1. actors[c].at \in DOMAIN slots /\ Slot(c) \in SlotSet
  BY <1>0, Placed
<1>2. {"stop", "detach", "waiting"} \cap HoldPcs = {}
  BY DEF HoldPcs
<1>3. CASE Slot(c).status \in {"recovering", "deleting"}
  <2>1. UNCHANGED slots /\ (actors' = Go(c, "waiting") \/ actors' = Finish(c, "deleting"))
    BY <1>3 DEF MarkDeleting
  <2>2. Unclaimed
    BY <1>0, <1>2, <2>1, IsAt, StrollsGo, StrollsEnd
  <2> QED BY <1>0, <2>1, <2>2, DueKept, Calm
<1>4. CASE Slot(c).status \notin {"recovering", "deleting"}
  <2> DEFINE e == [Slot(c) EXCEPT !.status = "deleting", !.finished = FALSE]
             v == [actors[c] EXCEPT !.pc = IF Slot(c).status = "active" THEN "stop" ELSE "detach",
                                    !.id = Slot(c).id]
  <2>1. slots' = [slots EXCEPT ![actors[c].at] = e]
    BY <1>1, <1>4 DEF MarkDeleting, Slot
  <2>2. e \in SlotSet /\ e.status = "deleting"
    BY <1>1 DEF SlotSet, Statuses
  <2>3. Slot(c).id \in Nat
    BY <1>1 DEF SlotSet
  <2>4. v \in ActorSet /\ v.pc \in {"stop", "detach"}
    BY <1>0, <2>3, IsAt DEF ActorSet
  <2>5. actors' = Notified([actors EXCEPT ![c] = v], actors[c].at)
    BY <1>0, <1>4 DEF MarkDeleting
  <2>6. ~Rests(e) /\ e.status # "active"
    BY <2>2 DEF Rests
  <2> HIDE DEF e, v
  <2>7. Unclaimed
    BY <1>0, <1>2, <2>4, <2>5, StrollsTo
  <2> QED BY <1>0, <1>1, <2>1, <2>2, <2>6, <2>7, SlotChanges DEF Unclaimed
<1> QED BY <1>3, <1>4

\* A recovery goes on, or ends without a runner.
LEMMA RecoverCounts ==
  ASSUME CircuitInv, NEW x \in Actors, Recover(x) \/ RecoveryFails(x) \/ (x = "scan" /\ Glance)
  PROVE  CircuitStep
<1>0. /\ UNCHANGED <<log, row, stopping, runners, chans>> /\ Holding(x) /\ "rebuild" # "scan"
      /\ actors \in [Actors -> ActorSet] /\ SupervisorInv
      /\ actors[x].pc \in PlacedPcs
  BY Typed, IsAt DEF Recover, RecoveryFails, Glance, Holding
<1>1. actors[x].at \in DOMAIN slots /\ Slot(x) \in SlotSet
  BY <1>0, Placed
<1>2. ASSUME UNCHANGED slots, NEW pc \in {"activate", "recover"}, actors' = Go(x, pc)
      PROVE  CircuitStep
  <2>1. pc \in Pcs /\ pc \notin Forgetful
    BY IsAt DEF Forgetful
  <2>2. Unclaimed
    BY <1>0, <1>2, <2>1, GoReturns DEF Unclaimed, Holding
  <2> QED BY <1>0, <1>2, <2>2, DueKept, Calm
<1>3. ASSUME NEW e \in SlotSet, slots' = [slots EXCEPT ![actors[x].at] = e],
             e.status = "unavailable" \/ (e.status = "idle" /\ x = "scan"),
             \E answer \in {"ok", "unavailable"} : \E s : actors' = Notified(Finish(x, answer), s)
      PROVE  CircuitStep
  <2>1. Unclaimed
    BY <1>0, <1>3, IsAt, StrollsEnd
  <2>2. Rests(e) => (Counting => Even)
    BY <1>0, <1>3, EvenBefore DEF Rests
  <2> QED BY <1>0, <1>1, <1>3, <2>1, <2>2, SlotChanges DEF Unclaimed
<1>4. CASE Recover(x)
  BY <1>2, <1>4 DEF Recover
<1>5. CASE RecoveryFails(x)
  <2> DEFINE e == [Slot(x) EXCEPT !.status = "unavailable"]
  <2>1. slots' = [slots EXCEPT ![actors[x].at] = e]
    BY <1>1, <1>5 DEF RecoveryFails, Slot
  <2>2. e \in SlotSet /\ e.status = "unavailable"
    BY <1>1 DEF SlotSet, Statuses
  <2>3. actors' = Notified(Finish(x, "unavailable"), actors[x].at)
    BY <1>5 DEF RecoveryFails
  <2> HIDE DEF e
  <2> QED BY <1>3, <2>1, <2>2, <2>3
<1>6. CASE x = "scan" /\ Glance
  <2>1. CASE log.dir = "live" /\ (log.finished \/ ~log.work)
    <3> DEFINE e == [Slot(x) EXCEPT !.status = "idle", !.finished = log.finished]
    <3>1. slots' = [slots EXCEPT ![actors[x].at] = e]
      BY <1>1, <1>6, <2>1 DEF Glance, Slot
    <3>2. e \in SlotSet /\ e.status = "idle"
      BY <1>1, Typed DEF SlotSet, Statuses, LogSet
    <3>3. actors' = Notified(Finish(x, "ok"), actors[x].at)
      BY <1>6, <2>1 DEF Glance
    <3> HIDE DEF e
    <3> QED BY <1>3, <1>6, <3>1, <3>2, <3>3
  <2>2. CASE ~(log.dir = "live" /\ (log.finished \/ ~log.work))
    BY <1>2, <1>6, <2>2 DEF Glance
  <2> QED BY <2>1, <2>2
<1> QED BY <1>4, <1>5, <1>6

-----------------------------------------------------------------------------
\* Runners.

LEMMA AliveOnly ==
  ASSUME CircuitInv, NEW id \in Alive
  PROVE  /\ id \in DOMAIN runners /\ runners[id].pc \in {"run", "idle"}
         /\ log.dir # "detached" /\ slots # <<>> /\ \A x \in Actors : ~Holding(x)
         /\ \A s \in DOMAIN slots : ~Rests(slots[s])
         /\ \A j \in DOMAIN runners : j # id => j \notin Alive /\ ~Mine(j)
<1>1. /\ id \in DOMAIN runners /\ runners[id].pc \in {"run", "idle"}
  BY DEF Alive
<1>2. log.dir # "detached" /\ runners[id].at \in DOMAIN slots
  BY <1>1, RunnerAt DEF CircuitInv
<1>3. DOMAIN slots = {map} /\ runners[id].at = map
  BY <1>2 DEF CircuitInv, SupervisorInv, OwnerInv, SlotsInv
<1>4. slots[map].status \in {"active", "deleting"} /\ slots[map].id = id
  BY <1>1, <1>3 DEF CircuitInv, SupervisorInv, OwnerInv, RunnersInv
<1>5. \A x \in Actors : ~Holding(x)
  BY Alone DEF CircuitInv
<1>6. \A j \in DOMAIN runners : j # id => j \notin Alive /\ ~Mine(j)
  BY <1>3, <1>4, RunnerAt DEF CircuitInv, SupervisorInv, OwnerInv, RunnersInv, Mine
<1>7. slots # <<>> /\ \A s \in DOMAIN slots : ~Rests(slots[s])
  <2>1. slots # <<>>
    BY <1>3
  <2>2. slots[map].status \notin {"unchecked", "idle"}
    BY <1>4
  <2> QED BY <1>3, <2>1, <2>2 DEF Rests
<1> QED BY <1>1, <1>2, <1>5, <1>6, <1>7

\* The runner that is alive does something: only its own counts matter.
LEMMA OneCounts ==
  ASSUME CircuitInv, NEW id \in Alive, UNCHANGED <<slots, stopping>>, Unclaimed, FaultsFirst',
         NEW r, runners' = [runners EXCEPT ![id] = r],
         r.chan = runners[id].chan, r.at = runners[id].at,
         Counting => row'.count <= FaultLimit /\ RunnerCounts(id)'
  PROVE  CircuitStep
<1>0. runners \in Seq(RunnerSet) /\ Passed
  BY Typed DEF CircuitInv, ChansInv
<1>1. /\ DOMAIN runners' = DOMAIN runners
      /\ \A j \in DOMAIN runners : runners'[j] = IF j = id THEN r ELSE runners[j]
  BY <1>0
<1>2. /\ id \in DOMAIN runners /\ runners[id].pc \in {"run", "idle"}
      /\ log.dir # "detached" /\ slots # <<>> /\ \A x \in Actors : ~Holding(x)
      /\ \A s \in DOMAIN slots : ~Rests(slots[s])
      /\ \A j \in DOMAIN runners : j # id => j \notin Alive /\ ~Mine(j)
  BY AliveOnly
<1>3. Passed'
  BY <1>0, <1>1, <1>2 DEF Passed
<1>4. Counting' => Counting
  BY <1>2 DEF Counting
<1>5. ASSUME NEW j \in DOMAIN runners, j # id PROVE RunnerCounts(j)'
  <2>1. runners[j].pc \notin {"run", "idle"} /\ ~Mine(j)
    BY <1>2, <1>5 DEF Alive
  <2>2. runners'[j].pc \notin {"run", "idle"} /\ ~Mine(j)'
    BY <1>1, <1>5, <2>1 DEF Mine
  <2> QED BY <2>2 DEF RunnerCounts
<1>6. \A x \in Actors : HolderCounts(x)'
  BY <1>2 DEF HolderCounts, Unclaimed
<1>7. "append" \notin Stages /\ ~stopping' => row'.count <= FaultLimit /\ slots' # <<>>
  BY <1>2 DEF Counting
<1>8. Counting' => \A j \in DOMAIN runners' : RunnerCounts(j)'
  BY <1>1, <1>4, <1>5
<1>9. \A s \in DOMAIN slots' : ~Rests(slots'[s])
  BY <1>2
<1> QED BY <1>3, <1>6, <1>7, <1>8, <1>9 DEF CircuitStep, ChansInv, CountsInv

\* What a runner that runs has counted.
LEMMA RunCounts ==
  ASSUME CircuitInv, NEW id, Runs(id)
  PROVE  /\ id \in Alive /\ id \in DOMAIN runners /\ runners[id].chan \in DOMAIN chans
         /\ Owes(id) <=> Due(runners[id].chan)
         /\ Counting => /\ row.count <= FaultLimit
                        /\ ~Due(runners[id].chan) => Even
                        /\ Due(runners[id].chan) => /\ Faulty(First(runners[id].chan).stage)
                                                    /\ First(runners[id].chan).count = row.count
<1>1. id \in Alive /\ id \in DOMAIN runners /\ runners[id].pc = "run"
  BY DEF Runs, Alive
<1>2. runners[id].chan \in DOMAIN chans
  BY <1>1, RunnerAt DEF CircuitInv
<1>3. Owes(id) <=> Due(runners[id].chan)
  BY DEF Owes, Due, First
<1>4. Counting => row.count <= FaultLimit /\ RunnerCounts(id)
  BY <1>1 DEF CircuitInv, CountsInv, Counting
<1> QED BY <1>1, <1>2, <1>3, <1>4 DEF RunnerCounts

LEMMA AfterStepCounts ==
  ASSUME row \in StreakSet, Even, row' = AfterStep(row), log'.streak = AfterStep(log.streak)
  PROVE  Even' /\ row'.count <= FaultLimit
<1>1. FaultLimit \in Nat /\ FaultLimit > 0
  BY SupervisorAssumption
<1>2. row' = log'.streak
  BY DEF Even
<1>3. row.count \in Nat /\ row.count < FaultLimit
  BY DEF StreakSet, Even
<1>4. row'.count = 0 \/ row'.count = row.count
  <2>1. NoStreak.count = 0
    BY DEF NoStreak
  <2>2. [row EXCEPT !.steps = 1].count = row.count
    BY DEF StreakSet
  <2> QED BY <2>1, <2>2 DEF AfterStep
<1>5. row'.count < FaultLimit /\ row'.count <= FaultLimit
  BY <1>1, <1>3, <1>4
<1> QED BY <1>2, <1>5 DEF Even

LEMMA WorkCounts ==
  ASSUME CircuitInv, NEW id, Work(id) \/ IdleExit(id)
  PROVE  CircuitStep
<1>0. /\ Runs(id) /\ ~Owes(id) /\ UNCHANGED <<slots, stopping, chans, actors>>
      /\ row \in StreakSet /\ log \in LogSet /\ runners \in Seq(RunnerSet)
  BY Typed DEF Work, IdleExit
<1>1. /\ id \in Alive /\ id \in DOMAIN runners /\ ~Due(runners[id].chan)
      /\ Counting => row.count <= FaultLimit /\ Even
  BY <1>0, RunCounts
<1>2. FaultsFirst' /\ SameDue /\ Unclaimed
  BY <1>0, DueKept DEF Unclaimed, Holding
<1>3. Counting => row'.count <= FaultLimit /\ Even'
  <2>1. CASE log' = [log EXCEPT !.streak = AfterStep(log.streak)] /\ row' = AfterStep(row)
    <3>1. log'.streak = AfterStep(log.streak)
      BY <1>0, <2>1 DEF LogSet
    <3> QED BY <1>0, <1>1, <2>1, <3>1, AfterStepCounts
  <2>2. CASE log'.streak = log.streak /\ row' = row
    BY <1>1, <2>2 DEF Even
  <2>3. Work(id) => \/ log' = [log EXCEPT !.streak = AfterStep(log.streak)] /\ row' = AfterStep(row)
                    \/ log' = [log EXCEPT !.work = FALSE, !.finished = TRUE] /\ row' = row
    BY DEF Work
  <2>4. [log EXCEPT !.work = FALSE, !.finished = TRUE].streak = log.streak
    BY <1>0 DEF LogSet
  <2> QED BY <2>1, <2>2, <2>3, <2>4 DEF IdleExit
<1> PICK k : k = runners[id].chan
  OBVIOUS
<1>4. ~Due(k)'
  BY <1>0, <1>1 DEF Due, First
<1>5. runners[id] \in RunnerSet
  BY <1>0, <1>1
<1> DEFINE left == [runners[id] EXCEPT !.pc = "idle", !.stage = "none"]
<1>6. left.pc = "idle" /\ left.chan = k /\ left.at = runners[id].at
  BY <1>5 DEF RunnerSet
<1>7. PICK r : /\ runners' = [runners EXCEPT ![id] = r] /\ r.pc \in {"run", "idle"}
               /\ r.chan = k /\ r.at = runners[id].at
  <2>1. CASE Work(id)
    <3>1. runners' = [runners EXCEPT ![id] = runners[id]]
      BY <1>0, <2>1 DEF Work
    <3> QED BY <1>0, <3>1 DEF Runs
  <2>2. CASE IdleExit(id)
    <3>1. runners' = [runners EXCEPT ![id] = left]
      BY <1>0, <1>1, <2>2 DEF IdleExit, Left
    <3> HIDE DEF left
    <3> QED BY <1>6, <3>1
  <2> QED BY <2>1, <2>2
<1>8. Counting => RunnerCounts(id)'
  <2>1. runners'[id] = r
    BY <1>0, <1>1, <1>7
  <2> QED BY <1>3, <1>4, <1>7, <2>1 DEF RunnerCounts
<1> QED BY <1>0, <1>1, <1>2, <1>3, <1>7, <1>8, OneCounts

LEMMA HandleCounts ==
  ASSUME CircuitInv, NEW id, Handle(id)
  PROVE  CircuitStep
<1>0. /\ Runs(id) /\ UNCHANGED <<slots, stopping, row>>
      /\ row \in StreakSet /\ log \in LogSet /\ runners \in Seq(RunnerSet)
      /\ chans \in Seq(ChanSet) /\ actors \in [Actors -> ActorSet]
  BY Typed DEF Handle
<1> PICK k : k = runners[id].chan
  OBVIOUS
<1> DEFINE queue == chans[k].queue
           command == First(k)
           ends == command.what = "stop" \/ Opens(command)
<1>1. /\ id \in Alive /\ id \in DOMAIN runners /\ k \in DOMAIN chans
      /\ Counting => /\ row.count <= FaultLimit
                     /\ ~Due(k) => Even
                     /\ Due(k) => Faulty(command.stage) /\ command.count = row.count
  BY <1>0, RunCounts
<1>2. /\ queue # <<>> /\ log' = Effect(command)
      /\ chans' = IF ends THEN Closed(k) ELSE [chans EXCEPT ![k].queue = Tail(@)]
      /\ IF ends THEN Left(id, IF command.what = "stop" THEN "stopped" ELSE "circuit", "none")
         ELSE UNCHANGED runners
  BY DEF Handle, First
<1>3. FaultsFirst' /\ ~Due(k)'
  <2>1. CASE ends
    BY <1>1, <1>2, <2>1, DueClosed
  <2>2. CASE ~ends
    BY <1>1, <1>2, <2>2, DueTaken
  <2> QED BY <2>1, <2>2
<1>4. Unclaimed
  <2> DEFINE rest == IF ends THEN Dropped(actors, Tail(queue)) ELSE actors
             from == command.from
  <2>1. Quiet(rest)
    BY <1>0, QuietDropped
  <2>2. actors' = IF from \notin Clients \/ rest[from].pc # "awaiting"
                  THEN IF from \in Clients THEN [rest EXCEPT ![from].permit = FALSE] ELSE rest
                  ELSE [rest EXCEPT ![from] = Ended(rest[from], "done", "ok")]
    BY DEF Handle, First
  <2> HIDE DEF rest, from
  <2>3. from \in Clients => from \in Actors
    BY DEF Actors
  <2>4. \/ actors' = rest
        \/ from \in Actors /\ actors' = [rest EXCEPT ![from].permit = FALSE]
        \/ from \in Actors /\ actors' = [rest EXCEPT ![from] = Ended(rest[from], "done", "ok")]
    BY <2>2, <2>3
  <2> QED BY <2>1, <2>4, QuietSettled, QuietUnclaimed
<1>5. Due(k) <=> command.what = "fault"
  BY <1>2 DEF Due
<1>6. command.what # "fault" => log'.streak = log.streak
  BY <1>0, <1>2 DEF Effect, LogSet
<1>7. command.what = "fault" => log'.streak = [stage |-> command.stage, count |-> command.count, steps |-> 0]
  BY <1>0, <1>2 DEF Effect, LogSet
<1>8. Counting /\ ~Opens(command) => Even'
  <2>1. CASE command.what # "fault"
    BY <1>0, <1>1, <1>5, <1>6, <2>1 DEF Even
  <2>2. ASSUME command.what = "fault", Counting, ~Opens(command) PROVE Even'
    <3>1. /\ row.stage = "loop" /\ command.stage = "loop" /\ row.steps = 0
          /\ command.count = row.count
      BY <1>1, <1>5, <2>2 DEF Faulty, Ahead
    <3>2. row = [stage |-> "loop", count |-> row.count, steps |-> 0]
      BY <1>0, <3>1 DEF StreakSet
    <3>3. log'.streak = row
      BY <1>7, <2>2, <3>1, <3>2
    <3>4. row.count < FaultLimit
      <4>1. row.count \in Nat /\ FaultLimit \in Nat
        BY <1>0, SupervisorAssumption DEF StreakSet
      <4>2. ~(command.count >= FaultLimit)
        BY <2>2 DEF Opens
      <4> QED BY <3>1, <4>1, <4>2
    <3> QED BY <1>0, <3>3, <3>4 DEF Even
  <2> QED BY <2>1, <2>2
<1>9. PICK r : /\ runners' = [runners EXCEPT ![id] = r] /\ r.chan = k /\ r.at = runners[id].at
               /\ \/ ~ends /\ r.pc = "run"
                  \/ command.what = "stop" /\ r.pc = "stopped"
                  \/ r.pc = "circuit"
  <2>1. runners[id] \in RunnerSet
    BY <1>0, <1>1
  <2>2. CASE ends
    <3> DEFINE how == IF command.what = "stop" THEN "stopped" ELSE "circuit"
               left == [runners[id] EXCEPT !.pc = how, !.stage = "none"]
    <3>1. runners' = [runners EXCEPT ![id] = left]
      BY <1>0, <1>1, <1>2, <2>2 DEF Left
    <3>2. left.pc = how /\ left.chan = k /\ left.at = runners[id].at
      BY <2>1 DEF RunnerSet
    <3>3. (command.what = "stop" /\ how = "stopped") \/ how = "circuit"
      OBVIOUS
    <3> HIDE DEF left, how
    <3> QED BY <3>1, <3>2, <3>3
  <2>3. CASE ~ends
    <3>1. runners' = runners
      BY <1>2, <2>3
    <3>2. runners' = [runners EXCEPT ![id] = runners[id]]
      BY ONLY <1>0, <3>1
    <3> HIDE DEF ends
    <3> QED BY <1>0, <2>3, <3>2 DEF Runs
  <2> QED BY <2>2, <2>3
<1>10. Counting => RunnerCounts(id)'
  <2>1. runners'[id] = r
    BY <1>0, <1>1, <1>9
  <2>2. ~ends \/ command.what = "stop" => ~Opens(command)
    BY DEF Opens
  <2> HIDE DEF ends, command
  <2> QED BY <1>3, <1>8, <1>9, <2>1, <2>2 DEF RunnerCounts
<1> HIDE DEF ends, command, queue
<1> QED BY <1>0, <1>1, <1>3, <1>4, <1>9, <1>10, OneCounts

LEMMA FailCounts ==
  ASSUME CircuitInv, NEW id, Fail(id)
  PROVE  CircuitStep
<1>0. /\ Runs(id) /\ UNCHANGED <<slots, stopping>>
      /\ row \in StreakSet /\ log \in LogSet /\ runners \in Seq(RunnerSet)
      /\ actors \in [Actors -> ActorSet]
  BY Typed DEF Fail
<1> PICK k : k = runners[id].chan
  OBVIOUS
<1>1. /\ id \in Alive /\ id \in DOMAIN runners /\ k \in DOMAIN chans
      /\ Owes(id) <=> Due(k)
      /\ Counting => row.count <= FaultLimit /\ (~Due(k) => Even)
  BY <1>0, RunCounts
<1>2. chans' = Closed(k) /\ actors' = Dropped(actors, chans[k].queue)
  BY DEF Fail
<1>3. FaultsFirst' /\ ~Due(k)' /\ Unclaimed
  BY <1>0, <1>1, <1>2, DueClosed, QuietDropped, QuietUnclaimed
<1>4. PICK stage : /\ stage \in Stages /\ Left(id, "failed", stage)
                   /\ row' = [stage |-> stage, count |-> IF row.stage = stage THEN row.count + 1 ELSE 1, steps |-> 0]
                   /\ (stage = "loop" /\ ~Owes(id) /\ UNCHANGED log) \/ stage = "append"
  BY DEF Fail, Breaks
<1> DEFINE r == [runners[id] EXCEPT !.pc = "failed", !.stage = stage]
<1>5. runners[id] \in RunnerSet
  BY <1>0, <1>1
<1>6. runners' = [runners EXCEPT ![id] = r] /\ r.pc = "failed" /\ r.stage = stage /\ r.chan = k /\ r.at = runners[id].at
  <2>1. runners' = [runners EXCEPT ![id] = r]
    BY <1>0, <1>1, <1>4 DEF Left
  <2>2. r.pc = "failed" /\ r.stage = stage /\ r.chan = k /\ r.at = runners[id].at
    BY <1>5 DEF RunnerSet
  <2> QED BY <2>1, <2>2
<1> HIDE DEF r
<1>7. ASSUME Counting PROVE row'.count <= FaultLimit /\ Faulty(stage)'
  <2>1. stage = "loop" /\ Even /\ UNCHANGED log
    BY <1>1, <1>4, <1>7 DEF Counting
  <2>2. row.count \in Nat /\ FaultLimit \in Nat \ {0} /\ row.count < FaultLimit /\ row = log.streak
    BY <1>0, <2>1, SupervisorAssumption DEF StreakSet, Even
  <2>3. /\ row'.stage = "loop" /\ row'.steps = 0
        /\ row'.count = IF row.stage = "loop" THEN row.count + 1 ELSE 1
    BY <1>4, <2>1
  <2>4. row'.count <= FaultLimit
    BY <2>2, <2>3
  <2>5. row'.count = NextCount("loop")'
    BY <2>1, <2>2, <2>3 DEF NextCount
  <2> QED BY <2>1, <2>3, <2>4, <2>5 DEF Faulty, Ahead
<1>8. Counting => row'.count <= FaultLimit /\ RunnerCounts(id)'
  <2>1. runners'[id] = r
    BY <1>0, <1>1, <1>6
  <2> QED BY <1>6, <1>7, <2>1 DEF RunnerCounts
<1> QED BY <1>0, <1>1, <1>3, <1>6, <1>8, OneCounts

LEMMA ActivateCounts ==
  ASSUME CircuitInv, NEW x \in Actors, Activate(x)
  PROVE  CircuitStep
<1> PICK stage : stage = runners[actors[x].id].stage
  OBVIOUS
<1> PICK k : k = Len(chans) + 1
  OBVIOUS
<1> PICK id : id = Len(runners) + 1
  OBVIOUS
<1> PICK s : s = actors[x].at
  OBVIOUS
<1> PICK count : count = NextCount(stage)
  OBVIOUS
<1> DEFINE first == [queue |-> IF x = "rebuild" THEN <<Fault(stage, count)>> ELSE <<>>,
                     open |-> TRUE]
           e == [status |-> "active", id |-> id, chan |-> k, finished |-> FALSE]
           r == [pc |-> "run", at |-> s, chan |-> k, stage |-> "none"]
<1>0. /\ SupervisorInv /\ slots \in Seq(SlotSet) /\ runners \in Seq(RunnerSet) /\ chans \in Seq(ChanSet)
      /\ actors \in [Actors -> ActorSet] /\ actors[x].pc = "activate" /\ Holding(x)
      /\ UNCHANGED <<log, stopping, row>> /\ Passed
  BY Typed DEF Activate, Holding, CircuitInv, ChansInv
<1>1. /\ s = map /\ map \in DOMAIN slots /\ (\A y \in Actors : Holding(y) => y = x)
      /\ Alive = {} /\ log.dir # "detached"
  BY <1>0, Alone DEF SupervisorInv, OwnerInv, HoldersInv
<1>2. DOMAIN slots = {map}
  BY <1>1 DEF CircuitInv, SupervisorInv, OwnerInv, SlotsInv
<1>3. first \in ChanSet
  BY <1>0, FirstTyped
<1>4. Len(first.queue) <= 1 /\ (x # "rebuild" => first.queue = <<>>)
  <2>1. Len(<<Fault(stage, count)>>) = 1
    OBVIOUS
  <2>2. CASE x = "rebuild"
    BY <2>1, <2>2
  <2>3. CASE x # "rebuild"
    BY <2>3
  <2> QED BY <2>2, <2>3
<1>5. chans' = Append(chans, first)
  BY DEF Activate
<1>6. x = "rebuild" => /\ first.queue # <<>> /\ Head(first.queue).what = "fault"
                       /\ Head(first.queue).stage = stage /\ Head(first.queue).count = count
  BY DEF Fault
<1> HIDE DEF first
<1>7. /\ FaultsFirst' /\ SameDue /\ chans'[k] = first /\ k \notin DOMAIN chans /\ Len(chans') = k
  BY <1>0, <1>3, <1>4, <1>5, DueMade, AppendAt
<1>8. runners' = Append(runners, r) /\ slots' = [slots EXCEPT ![map] = e]
  BY <1>1, <1>7 DEF Activate, Spawned
<1>9. r \in RunnerSet /\ r.pc = "run" /\ r.chan = k /\ r.at = map
  <2>1. k \in Nat /\ map \in Nat
    BY <1>0, <1>1, LenProperties
  <2> QED BY <1>1, <2>1 DEF RunnerSet, StageSet
<1>10. e.status = "active" /\ e.id = id
  OBVIOUS
<1> HIDE DEF r, e
<1>11. /\ DOMAIN runners' = DOMAIN runners \cup {id} /\ runners'[id] = r /\ id \notin DOMAIN runners
       /\ \A j \in DOMAIN runners : runners'[j] = runners[j] /\ j < id
       /\ slots' # <<>> /\ DOMAIN slots' = {map} /\ slots'[map] = e
  <2>1. /\ DOMAIN runners' = DOMAIN runners \cup {id} /\ runners'[id] = r /\ id \notin DOMAIN runners
        /\ \A j \in DOMAIN runners : runners'[j] = runners[j]
    BY <1>0, <1>8, <1>9, AppendAt
  <2>2. \A j \in DOMAIN runners : j < id
    BY <1>0, LenProperties
  <2>3. DOMAIN slots' = {map} /\ slots'[map] = e
    BY <1>2, <1>8
  <2>4. slots' # <<>>
    <3>1. map \in DOMAIN slots'
      BY <2>3
    <3>2. DOMAIN <<>> = {}
      OBVIOUS
    <3> QED BY <3>1, <3>2
  <2> QED BY <2>1, <2>2, <2>3, <2>4
<1>12. \A y \in Actors : ~Holding(y)'
  <2>1. {"done", "mark", "ensure", "dispatch", "reserve"} \cap HoldPcs = {}
    BY DEF HoldPcs
  <2>2. PICK pc \in {"dispatch", "reserve"} :
          actors' = Notified(IF x \in Clients THEN Go(x, pc) ELSE Finish(x, "ok"), s)
    BY DEF Activate, Sends
  <2>3. Unclaimed
    BY <1>0, <2>1, <2>2, IsAt, StrollsGo, StrollsEnd
  <2>4. ~Holding(x)'
    <3> DEFINE all == IF x \in Clients THEN Go(x, pc) ELSE Finish(x, "ok")
    <3>1. all \in [Actors -> ActorSet] /\ all[x].pc \in {pc, "done"}
      BY <1>0, IsAt, GoReturns, FinishReturns
    <3>2. actors' = Notified(all, s)
      BY <2>2
    <3> HIDE DEF all
    <3>3. actors'[x].pc \in {"dispatch", "reserve", "done", "mark", "ensure"}
      BY <3>1, <3>2, NotifiedReturns
    <3> QED BY <2>1, <3>3 DEF Holding, HoldPcs
  <2> QED BY <1>1, <2>3, <2>4 DEF Unclaimed
<1>13. Passed'
  <2> SUFFICES ASSUME NEW i \in DOMAIN runners', NEW j \in DOMAIN runners',
                      runners'[i].chan = runners'[j].chan, i < j
               PROVE  runners'[i].pc = "gone"
    BY DEF Passed
  <2>1. i \in DOMAIN runners /\ runners[i].chan \in DOMAIN chans
    <3>1. i # id
      BY <1>0, <1>11, LenProperties
    <3> QED BY <1>0, <1>11, <3>1, RunnerAt
  <2>2. j # id
    BY <1>7, <1>9, <1>11, <2>1
  <2> QED BY <1>0, <1>11, <2>1, <2>2 DEF Passed
<1>14. ASSUME NEW j \in DOMAIN runners PROVE RunnerCounts(j)'
  <2>1. runners'[j].pc \notin {"run", "idle"}
    BY <1>1, <1>11, <1>14 DEF Alive
  <2>2. ~Mine(j)'
    <3>1. runners[j].at = map
      BY <1>0, <1>2, <1>14, RunnerAt
    <3> QED BY <1>0, <1>10, <1>11, <1>14, <3>1 DEF Mine
  <2> QED BY <2>1, <2>2 DEF RunnerCounts
<1>15. Counting' => RunnerCounts(id)'
  <2> SUFFICES ASSUME Counting PROVE RunnerCounts(id)'
    BY <1>0 DEF Counting
  <2>1. HolderCounts(x)
    BY DEF CircuitInv, CountsInv
  <2>2. CASE x = "rebuild"
    <3>0. actors[x].id \in DOMAIN runners
      BY <1>0, <2>2 DEF SupervisorInv, Wired
    <3>1. Faulty(stage)
      BY <1>0, <2>1, <2>2, <3>0 DEF HolderCounts
    <3>2. Faulty(stage)' /\ row'.count = count
      BY <1>0, <3>1 DEF Faulty, Ahead, NextCount
    <3>4. /\ chans'[runners'[id].chan].queue = first.queue
          /\ runners'[id].pc = "run"
      BY <1>7, <1>9, <1>11
    <3>5. First(k)' = Head(first.queue) /\ Due(k)' /\ runners'[id].chan = k
      BY <1>6, <1>7, <1>9, <1>11, <2>2 DEF First, Due
    <3> QED BY <1>6, <2>2, <3>2, <3>4, <3>5 DEF RunnerCounts
  <2>3. CASE x # "rebuild"
    <3>1. Even'
      BY <1>0, <2>1, <2>3 DEF HolderCounts, Even
    <3>2. ~Due(k)' /\ runners'[id].chan = k /\ runners'[id].pc = "run"
      BY <1>4, <1>7, <1>9, <1>11, <2>3 DEF Due
    <3> QED BY <3>1, <3>2 DEF RunnerCounts
  <2> QED BY <2>2, <2>3
<1>16. "append" \notin Stages /\ ~stopping' => row'.count <= FaultLimit /\ slots' # <<>>
  BY <1>0, <1>11 DEF CircuitInv, CountsInv
<1>17. \A j \in DOMAIN slots' : ~Rests(slots'[j])
  BY <1>10, <1>11 DEF Rests
<1>18. Counting' => \A j \in DOMAIN runners' : RunnerCounts(j)'
  BY <1>11, <1>14, <1>15
<1>19. \A y \in Actors : HolderCounts(y)'
  BY <1>12 DEF HolderCounts
<1> QED BY <1>7, <1>13, <1>16, <1>17, <1>18, <1>19 DEF CircuitStep, ChansInv, CountsInv

\* An exit that starts no runner: the channel goes.
LEMMA GoneCounts ==
  ASSUME CircuitInv, NEW id \in DOMAIN runners, NEW r, r.pc = "gone", r.chan = runners[id].chan,
         r.stage = runners[id].stage, r.at = runners[id].at,
         runners' = [runners EXCEPT ![id] = r], chans' = Closed(runners[id].chan),
         runners[id].pc # "gone", UNCHANGED <<log, row, stopping>>
  PROVE  /\ FaultsFirst' /\ Passed' /\ DOMAIN runners' = DOMAIN runners /\ runners'[id] = r
         /\ \A j \in DOMAIN runners \ {id} : runners'[j] = runners[j]
         /\ RunnerCounts(id)'
         /\ \A j \in DOMAIN runners \ {id} : RunnerCounts(j) /\ (Mine(j)' => Mine(j)) => RunnerCounts(j)'
<1>0. Passed /\ runners \in Seq(RunnerSet) /\ runners[id].chan \in DOMAIN chans
  BY Typed, RunnerAt DEF CircuitInv, ChansInv
<1>1. /\ DOMAIN runners' = DOMAIN runners
      /\ \A j \in DOMAIN runners : runners'[j] = IF j = id THEN r ELSE runners[j]
  BY <1>0
<1> PICK k : k = runners[id].chan
  OBVIOUS
<1>2. FaultsFirst' /\ \A ch \in DOMAIN chans : ch # k => chans'[ch] = chans[ch]
  <2>1. k \in DOMAIN chans /\ chans' = Closed(k)
    BY <1>0
  <2>2. FaultsFirst'
    BY <2>1, DueClosed
  <2> QED BY <2>1, <2>2 DEF Closed
<1>3. Passed'
  BY <1>0, <1>1 DEF Passed
<1>4. RunnerCounts(id)'
  BY <1>1 DEF RunnerCounts
<1>5. ASSUME NEW j \in DOMAIN runners \ {id}, RunnerCounts(j), Mine(j)' => Mine(j) PROVE RunnerCounts(j)'
  <2> PICK h : h = runners[j].chan
    OBVIOUS
  <2>1. runners'[j] = runners[j]
    BY <1>1
  <2>2. CASE runners[j].pc = "gone"
    BY <2>1, <2>2 DEF RunnerCounts
  <2>3. CASE runners[j].pc # "gone"
    <3>1. h # k
      <4>1. j < id \/ id < j
        BY <1>0, LenProperties
      <4> QED BY <1>0, <2>3, <4>1 DEF Passed
    <3>2. h \in DOMAIN chans
      BY RunnerAt DEF CircuitInv
    <3>3. /\ Due(h)' <=> Due(h)
          /\ First(h)' = First(h)
      BY <1>2, <3>1, <3>2 DEF Due, First
    <3>4. (Even' <=> Even) /\ \A stage : Faulty(stage)' <=> Faulty(stage)
      BY DEF Even, Faulty, Ahead, NextCount
    <3> QED BY <1>5, <2>1, <3>3, <3>4 DEF RunnerCounts
  <2> QED BY <2>2, <2>3
<1> QED BY <1>1, <1>2, <1>3, <1>4, <1>5

LEMMA ExitedCounts ==
  ASSUME CircuitInv, NEW id, Exited(id)
  PROVE  CircuitStep
<1>0. /\ id \in DOMAIN runners /\ runners \in Seq(RunnerSet) /\ slots \in Seq(SlotSet)
      /\ actors \in [Actors -> ActorSet] /\ chans \in Seq(ChanSet)
      /\ UNCHANGED <<log, map, stopping, row>> /\ SupervisorInv
      /\ "rebuild" \in Actors
      /\ runners[id].pc \in {"idle", "circuit", "stopped", "failed"}
  BY Typed DEF Exited
<1>1. PICK all : /\ Quiet(all)
                 /\ \/ ~Rebuilds(id) /\ actors' = all
                    \/ Rebuilds(id) /\ actors' = [all EXCEPT !["rebuild"] =
                         [NoActor EXCEPT !.pc = "recover", !.at = runners[id].at, !.id = id]]
  BY <1>0, ExitedTasks
<1> DEFINE r == [runners[id] EXCEPT !.pc = "gone"]
           left == [runners EXCEPT ![id] = r]
<1>2. r.pc = "gone" /\ r.chan = runners[id].chan /\ r.at = runners[id].at /\ r.stage = runners[id].stage
  BY <1>0 DEF RunnerSet
<1>3. left = [runners EXCEPT ![id].pc = "gone"]
  BY <1>0
<1>4. (Counting' <=> Counting) /\ (Even' <=> Even) /\ \A stage : Faulty(stage)' <=> Faulty(stage)
  BY <1>0 DEF Counting, Even, Faulty, Ahead, NextCount
<1>5. Counting => /\ \A s \in DOMAIN slots : Rests(slots[s]) => Even
                  /\ \A x \in Actors : HolderCounts(x)
                  /\ \A j \in DOMAIN runners : RunnerCounts(j)
  BY DEF CircuitInv, CountsInv
<1>6. "append" \notin Stages /\ ~stopping' => row'.count <= FaultLimit /\ (slots = <<>> => Even')
  BY <1>0, <1>4 DEF CircuitInv, CountsInv
<1>r. r \in RunnerSet
  <2>1. runners[id] \in RunnerSet
    BY <1>0
  <2> QED BY <2>1 DEF RunnerSet
<1> HIDE DEF r
<1>7. CASE ~Mine(id)
  <2>1. /\ ~Rebuilds(id) /\ runners' = left /\ UNCHANGED slots /\ chans' = Closed(runners[id].chan)
    BY <1>3, <1>7 DEF Exited, Rebuilds
  <2>2. Unclaimed
    BY <1>1, <2>1, QuietUnclaimed
  <2>3. /\ FaultsFirst' /\ Passed' /\ DOMAIN runners' = DOMAIN runners
        /\ runners'[id] = r
        /\ \A j \in DOMAIN runners \ {id} : runners'[j] = runners[j]
        /\ RunnerCounts(id)'
        /\ \A j \in DOMAIN runners \ {id} : RunnerCounts(j) /\ (Mine(j)' => Mine(j)) => RunnerCounts(j)'
    BY <1>0, <1>2, <2>1, GoneCounts
  <2>4. \A j \in DOMAIN runners \ {id} : Mine(j)' => Mine(j)
    BY <2>1, <2>3 DEF Mine
  <2>5. ASSUME Counting, NEW x \in Actors PROVE HolderCounts(x)'
    <3>1. HolderCounts(x)
      BY <1>5, <2>5
    <3>2. actors[x].id \in DOMAIN runners => runners'[actors[x].id].stage = runners[actors[x].id].stage
      BY <1>2, <2>3
    <3>3. Holding(x)' => Holding(x) /\ actors'[x].id = actors[x].id
      BY <2>2 DEF Unclaimed
    <3>4. CASE x # "rebuild"
      BY <1>4, <3>1, <3>3, <3>4 DEF HolderCounts
    <3>5. CASE x = "rebuild"
      <4> PICK i : i = actors[x].id
        OBVIOUS
      <4>1. CASE Holding(x)' /\ i \in DOMAIN runners
        <5>1. Faulty(runners[i].stage)
          BY <3>1, <3>3, <3>5, <4>1 DEF HolderCounts
        <5>2. Faulty(runners[i].stage)' /\ actors'[x].id = i
          BY <1>4, <3>2, <3>3, <4>1, <5>1
        <5> QED BY <3>5, <5>2 DEF HolderCounts
      <4>2. CASE ~(Holding(x)' /\ i \in DOMAIN runners)
        BY <2>3, <3>3, <3>5, <4>2 DEF HolderCounts
      <4> QED BY <4>1, <4>2
    <3> QED BY <3>4, <3>5
  <2>6. Counting' => \A j \in DOMAIN runners' : RunnerCounts(j)'
    BY <1>4, <1>5, <2>3, <2>4
  <2> QED BY <1>4, <1>5, <1>6, <2>1, <2>3, <2>5, <2>6 DEF CircuitStep, ChansInv, CountsInv
<1>8. CASE Mine(id)
  <2>1. /\ runners[id].at = map /\ map \in DOMAIN slots /\ slots[map] \in SlotSet
        /\ slots[map].id = id /\ DOMAIN slots = {map}
        /\ \A x \in Actors : ~Holding(x)
        /\ \A j \in DOMAIN runners : runners[j].at = map
        /\ \A j \in DOMAIN runners \ {id} : runners[j].pc \notin {"run", "idle"}
    BY <1>0, <1>8, MineAlone, RunnerAt DEF Alive
  <2>2. \A x \in Actors \ {"rebuild"} : ~Holding(x)'
    <3>1. \A x \in Actors \ {"rebuild"} : actors'[x] = all[x]
      BY <1>1 DEF Quiet
    <3>2. {"done", "mark", "ensure"} \cap HoldPcs = {}
      BY DEF HoldPcs
    <3> QED BY <1>1, <2>1, <3>1, <3>2 DEF Quiet, Holding, HoldPcs
  <2>3. ~Rebuilds(id) => ~Holding("rebuild")'
    BY <1>0, <1>1, <2>1, QuietUnclaimed DEF Unclaimed
  <2>4. Rebuilds(id) => actors'["rebuild"].id = id
    <3> DEFINE v == [NoActor EXCEPT !.pc = "recover", !.at = runners[id].at, !.id = id]
    <3>1. v.id = id
      BY DEF NoActor
    <3>2. Rebuilds(id) => actors' = [all EXCEPT !["rebuild"] = v]
      BY <1>1
    <3> HIDE DEF v
    <3> QED BY <1>0, <1>1, <3>1, <3>2 DEF Quiet
  <2> DEFINE restarts == runners[id].pc = "idle" /\ ~stopping /\ chans[runners[id].chan].queue # <<>>
  <2>5. CASE ~restarts
    <3>1. runners' = left /\ chans' = Closed(runners[id].chan)
      BY <1>3, <1>8, <2>5 DEF Exited
    <3>2. /\ FaultsFirst' /\ Passed' /\ DOMAIN runners' = DOMAIN runners /\ runners'[id] = r
          /\ \A j \in DOMAIN runners \ {id} : runners'[j] = runners[j]
          /\ RunnerCounts(id)'
          /\ \A j \in DOMAIN runners \ {id} : RunnerCounts(j) /\ (Mine(j)' => Mine(j)) => RunnerCounts(j)'
      BY <1>0, <1>2, <3>1, GoneCounts
    <3>3. PICK status \in {"recovering", "circuit", "idle"} :
            /\ slots' = [slots EXCEPT ![map].status = status, ![map].finished = ListedFinished(id)]
            /\ Rebuilds(id) => status = "recovering"
            /\ runners[id].pc = "circuit" /\ ~stopping => status = "circuit"
      BY <1>8, <2>1, <2>5 DEF Exited, Rebuilds
    <3> DEFINE e == [slots[map] EXCEPT !.status = status, !.finished = ListedFinished(id)]
    <3>4. slots' = [slots EXCEPT ![map] = e] /\ e.status = status
      BY <1>0, <2>1, <3>3 DEF SlotSet
    <3> HIDE DEF e
    <3>5. DOMAIN slots' = {map} /\ slots'[map] = e /\ slots' # <<>>
      <4>1. DOMAIN slots' = {map} /\ slots'[map] = e
        BY <2>1, <3>4
      <4>2. map \in DOMAIN slots' /\ DOMAIN <<>> = {}
        BY <4>1
      <4> QED BY <4>1, <4>2
    <3>6. Counting /\ status = "idle" => Even
      <4>1. Counting => RunnerCounts(id)
        BY <1>0, <1>5
      <4>2. Counting /\ status = "idle" => runners[id].pc \in {"idle", "stopped"}
        BY <1>0, <1>8, <3>3 DEF Counting, Rebuilds
      <4> QED BY <1>8, <4>1, <4>2 DEF RunnerCounts
    <3>7. \A j \in DOMAIN runners \ {id} : ~Mine(j)'
      BY <2>1, <3>2, <3>4, <3>5 DEF Mine
    <3>8. Counting' => \A j \in DOMAIN runners' : RunnerCounts(j)'
      BY <1>4, <1>5, <3>2, <3>7
    <3>9. ASSUME Counting, NEW x \in Actors PROVE HolderCounts(x)'
      <4>1. CASE x # "rebuild" \/ ~Rebuilds(id)
        BY <2>2, <2>3, <4>1 DEF HolderCounts
      <4>2. CASE x = "rebuild" /\ Rebuilds(id)
        <5>1. RunnerCounts(id) /\ runners[id].pc = "failed"
          BY <1>0, <1>5, <3>9, <4>2 DEF Rebuilds
        <5>2. Faulty(runners[id].stage)
          BY <1>8, <5>1 DEF RunnerCounts
        <5> PICK g : g = runners[id].stage
          OBVIOUS
        <5>3. Faulty(g)' /\ runners'[actors'[x].id].stage = g
          BY <1>2, <1>4, <2>4, <3>2, <4>2, <5>2
        <5> QED BY <4>2, <5>3 DEF HolderCounts
      <4> QED BY <4>1, <4>2
    <3>10. Counting' => \A s \in DOMAIN slots' : Rests(slots'[s]) => Even'
      BY <1>4, <3>3, <3>4, <3>5, <3>6 DEF Rests
    <3> QED BY <1>4, <1>6, <3>2, <3>5, <3>8, <3>9, <3>10 DEF CircuitStep, ChansInv, CountsInv
  <2>6. CASE restarts
    <3> PICK n : n = Len(runners) + 1
      OBVIOUS
    <3> PICK k : k = runners[id].chan
      OBVIOUS
    <3> DEFINE again == [runners[id] EXCEPT !.pc = "run"]
    <3>1. again \in RunnerSet /\ again.at = map /\ again.chan = k /\ again.pc = "run"
      <4>1. runners[id] \in RunnerSet
        BY <1>0
      <4> QED BY <2>1, <4>1 DEF RunnerSet
    <3>2. runners' = Append(left, again) /\ UNCHANGED chans
      BY <1>3, <1>8, <2>6 DEF Exited
    <3>3. left \in Seq(RunnerSet) /\ Len(left) = Len(runners) /\ DOMAIN left = DOMAIN runners
          /\ \A j \in DOMAIN runners : left[j] = IF j = id THEN r ELSE runners[j]
      BY <1>0, <1>r, ExceptAt
    <3> HIDE DEF again, left
    <3>4. /\ DOMAIN runners' = DOMAIN runners \cup {n} /\ n \notin DOMAIN runners /\ runners'[n] = again
          /\ Len(runners') = n /\ \A j \in DOMAIN runners : j < n
          /\ \A j \in DOMAIN runners : runners'[j] = IF j = id THEN r ELSE runners[j]
      <4>1. /\ DOMAIN runners' = DOMAIN runners \cup {n} /\ n \notin DOMAIN runners /\ runners'[n] = again
            /\ Len(runners') = n
            /\ \A j \in DOMAIN runners : runners'[j] = IF j = id THEN r ELSE runners[j]
        BY <3>1, <3>2, <3>3, AppendAt
      <4>2. \A j \in DOMAIN runners : j < n
        BY <1>0, LenProperties
      <4> QED BY <4>1, <4>2
    <3>5. slots' = [slots EXCEPT ![map].id = n]
      BY <1>8, <2>1, <2>6, <3>4 DEF Exited
    <3>6. DOMAIN slots' = {map} /\ slots' # <<>> /\ slots'[map].id = n /\ slots'[map].status = "active"
      <4>1. slots[map].status = "active"
        BY <1>8, <2>1 DEF Mine
      <4>2. DOMAIN slots' = {map} /\ slots'[map].id = n /\ slots'[map].status = "active"
        BY <2>1, <3>5, <4>1 DEF SlotSet
      <4> QED BY <4>2
    <3>7. FaultsFirst' /\ (Due(k)' <=> Due(k))
      BY <1>0, <3>2, DueKept DEF Due, First
    <3>8. Passed'
      <4> SUFFICES ASSUME NEW i \in DOMAIN runners', NEW j \in DOMAIN runners',
                          runners'[i].chan = runners'[j].chan, i < j
                   PROVE  runners'[i].pc = "gone"
        BY DEF Passed
      <4>1. Passed /\ i # n /\ i \in DOMAIN runners
        <5>1. i # n
          BY <1>0, <3>4, LenProperties
        <5> QED BY <3>4, <5>1 DEF CircuitInv, ChansInv
      <4>2. CASE i = id
        BY <1>2, <3>4, <4>1, <4>2
      <4>3. CASE i # id /\ j # n
        BY <1>2, <3>4, <4>1, <4>3 DEF Passed
      <4>4. CASE i # id /\ j = n
        <5>1. runners[i].chan = runners[id].chan /\ (i < id \/ id < i)
          <6>1. i < id \/ id < i
            BY <1>0, <4>1, <4>4, LenProperties
          <6> QED BY <3>1, <3>4, <4>1, <4>4, <6>1
        <5>2. runners[i].pc = "gone"
          BY <1>0, <4>1, <5>1 DEF Passed
        <5> QED BY <3>4, <4>1, <4>4, <5>2
      <4> QED BY <4>2, <4>3, <4>4
    <3>9. ASSUME NEW j \in DOMAIN runners PROVE RunnerCounts(j)'
      <4>1. runners'[j].pc \notin {"run", "idle"} /\ runners'[j].at = map
        BY <1>2, <2>1, <3>4, <3>9
      <4>2. ~Mine(j)'
        BY <3>4, <3>6, <3>9, <4>1 DEF Mine
      <4> QED BY <4>1, <4>2 DEF RunnerCounts
    <3>10. Counting => RunnerCounts(n)'
      <4>1. Counting => ~Due(k) /\ Even
        BY <1>0, <1>5, <2>6 DEF RunnerCounts
      <4>2. runners'[n].chan = k /\ runners'[n].pc = "run"
        BY <3>1, <3>4
      <4> QED BY <1>4, <3>7, <4>1, <4>2 DEF RunnerCounts
    <3>11. \A x \in Actors : HolderCounts(x)'
      <4>1. ~Rebuilds(id)
        BY <2>6 DEF Rebuilds
      <4> QED BY <2>2, <2>3, <4>1 DEF HolderCounts
    <3>12. \A s \in DOMAIN slots' : ~Rests(slots'[s])
      BY <3>6 DEF Rests
    <3>13. Counting' => \A j \in DOMAIN runners' : RunnerCounts(j)'
      BY <1>4, <3>4, <3>9, <3>10
    <3> QED BY <1>6, <3>6, <3>7, <3>8, <3>11, <3>12, <3>13 DEF CircuitStep, ChansInv, CountsInv
  <2> QED BY <2>5, <2>6
<1> QED BY <1>7, <1>8

-----------------------------------------------------------------------------
LEMMA CircuitInit == Init => CircuitInv
<1> SUFFICES ASSUME Init PROVE CircuitInv
  OBVIOUS
<1>1. /\ slots = <<>> /\ chans = <<>> /\ runners = <<>> /\ row = NoStreak /\ log.streak = NoStreak
      /\ DOMAIN slots = {} /\ DOMAIN chans = {} /\ DOMAIN runners = {}
  <2>1. slots = <<>> /\ chans = <<>> /\ runners = <<>> /\ row = NoStreak
    BY DEF Init
  <2>2. log \in [dir : {"live"}, work : BOOLEAN, finished : BOOLEAN,
                streak : {NoStreak}, applied : {<<>>}]
             \cup [dir : {"none"}, work : {FALSE}, finished : {FALSE},
                   streak : {NoStreak}, applied : {<<>>}]
    BY DEF Init
  <2>3. log.streak = NoStreak
    BY <2>2
  <2> QED BY <2>1, <2>3
<1>2. Even /\ row.count <= FaultLimit
  <2>1. row.count = 0 /\ FaultLimit \in Nat \ {0}
    BY <1>1, SupervisorAssumption DEF NoStreak
  <2> QED BY <1>1, <2>1 DEF Even
<1>3. \A x \in Actors : ~Holding(x)
  <2> DEFINE v == [NoActor EXCEPT !.pc = "discover"]
  <2>1. v.pc \in {"off", "discover"} /\ NoActor.pc \in {"off", "discover"}
    BY DEF NoActor
  <2>2. actors = [x \in Actors |-> IF x = "scan" THEN v ELSE NoActor]
    BY DEF Init
  <2> HIDE DEF v
  <2>3. \A x \in Actors : actors[x].pc \in {"off", "discover"}
    BY <2>1, <2>2
  <2> QED BY <2>3 DEF Holding
<1>4. ChansInv
  BY <1>1 DEF ChansInv, FaultsFirst, Passed
<1> QED BY <1>1, <1>2, <1>3, <1>4, SupervisorInit DEF CircuitInv, CountsInv, HolderCounts

LEMMA CircuitNext == CircuitInv /\ [Next]_vars => CircuitInv'
<1> SUFFICES ASSUME CircuitInv, [Next]_vars PROVE CircuitInv'
  OBVIOUS
<1>0. SupervisorInv' /\ Clients \subseteq Actors /\ "scan" \in Actors
  BY SupervisorStep, Typed DEF CircuitInv
<1>1. ASSUME NEW c \in Clients, Create(c) \/ Lookup(c) \/ Leave(c) PROVE CircuitStep
  BY <1>1, CreateCounts, LookupCounts
<1>2. ASSUME NEW c \in Clients, Insert(c) \/ Admit(c) \/ ReadLog(c) \/ EnsureActive(c)
      PROVE CircuitStep
  BY <1>0, <1>2, InsertCounts, LookupCounts, ClaimCounts
<1>3. ASSUME NEW c \in Clients, Dispatch(c) \/ Reserve(c) \/ TakePlace(c) \/ SendInternal(c)
      PROVE CircuitStep
  BY <1>0, <1>3, DispatchCounts, ReserveCounts
<1>4. ASSUME NEW c \in Clients, MarkDeleting(c) \/ Detach(c) \/ Forget(c) PROVE CircuitStep
  BY <1>0, <1>4, MarkCounts, ReserveCounts
<1>5. ASSUME NEW x \in Actors, Common(x) PROVE CircuitStep
  BY <1>5, RecoverCounts, ActivateCounts, StopCounts, ReserveCounts DEF Common
<1>6. ASSUME NEW id, Handle(id) \/ Work(id) \/ Fail(id) \/ IdleExit(id) \/ Exited(id)
      PROVE CircuitStep
  BY <1>6, HandleCounts, WorkCounts, FailCounts, ExitedCounts
<1>7. ASSUME Background \/ Shutdown PROVE CircuitStep
  BY <1>0, <1>7, BackgroundCounts, InsertCounts, ClaimCounts, RecoverCounts, ShutdownCounts
  DEF Background
<1>8. ASSUME UNCHANGED vars PROVE CircuitStep
  <2>1. Unclaimed /\ SameDue /\ FaultsFirst'
    BY <1>8, DueKept DEF vars, Unclaimed, Holding
  <2> QED BY <1>8, <2>1, Calm DEF vars
<1>9. CircuitStep
  BY <1>1, <1>2, <1>3, <1>4, <1>5, <1>6, <1>7, <1>8 DEF Next, Request
<1> QED BY <1>0, <1>9 DEF CircuitInv, CircuitStep

LEMMA CircuitAlways == Spec => []CircuitInv
<1> QED BY CircuitInit, CircuitNext, PTL DEF Spec

\* Places in the global queue come back, and FaultLimit equal failures in a row open the
\* circuit: the next runner does not work.  Where an append may fail the second is not
\* so, since a fault that cannot be written is not counted (try_global_capacity,
\* runner_exited, recovery_commands).
THEOREM LimitsAreKept == Spec => []("append" \notin Stages => LimitsHold)
<1>1. TruthInv /\ CircuitInv => ("append" \notin Stages => LimitsHold)
  BY PlacesOfAll DEF CircuitInv, CountsInv, LimitsHold, CircuitHolds
<1> QED BY <1>1, TruthHolds, CircuitAlways, PTL

=============================================================================
