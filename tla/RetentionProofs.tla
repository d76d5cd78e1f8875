--------------------------- MODULE RetentionProofs ---------------------------
(***************************************************************************)
(* What is proved of a generation's entries and of what a compaction keeps *)
(* of them.                                                                *)
(***************************************************************************)
EXTENDS Retention, FiniteSetTheorems, TLAPS

AddSize(sum, entry) == sum + entry.size
KeepEntry(kept, entry) == IF Emptied(Without(entry)) THEN kept ELSE Append(kept, Without(entry))
AddAll(said, more) == said \o more

Size == INSTANCE FoldFacts WITH Op <- AddSize
Keep == INSTANCE FoldFacts WITH Op <- KeepEntry
Tell == INSTANCE FoldFacts WITH Op <- AddAll

Kinds == {"assistant", "inputs", "pending", "direct", "notification", "carried"}
Entries == [kind : Kinds, ids : SUBSET Nat, size : Nat]
ToolStates == [delivery : {"none", "fresh", "sent"}, result : Nat]

\* A call of the answer at i; a tool message for it at j; no answer from i on, up to j.
Calls(es, i, c) == es[i].kind = "assistant" /\ c \in es[i].ids
Tells(es, j, c) == es[j].kind \in {"pending", "direct"} /\ c \in es[j].ids
Silent(es, i, j) == \A k \in i + 1 .. j : es[k].kind # "assistant"

\* The calls are numbered up to n; the fresh ones have not been told about.
Numbered(es, n) ==
  \A i \in 1..Len(es) : es[i].kind \in {"assistant", "pending", "direct", "notification"} => es[i].ids \subseteq 1..n
CalledOnce(es) == \A i, j \in 1..Len(es) : \A c \in Nat : Calls(es, i, c) /\ Calls(es, j, c) => i = j
ToldOnce(es) == \A i, j \in 1..Len(es) : \A c \in Nat : Tells(es, i, c) /\ Tells(es, j, c) => i = j
ToldAfter(es) ==
  \A j \in 1..Len(es) : \A c \in Nat : Tells(es, j, c) => \E i \in 1..Len(es) : i < j /\ Calls(es, i, c) /\ Silent(es, i, j)
Answered(es, fresh) ==
  \A i \in 1..Len(es) : \A c \in Nat : Calls(es, i, c) =>
    IF c \in fresh THEN Silent(es, i, Len(es)) /\ \A j \in 1..Len(es) : ~Tells(es, j, c)
    ELSE \E j \in 1..Len(es) : Tells(es, j, c)
Awaited(es, fresh) == \A c \in fresh : \E i \in 1..Len(es) : Calls(es, i, c)
Threads(es, fresh, n) ==
  /\ Numbered(es, n) /\ CalledOnce(es) /\ ToldOnce(es) /\ ToldAfter(es)
  /\ Answered(es, fresh) /\ Awaited(es, fresh)

Fresh == {c \in 1..calls : pending[c].delivery = "fresh"}

\* An input stands in one entry, unless it is among those that may stand in two.
Inputs(es, i, x) == es[i].kind = "inputs" /\ x \in es[i].ids
Once(es, but) ==
  \A i, j \in 1..Len(es) : \A x \in Nat : Inputs(es, i, x) /\ Inputs(es, j, x) => i = j \/ x \in but
Arrived(es, n) == \A i \in 1..Len(es) : es[i].kind = "inputs" => es[i].ids \subseteq 1..n

PendingTypes ==
  /\ pending \in [1..MaxCalls -> ToolStates] /\ calls \in 0..MaxCalls
  /\ \A c \in 1..MaxCalls : (pending[c].delivery = "none" => pending[c].result = 0) /\ (c > calls => pending[c].delivery = "none")
RequestTypes ==
  /\ request \in [purpose : {"none", "conversation", "compaction"}, consumed : SUBSET (1..arrived)]
  /\ progress \in [source : Nat, retain : Nat, attempts : Nat, on : BOOLEAN]
  /\ failure \in {"none", "overflow", "other"}
  /\ request.purpose = "none" => request = NoRequest
  /\ request # NoRequest => failure = "none"
RetentionTypes ==
  /\ entries \in Seq(Entries) /\ summary \in Nat /\ PendingTypes
  /\ arrived \in Nat /\ inbox \subseteq 1..arrived /\ RequestTypes

\* The first n entries, and what comes after them.
First(es, n) == SubSeq(es, 1, n)
Rest(es, n) == SubSeq(es, n + 1, Len(es))

\* While a compaction is under way, the conversation rests.
Cutting ==
  /\ progress.on =>
       /\ progress.source = Len(entries) /\ progress.retain <= Len(entries) /\ Fresh = {}
       /\ progress.retain = Len(entries) \/ Open(entries, progress.retain) = {}
       /\ SizeOf(Rest(entries, progress.retain)) <= KeepTokens
       /\ Len(entries) > 0 => progress.retain > 0
  /\ request.purpose = "conversation" => ~progress.on /\ Fresh = {}
  /\ request.purpose = "compaction" => progress.on

InputsHeld ==
  /\ Once(entries, twice) /\ Arrived(entries, arrived)
  /\ failure # "overflow" /\ ~progress.on => inbox \cap IdsOf(entries, {"inputs"}) \subseteq twice

RetentionInv ==
  /\ RetentionTypes /\ Cutting /\ Threads(entries, Fresh, calls) /\ InputsHeld /\ ResultsKept
-----------------------------------------------------------------------------
(* The size of entries, and parts of them.                                 *)
LEMMA EntryIs == \A x \in Entries : x.kind \in Kinds /\ x.ids \subseteq Nat /\ x.size \in Nat
  BY DEF Entries
LEMMA EntryMade == \A k \in Kinds, ids \in SUBSET Nat, s \in Nat : Entry(k, ids, s) \in Entries
  BY DEF Entry, Entries
LEMMA EntryHas == \A k, ids, s : Entry(k, ids, s).kind = k /\ Entry(k, ids, s).ids = ids /\ Entry(k, ids, s).size = s
  BY DEF Entry

Sums(f, es) == f = [n \in 0..Len(es) |-> IF n = 0 THEN 0 ELSE f[n - 1] + es[n].size]

LEMMA SizeIs == ASSUME NEW es \in Seq(Entries) PROVE SizeOf(es) = Size!Fold(0, es)
<1>1. PICK g : Size!Steps(g, 0, es) /\ Size!Fold(0, es) = g[Len(es)]
  BY Size!FoldSteps
<1>2. PICK h : h = [n \in 0..Len(es) |-> g[n]]
  OBVIOUS
<1>3. Sums(h, es)
  <2>1. h[0] = 0
    BY <1>1, <1>2 DEF Size!Steps
  <2>2. ASSUME NEW n \in 0..Len(es), n # 0 PROVE h[n] = h[n - 1] + es[n].size
    <3>1. n \in 1..Len(es) /\ n - 1 \in 0..Len(es)
      BY <2>2
    <3>2. g[n] = g[n - 1] + es[n].size
      BY <1>1, <3>1 DEF Size!Steps, AddSize
    <3> QED BY <1>2, <3>1, <3>2
  <2>3. h = [n \in 0..Len(es) |-> h[n]]
    BY <1>2
  <2> QED BY <2>1, <2>2, <2>3 DEF Sums
<1>4. SizeOf(es) = (CHOOSE f : Sums(f, es))[Len(es)]
  BY Zenon DEF SizeOf, Sums
<1>5. PICK f : f = (CHOOSE x : Sums(x, es))
  OBVIOUS
<1>6. Sums(f, es)
  BY <1>3, <1>5, Zenon
<1>7. Size!Steps(f, 0, es)
  <2>1. f[0] = 0
    BY <1>6 DEF Sums
  <2>2. ASSUME NEW n \in 1..Len(es) PROVE f[n] = AddSize(f[n - 1], es[n])
    <3>1. n \in 0..Len(es) /\ n # 0
      OBVIOUS
    <3> QED BY <1>6, <3>1 DEF Sums, AddSize
  <2> QED BY <2>1, <2>2 DEF Size!Steps
<1>8. Size!Begins(es, es)
  BY DEF Size!Begins
<1>9. f[Len(es)] = g[Len(es)]
  BY <1>1, <1>7, <1>8, Size!StepsAgree
<1> QED BY <1>1, <1>4, <1>5, <1>9

LEMMA SizeNone == SizeOf(<<>>) = 0
<1>1. <<>> \in Seq(Entries)
  OBVIOUS
<1> QED BY <1>1, SizeIs, Size!FoldNone

LEMMA SizeMore == ASSUME NEW es \in Seq(Entries), NEW x \in Entries PROVE SizeOf(Append(es, x)) = SizeOf(es) + x.size
<1>1. Append(es, x) \in Seq(Entries)
  OBVIOUS
<1>2. Size!Fold(0, Append(es, x)) = AddSize(Size!Fold(0, es), x)
  BY Size!FoldMore
<1> QED BY <1>1, <1>2, SizeIs DEF AddSize

LEMMA SizeNat == \A es \in Seq(Entries) : SizeOf(es) \in Nat
<1> DEFINE G == {es \in Seq(Entries) : SizeOf(es) \in Nat}
<1>1. <<>> \in G
  BY SizeNone
<1>2. ASSUME NEW es \in Seq(Entries), NEW x \in Entries, es \in G PROVE Append(es, x) \in G
  BY <1>2, SizeMore, EntryIs
<1> HIDE DEF G
<1>3. \A es \in Seq(Entries) : es \in G
  BY <1>1, <1>2, Size!SeqInduct
<1> QED BY <1>3 DEF G

LEMMA SizeJoin == ASSUME NEW s \in Seq(Entries) PROVE \A t \in Seq(Entries) : SizeOf(s \o t) = SizeOf(s) + SizeOf(t)
<1> DEFINE G == {t \in Seq(Entries) : SizeOf(s \o t) = SizeOf(s) + SizeOf(t)}
<1>0. SizeOf(s) \in Nat
  BY SizeNat
<1>1. <<>> \in G
  <2>1. s \o <<>> = s
    OBVIOUS
  <2> QED BY <1>0, <2>1, SizeNone
<1>2. ASSUME NEW t \in Seq(Entries), NEW x \in Entries, t \in G PROVE Append(t, x) \in G
  <2>1. s \o Append(t, x) = Append(s \o t, x) /\ s \o t \in Seq(Entries) /\ Append(t, x) \in Seq(Entries)
    OBVIOUS
  <2>2. SizeOf(s \o Append(t, x)) = SizeOf(s \o t) + x.size
    BY <2>1, SizeMore
  <2>3. SizeOf(Append(t, x)) = SizeOf(t) + x.size
    BY SizeMore
  <2>4. SizeOf(t) \in Nat /\ x.size \in Nat
    BY SizeNat, EntryIs
  <2>5. SizeOf(s \o t) = SizeOf(s) + SizeOf(t)
    BY <1>2
  <2>6. SizeOf(s \o Append(t, x)) = SizeOf(s) + SizeOf(Append(t, x))
    BY <1>0, <2>2, <2>3, <2>4, <2>5
  <2> QED BY <2>1, <2>6
<1> HIDE DEF G
<1>3. \A t \in Seq(Entries) : t \in G
  BY <1>1, <1>2, Size!SeqInduct
<1> QED BY <1>3 DEF G

\* A sequence and what it is joined of.
Joins(u, s, t) ==
  /\ Len(u) = Len(s) + Len(t)
  /\ \A i \in 1..Len(s) : u[i] = s[i]
  /\ \A i \in 1..Len(t) : u[Len(s) + i] = t[i]
LEMMA JoinIs == ASSUME NEW S, NEW s \in Seq(S), NEW t \in Seq(S) PROVE s \o t \in Seq(S) /\ Joins(s \o t, s, t)
<1>1. s \o t \in Seq(S) /\ Len(s \o t) = Len(s) + Len(t)
  OBVIOUS
<1>2. \A i \in 1..Len(s) : (s \o t)[i] = s[i]
  OBVIOUS
<1>3. \A i \in 1..Len(t) : (s \o t)[Len(s) + i] = t[i]
  OBVIOUS
<1> QED BY <1>1, <1>2, <1>3 DEF Joins

\* A position of what was joined is one of the first part or of the second.
LEMMA JoinAt ==
  ASSUME NEW S, NEW s \in Seq(S), NEW t \in Seq(S), NEW u, Joins(u, s, t), NEW i \in 1..Len(u)
  PROVE  \/ i \in 1..Len(s) /\ u[i] = s[i]
         \/ \E j \in 1..Len(t) : i = Len(s) + j /\ u[i] = t[j]
<1>1. CASE i <= Len(s)
  BY <1>1 DEF Joins
<1>2. CASE i > Len(s)
  <2>1. i - Len(s) \in 1..Len(t) /\ i = Len(s) + (i - Len(s))
    BY <1>2 DEF Joins
  <2> QED BY <2>1 DEF Joins
<1> QED BY <1>1, <1>2 DEF Joins

LEMMA JoinedIs ==
  ASSUME NEW S, NEW s \in Seq(S), NEW t \in Seq(S), NEW u \in Seq(S), Joins(u, s, t)
  PROVE  u = s \o t
<1>v. PICK v : v = s \o t
  OBVIOUS
<1>1. v \in Seq(S) /\ Joins(v, s, t)
  BY <1>v, JoinIs, Zenon
<1>2. Len(u) = Len(v)
  BY <1>1 DEF Joins
<1>3. ASSUME NEW i \in 1..Len(u) PROVE u[i] = v[i]
  <2>1. CASE i \in 1..Len(s)
    BY <1>1, <2>1 DEF Joins
  <2>2. CASE \E j \in 1..Len(t) : i = Len(s) + j
    BY <1>1, <2>2 DEF Joins
  <2> QED BY <2>1, <2>2, JoinAt
<1>4. u = v
  BY <1>1, <1>2, <1>3
<1> QED BY <1>v, <1>4

LEMMA FirstIs ==
  ASSUME NEW S, NEW es \in Seq(S), NEW n \in Nat, n <= Len(es)
  PROVE  First(es, n) \in Seq(S) /\ Len(First(es, n)) = n /\ \A i \in 1..n : First(es, n)[i] = es[i]
  BY DEF First
LEMMA RestIs ==
  ASSUME NEW S, NEW es \in Seq(S), NEW n \in Nat, n <= Len(es)
  PROVE  Rest(es, n) \in Seq(S) /\ Len(Rest(es, n)) = Len(es) - n /\ \A i \in 1..Len(es) - n : Rest(es, n)[i] = es[n + i]
<1>1. Rest(es, n) \in Seq(S) /\ Len(Rest(es, n)) = Len(es) - n
  BY DEF Rest
<1>2. ASSUME NEW i \in 1..Len(es) - n PROVE Rest(es, n)[i] = es[n + i]
  BY DEF Rest
<1> QED BY <1>1, <1>2
LEMMA CutJoins ==
  ASSUME NEW S, NEW es \in Seq(S), NEW n \in Nat, n <= Len(es)
  PROVE  /\ First(es, n) \in Seq(S) /\ Rest(es, n) \in Seq(S)
         /\ Len(First(es, n)) = n /\ Joins(es, First(es, n), Rest(es, n))
<1>f. PICK f : f = First(es, n)
  OBVIOUS
<1>r. PICK r : r = Rest(es, n)
  OBVIOUS
<1>1. f \in Seq(S) /\ Len(f) = n /\ \A i \in 1..n : f[i] = es[i]
  BY <1>f, FirstIs, Zenon
<1>2. r \in Seq(S) /\ Len(r) = Len(es) - n /\ \A i \in 1..Len(es) - n : r[i] = es[n + i]
  BY <1>r, RestIs, Zenon
<1>3. Joins(es, f, r)
  BY <1>1, <1>2 DEF Joins
<1> QED BY <1>f, <1>r, <1>1, <1>2, <1>3, Zenon

LEMMA RestSmaller ==
  ASSUME NEW es \in Seq(Entries), NEW m \in Nat, NEW n \in Nat, m <= n, n <= Len(es)
  PROVE  SizeOf(Rest(es, n)) <= SizeOf(Rest(es, m))
<1>q. PICK q : q = Rest(es, m)
  OBVIOUS
<1>r. PICK r : r = Rest(es, n)
  OBVIOUS
<1>k. PICK k \in Nat : k = n - m
  OBVIOUS
<1>t. PICK t : t = Rest(q, k)
  OBVIOUS
<1>f. PICK f : f = First(q, k)
  OBVIOUS
<1>1. q \in Seq(Entries) /\ Len(q) = Len(es) - m /\ \A i \in 1..Len(es) - m : q[i] = es[m + i]
  <2>1. m <= Len(es)
    OBVIOUS
  <2> QED BY <1>q, <2>1, RestIs, Zenon
<1>2. r \in Seq(Entries) /\ Len(r) = Len(es) - n /\ \A i \in 1..Len(es) - n : r[i] = es[n + i]
  BY <1>r, RestIs, Zenon
<1>3. k <= Len(q)
  BY <1>k, <1>1
<1>4. t \in Seq(Entries) /\ Len(t) = Len(q) - k /\ \A i \in 1..Len(q) - k : t[i] = q[k + i]
  <2>1. k \in Nat /\ q \in Seq(Entries)
    BY <1>k, <1>1
  <2> QED BY <1>t, <1>3, <2>1, RestIs, Zenon
<1>5. f \in Seq(Entries) /\ Joins(q, f, t)
  BY <1>f, <1>k, <1>t, <1>1, <1>3, CutJoins, Zenon
<1>6. r = t
  <2>1. Len(r) = Len(t)
    BY <1>1, <1>2, <1>4, <1>k
  <2>2. ASSUME NEW i \in 1..Len(r) PROVE r[i] = t[i]
    <3>1. r[i] = es[n + i]
      BY <1>2
    <3>2. t[i] = q[k + i] /\ k + i \in 1..Len(es) - m
      <4>1. i \in 1..Len(q) - k /\ k + i \in 1..Len(q)
        BY <1>k, <1>1, <1>3, <1>4, <2>1
      <4>2. t[i] = q[k + i]
        BY <1>4, <4>1
      <4> QED BY <1>1, <4>1, <4>2
    <3>3. m + (k + i) = n + i
      BY <1>k
    <3> QED BY <1>1, <3>1, <3>2, <3>3
  <2>3. r \in Seq(Entries) /\ t \in Seq(Entries)
    BY <1>2, <1>4
  <2> QED BY <2>1, <2>2, <2>3
<1>7. SizeOf(q) = SizeOf(f) + SizeOf(t)
  <2>1. q = f \o t
    BY <1>1, <1>4, <1>5, JoinedIs, Zenon
  <2>2. SizeOf(f \o t) = SizeOf(f) + SizeOf(t)
    BY <1>4, <1>5, SizeJoin, Zenon
  <2> QED BY <2>1, <2>2, Zenon
<1>8. SizeOf(q) \in Nat /\ SizeOf(f) \in Nat /\ SizeOf(t) \in Nat
  BY <1>1, <1>4, <1>5, SizeNat, Zenon
<1>9. SizeOf(t) <= SizeOf(q)
  BY <1>7, <1>8
<1> QED BY <1>q, <1>r, <1>6, <1>9, Zenon

\* The least number of a set that has one.
LEMMA MinIs == ASSUME NEW T, T \subseteq Nat, T # {} PROVE Min(T) \in T /\ \A n \in T : Min(T) <= n
<1>1. PICK m \in T : \A n \in T : ~(n < m)
  BY Size!Least
<1>2. \A n \in T : m <= n
  BY <1>1
<1> QED BY <1>2, Zenon DEF Min
-----------------------------------------------------------------------------
(* The cut, and the request for a summary.                                 *)
LEMMA Bounds ==
  /\ KeepTokens \in Nat /\ SummaryBudget \in Nat /\ ToolLimit \in Nat /\ TextLimit \in Nat /\ SummarySize \in Nat
  /\ MaxCalls \in Nat /\ ResultSizes \subseteq Nat \ {0}
  BY RetentionAssumption

LEMMA IdsAt ==
  ASSUME NEW es, NEW kinds, NEW c
  PROVE  c \in IdsOf(es, kinds) <=> \E i \in 1..Len(es) : es[i].kind \in kinds /\ c \in es[i].ids
  BY DEF IdsOf

LEMMA StartIs ==
  ASSUME NEW es \in Seq(Entries)
  PROVE  LET n == RetentionStart(es)
         IN /\ n \in Nat /\ n <= Len(es) /\ (n = Len(es) \/ Open(es, n) = {})
            /\ SizeOf(Rest(es, n)) <= KeepTokens /\ (Len(es) > 0 => n > 0)
<1> DEFINE T == {n \in 0..Len(es) : SizeOf(SubSeq(es, n + 1, Len(es))) <= KeepTokens}
           U == {n \in 1..Len(es) : n >= Min(T) /\ Open(es, n) = {}} \cup {Len(es)}
<1>1. T \subseteq Nat /\ Len(es) \in T
  <2>1. SubSeq(es, Len(es) + 1, Len(es)) = <<>>
    OBVIOUS
  <2>2. SizeOf(SubSeq(es, Len(es) + 1, Len(es))) = 0
    BY <2>1, SizeNone, Zenon
  <2> QED BY <2>2, Bounds
<1>2. U \subseteq Nat /\ U # {}
  OBVIOUS
<1>3. RetentionStart(es) = Min(U)
  BY DEF RetentionStart
<1>4. Min(T) \in T /\ Min(T) <= Len(es)
  <2> HIDE DEF T, U
  <2> QED BY <1>1, MinIs
<1>5. Min(U) \in U
  <2> HIDE DEF T, U
  <2> QED BY <1>2, MinIs
<1> PICK t : t = Min(T)
  OBVIOUS
<1>6. t \in Nat /\ t <= Len(es) /\ SizeOf(Rest(es, t)) <= KeepTokens
  <2>1. t \in T
    BY <1>4
  <2> QED BY <2>1 DEF Rest
<1> PICK n : n = Min(U)
  OBVIOUS
<1>7. n \in Nat /\ n <= Len(es) /\ (n = Len(es) \/ Open(es, n) = {}) /\ t <= n /\ (Len(es) > 0 => n > 0)
  <2>1. (n \in 1..Len(es) /\ n >= t /\ Open(es, n) = {}) \/ n = Len(es)
    BY <1>5
  <2>2. Len(es) \in Nat
    OBVIOUS
  <2> HIDE DEF T, U
  <2> QED BY <1>6, <2>1, <2>2
<1> HIDE DEF T, U
<1>8. SizeOf(Rest(es, n)) <= SizeOf(Rest(es, t))
  BY <1>6, <1>7, RestSmaller
<1>9. SizeOf(Rest(es, n)) \in Nat /\ SizeOf(Rest(es, t)) \in Nat
  BY <1>6, <1>7, RestIs, SizeNat
<1>10. SizeOf(Rest(es, n)) <= KeepTokens
  BY <1>6, <1>8, <1>9, Bounds
<1> QED BY <1>3, <1>7, <1>10

LEMMA ExcerptIs ==
  ASSUME NEW size \in Nat, NEW limit \in Nat
  PROVE  Excerpt(size, limit) \in Nat /\ Excerpt(size, limit) <= limit + 1
  BY DEF Excerpt

LEMMA RoomIs ==
  ASSUME Preamble \in Nat PROVE Room \in Nat /\ (Preamble <= SummaryBudget => Preamble + Room = SummaryBudget)
<1> PICK d \in Int : d = SummaryBudget - Preamble
  BY Bounds
<1>1. PICK m \in {0, d} : \A y \in {0, d} : m >= y
  <2>1. CASE d >= 0
    BY <2>1
  <2>2. CASE d < 0
    BY <2>2
  <2> QED BY <2>1, <2>2
<1>2. Max({0, d}) \in {0, d} /\ \A y \in {0, d} : Max({0, d}) >= y
  BY <1>1, Zenon DEF Max
<1>3. Room = Max({0, d})
  BY DEF Room
<1> QED BY <1>2, <1>3, Bounds

LEMMA LineIs == ASSUME NEW x \in Entries, NEW room \in Nat PROVE Line(x, room) \in Entries
<1> DEFINE limit == IF x.kind \in {"pending", "direct", "notification"} THEN ToolLimit ELSE TextLimit
<1>1. limit \in Nat
  BY Bounds
<1> HIDE DEF limit
<1>2. Min({room, limit}) \in Nat
  <2>1. {room, limit} \subseteq Nat /\ {room, limit} # {}
    BY <1>1
  <2> QED BY <2>1, MinIs
<1>3. x.size \in Nat
  BY EntryIs
<1>4. Excerpt(x.size, Min({room, limit})) \in Nat
  BY <1>2, <1>3, ExcerptIs
<1>5. Line(x, room) = [x EXCEPT !.size = Excerpt(x.size, Min({room, limit}))]
  BY DEF Line, limit
<1> QED BY <1>4, <1>5 DEF Entries

LEMMA EvictedIs == 
  ASSUME entries \in Seq(Entries), progress.retain \in Nat, progress.retain <= Len(entries)
  PROVE  Evicted \in Seq(Entries) /\ FirstInput \in 1..Len(Evicted) + 1
<1>1. Evicted = First(entries, progress.retain)
  BY DEF Evicted, First
<1>2. Evicted \in Seq(Entries)
  BY <1>1, FirstIs, Zenon
<1> DEFINE T == {i \in 1..Len(Evicted) : Evicted[i].kind = "inputs"} \cup {Len(Evicted) + 1}
<1>3. T \subseteq Nat /\ T # {} /\ T \subseteq 1..Len(Evicted) + 1
  BY <1>2
<1>4. FirstInput = Min(T)
  BY DEF FirstInput
<1> HIDE DEF T
<1>5. Min(T) \in T
  BY <1>3, MinIs
<1> QED BY <1>2, <1>3, <1>4, <1>5

LEMMA PreambleIs ==
  ASSUME entries \in Seq(Entries), progress.retain \in Nat, progress.retain <= Len(entries), summary \in Nat
  PROVE  Preamble \in Nat /\ (SummaryBudget >= 2 => Preamble <= SummaryBudget)
<1> PICK b \in Nat : b = SummaryBudget
  BY Bounds
<1>1. b \div 3 \in Nat /\ b \div 4 \in Nat
  OBVIOUS
<1>2. b >= 2 => (b \div 3 + 1) + (b \div 4 + 1) <= b
  OBVIOUS
<1> PICK e : e = Excerpt(summary, b \div 3)
  OBVIOUS
<1>3. e \in Nat /\ e <= b \div 3 + 1
  BY <1>1, ExcerptIs
<1> PICK g : g = IF FirstInput > Len(Evicted) THEN 0 ELSE Excerpt(Evicted[FirstInput].size, b \div 4)
  OBVIOUS
<1>4. g \in Nat /\ g <= b \div 4 + 1
  <2>1. CASE FirstInput > Len(Evicted)
    BY <1>1, <2>1
  <2>2. CASE ~(FirstInput > Len(Evicted))
    <3>1. FirstInput \in 1..Len(Evicted) /\ Evicted \in Seq(Entries)
      BY <2>2, EvictedIs
    <3>2. Evicted[FirstInput].size \in Nat
      BY <3>1, EntryIs
    <3>3. Excerpt(Evicted[FirstInput].size, b \div 4) \in Nat /\ Excerpt(Evicted[FirstInput].size, b \div 4) <= b \div 4 + 1
      BY <1>1, <3>2, ExcerptIs
    <3> QED BY <2>2, <3>3
  <2> QED BY <2>1, <2>2
<1>5. Preamble = e + g
  BY DEF Preamble
<1>6. e + g \in Nat
  BY <1>3, <1>4
<1>7. ASSUME b >= 2 PROVE e + g <= b
  BY <1>1, <1>2, <1>3, <1>4, <1>7
<1> QED BY <1>5, <1>6, <1>7

LEMMA LinesAre ==
  ASSUME entries \in Seq(Entries), progress.retain \in Nat, progress.retain <= Len(entries), summary \in Nat
  PROVE  Lines \in Seq(Entries)
<1> PICK gone : gone = Evicted
  OBVIOUS
<1> PICK first : first = FirstInput
  OBVIOUS
<1> PICK room : room = Room
  OBVIOUS
<1>1. gone \in Seq(Entries) /\ first \in 1..Len(gone) + 1 /\ room \in Nat
  <2>1. Evicted \in Seq(Entries) /\ FirstInput \in 1..Len(Evicted) + 1
    BY EvictedIs
  <2>2. Room \in Nat
    BY PreambleIs, RoomIs
  <2> QED BY <2>1, <2>2
<1>2. PICK n : n = Len(gone) - IF first > Len(gone) THEN 0 ELSE 1
  OBVIOUS
<1>3. n \in Nat
  BY <1>1, <1>2
<1>4. ASSUME NEW i \in 1..n PROVE Line(gone[IF i < first THEN i ELSE i + 1], room) \in Entries
  <2>1. (IF i < first THEN i ELSE i + 1) \in 1..Len(gone)
    BY <1>1, <1>2
  <2>2. gone[IF i < first THEN i ELSE i + 1] \in Entries
    BY <1>1, <2>1
  <2> QED BY <1>1, <2>2, LineIs
<1>5. Lines = [i \in 1..n |-> Line(gone[IF i < first THEN i ELSE i + 1], room)]
  BY <1>2 DEF Lines
<1>6. [i \in 1..n |-> Line(gone[IF i < first THEN i ELSE i + 1], room)] \in Seq(Entries)
  BY <1>3, <1>4
<1> QED BY <1>5, <1>6

LEMMA ShownFits == ASSUME NEW lines \in Seq(Entries), Room \in Nat PROVE SizeOf(Shown(lines)) \in Nat /\ SizeOf(Shown(lines)) <= Room
<1> DEFINE T == {n \in 1..Len(lines) + 1 : SizeOf(SubSeq(lines, n, Len(lines))) <= Room}
<1>1. T \subseteq Nat /\ Len(lines) + 1 \in T
  <2>1. SubSeq(lines, Len(lines) + 1, Len(lines)) = <<>>
    OBVIOUS
  <2>2. SizeOf(SubSeq(lines, Len(lines) + 1, Len(lines))) = 0
    BY <2>1, SizeNone, Zenon
  <2> QED BY <2>2
<1>2. Min(T) \in T
  <2> HIDE DEF T
  <2> QED BY <1>1, MinIs
<1>3. Shown(lines) = SubSeq(lines, Min(T), Len(lines))
  BY DEF Shown
<1> PICK n : n = Min(T)
  OBVIOUS
<1>4. n \in 1..Len(lines) + 1 /\ SizeOf(SubSeq(lines, n, Len(lines))) <= Room
  BY <1>2
<1> HIDE DEF T
<1>5. SubSeq(lines, n, Len(lines)) \in Seq(Entries)
  BY <1>4
<1> QED BY <1>3, <1>4, <1>5, SizeNat

LEMMA Fits ==
  ASSUME entries \in Seq(Entries), progress.retain \in Nat, progress.retain <= Len(entries), summary \in Nat, SummaryBudget >= 2
  PROVE  Preamble + SizeOf(Shown(Lines)) <= SummaryBudget
<1>1. Preamble \in Nat /\ Preamble <= SummaryBudget
  BY PreambleIs
<1>2. Room \in Nat /\ Preamble + Room = SummaryBudget
  BY <1>1, RoomIs
<1>3. SizeOf(Shown(Lines)) \in Nat /\ SizeOf(Shown(Lines)) <= Room
  BY <1>2, LinesAre, ShownFits
<1> QED BY <1>1, <1>2, <1>3, Bounds
-----------------------------------------------------------------------------
(* Calls and their tool messages: what may follow, what may be cut off and *)
(* what may be left out.                                                   *)

\* No answer; tool messages for the calls of a set, each one once.
Follows(t, told, n) ==
  /\ \A i \in 1..Len(t) : t[i].kind # "assistant"
  /\ Numbered(t, n) /\ ToldOnce(t)
  /\ \A c \in Nat : c \in told <=> \E i \in 1..Len(t) : Tells(t, i, c)

LEMMA FollowCalls ==
  ASSUME NEW s \in Seq(Entries), NEW t \in Seq(Entries), NEW u, Joins(u, s, t), NEW told, NEW n, Follows(t, told, n),
         NEW c, NEW i \in 1..Len(u), Calls(u, i, c)
  PROVE  i \in 1..Len(s) /\ Calls(s, i, c)
<1>1. CASE i \in 1..Len(s) /\ u[i] = s[i]
  BY <1>1 DEF Calls
<1>2. CASE \E j \in 1..Len(t) : i = Len(s) + j /\ u[i] = t[j]
  BY <1>2 DEF Calls, Follows
<1> QED BY <1>1, <1>2, JoinAt

LEMMA FirstPart ==
  ASSUME NEW s \in Seq(Entries), NEW t \in Seq(Entries), NEW u, Joins(u, s, t), NEW i \in 1..Len(s)
  PROVE  /\ i \in 1..Len(u) /\ u[i] = s[i] /\ i <= Len(u)
         /\ \A c : Calls(u, i, c) <=> Calls(s, i, c)
         /\ \A c : Tells(u, i, c) <=> Tells(s, i, c)
  BY DEF Joins, Calls, Tells
LEMMA SecondPart ==
  ASSUME NEW s \in Seq(Entries), NEW t \in Seq(Entries), NEW u, Joins(u, s, t), NEW i \in 1..Len(t)
  PROVE  /\ Len(s) + i \in 1..Len(u) /\ u[Len(s) + i] = t[i]
         /\ \A c : Calls(u, Len(s) + i, c) <=> Calls(t, i, c)
         /\ \A c : Tells(u, Len(s) + i, c) <=> Tells(t, i, c)
  BY DEF Joins, Calls, Tells
LEMMA TellsAt ==
  ASSUME NEW s \in Seq(Entries), NEW t \in Seq(Entries), NEW u, Joins(u, s, t), NEW c, NEW i \in 1..Len(u), Tells(u, i, c)
  PROVE  (i \in 1..Len(s) /\ Tells(s, i, c)) \/ \E j \in 1..Len(t) : i = Len(s) + j /\ Tells(t, j, c)
<1>1. CASE i \in 1..Len(s) /\ u[i] = s[i]
  BY <1>1 DEF Tells
<1>2. CASE \E j \in 1..Len(t) : i = Len(s) + j /\ u[i] = t[j]
  BY <1>2 DEF Tells
<1> QED BY <1>1, <1>2, JoinAt

LEMMA SilentFirst ==
  ASSUME NEW s \in Seq(Entries), NEW t \in Seq(Entries), NEW u, Joins(u, s, t),
         NEW i \in 1..Len(s), NEW j \in 1..Len(s), Silent(s, i, j)
  PROVE  Silent(u, i, j)
<1> SUFFICES ASSUME NEW k \in i + 1 .. j PROVE u[k].kind # "assistant"
  BY DEF Silent
<1>1. k \in 1..Len(s)
  OBVIOUS
<1>2. u[k] = s[k]
  BY <1>1, FirstPart
<1> QED BY <1>2 DEF Silent
LEMMA SilentOn ==
  ASSUME NEW s \in Seq(Entries), NEW t \in Seq(Entries), NEW u, Joins(u, s, t), NEW told, NEW n, Follows(t, told, n),
         NEW i \in 1..Len(s), Silent(s, i, Len(s)), NEW j \in Nat, j <= Len(u)
  PROVE  Silent(u, i, j)
<1> SUFFICES ASSUME NEW k \in i + 1 .. j PROVE u[k].kind # "assistant"
  BY DEF Silent
<1>1. k \in 1..Len(u)
  BY DEF Joins
<1>2. CASE k \in 1..Len(s) /\ u[k] = s[k]
  <2>1. k \in i + 1 .. Len(s)
    BY <1>2
  <2> QED BY <1>2, <2>1 DEF Silent
<1>3. CASE \E m \in 1..Len(t) : k = Len(s) + m /\ u[k] = t[m]
  BY <1>3 DEF Follows
<1> QED BY <1>1, <1>2, <1>3, JoinAt

\* The calls not told about in the first part have no tool message there.
LEMMA Untold ==
  ASSUME NEW s, NEW fresh, NEW n, Threads(s, fresh, n), NEW c \in Nat, c \in fresh, NEW j \in 1..Len(s)
  PROVE  ~Tells(s, j, c)
<1> SUFFICES ASSUME Tells(s, j, c) PROVE FALSE
  OBVIOUS
<1>1. PICK i \in 1..Len(s) : i < j /\ Calls(s, i, c)
  BY DEF Threads, ToldAfter
<1> QED BY <1>1 DEF Threads, Answered

LEMMA ThreadsFollow ==
  ASSUME NEW s \in Seq(Entries), NEW t \in Seq(Entries), NEW u, Joins(u, s, t),
         NEW fresh \in SUBSET Nat, NEW told \in SUBSET fresh, NEW n, Threads(s, fresh, n), Follows(t, told, n)
  PROVE  Threads(u, fresh \ told, n)
<1>1. Numbered(u, n)
  <2> SUFFICES ASSUME NEW i \in 1..Len(u), u[i].kind \in {"assistant", "pending", "direct", "notification"} PROVE u[i].ids \subseteq 1..n
    BY DEF Numbered
  <2>1. Numbered(s, n) /\ Numbered(t, n)
    BY DEF Threads, Follows
  <2>2. CASE i \in 1..Len(s) /\ u[i] = s[i]
    BY <2>1, <2>2 DEF Numbered
  <2>3. CASE \E j \in 1..Len(t) : i = Len(s) + j /\ u[i] = t[j]
    BY <2>1, <2>3 DEF Numbered
  <2>4. (i \in 1..Len(s) /\ u[i] = s[i]) \/ \E j \in 1..Len(t) : i = Len(s) + j /\ u[i] = t[j]
    BY JoinAt
  <2> QED BY <2>2, <2>3, <2>4, Zenon
<1>2. CalledOnce(u)
  <2> SUFFICES ASSUME NEW i \in 1..Len(u), NEW j \in 1..Len(u), NEW c \in Nat, Calls(u, i, c), Calls(u, j, c) PROVE i = j
    BY DEF CalledOnce
  <2>1. i \in 1..Len(s) /\ Calls(s, i, c) /\ j \in 1..Len(s) /\ Calls(s, j, c)
    BY FollowCalls
  <2> QED BY <2>1 DEF Threads, CalledOnce
<1>3. ToldOnce(u)
  <2> SUFFICES ASSUME NEW i \in 1..Len(u), NEW j \in 1..Len(u), NEW c \in Nat, Tells(u, i, c), Tells(u, j, c) PROVE i = j
    BY DEF ToldOnce
  <2>1. (i \in 1..Len(s) /\ Tells(s, i, c)) \/ \E a \in 1..Len(t) : i = Len(s) + a /\ Tells(t, a, c)
    BY TellsAt
  <2>2. (j \in 1..Len(s) /\ Tells(s, j, c)) \/ \E b \in 1..Len(t) : j = Len(s) + b /\ Tells(t, b, c)
    BY TellsAt
  <2>3. CASE c \in told
    <3>1. \A k \in 1..Len(s) : ~Tells(s, k, c)
      BY <2>3, Untold
    <3>2. PICK a \in 1..Len(t) : i = Len(s) + a /\ Tells(t, a, c)
      BY <2>1, <3>1
    <3>3. PICK b \in 1..Len(t) : j = Len(s) + b /\ Tells(t, b, c)
      BY <2>2, <3>1
    <3>4. a = b
      BY <3>2, <3>3 DEF Follows, ToldOnce
    <3> QED BY <3>2, <3>3, <3>4
  <2>4. CASE c \notin told
    <3>1. \A k \in 1..Len(t) : ~Tells(t, k, c)
      BY <2>4 DEF Follows
    <3>2. i \in 1..Len(s) /\ Tells(s, i, c) /\ j \in 1..Len(s) /\ Tells(s, j, c)
      BY <2>1, <2>2, <3>1
    <3> QED BY <3>2 DEF Threads, ToldOnce
  <2> QED BY <2>3, <2>4
<1>4. ToldAfter(u)
  <2> SUFFICES ASSUME NEW j \in 1..Len(u), NEW c \in Nat, Tells(u, j, c)
               PROVE  \E i \in 1..Len(u) : i < j /\ Calls(u, i, c) /\ Silent(u, i, j)
    BY DEF ToldAfter
  <2>1. CASE j \in 1..Len(s) /\ Tells(s, j, c)
    <3>1. PICK i \in 1..Len(s) : i < j /\ Calls(s, i, c) /\ Silent(s, i, j)
      BY <2>1 DEF Threads, ToldAfter
    <3>2. i \in 1..Len(u) /\ Calls(u, i, c)
      BY <3>1, FirstPart
    <3>3. Silent(u, i, j)
      BY <2>1, <3>1, SilentFirst
    <3> QED BY <3>1, <3>2, <3>3
  <2>2. CASE \E a \in 1..Len(t) : j = Len(s) + a /\ Tells(t, a, c)
    <3>1. c \in told /\ c \in fresh
      BY <2>2 DEF Follows
    <3>2. PICK i \in 1..Len(s) : Calls(s, i, c)
      BY <3>1 DEF Threads, Awaited
    <3>3. Silent(s, i, Len(s))
      BY <3>1, <3>2 DEF Threads, Answered
    <3>4. j \in Nat /\ j <= Len(u) /\ i < j
      BY <2>2 DEF Joins
    <3>5. Silent(u, i, j)
      BY <3>3, <3>4, SilentOn
    <3>6. i \in 1..Len(u) /\ Calls(u, i, c)
      BY <3>2, FirstPart
    <3> QED BY <3>4, <3>5, <3>6
  <2> QED BY <2>1, <2>2, TellsAt
<1>5. Answered(u, fresh \ told)
  <2> SUFFICES ASSUME NEW i \in 1..Len(u), NEW c \in Nat, Calls(u, i, c)
               PROVE  IF c \in fresh \ told THEN Silent(u, i, Len(u)) /\ \A j \in 1..Len(u) : ~Tells(u, j, c)
                      ELSE \E j \in 1..Len(u) : Tells(u, j, c)
    BY DEF Answered
  <2>1. i \in 1..Len(s) /\ Calls(s, i, c)
    BY FollowCalls
  <2>2. CASE c \in fresh \ told
    <3>1. Silent(s, i, Len(s))
      BY <2>1, <2>2 DEF Threads, Answered
    <3>2. Len(u) \in Nat /\ Len(u) <= Len(u)
      BY DEF Joins
    <3>3. Silent(u, i, Len(u))
      BY <2>1, <3>1, <3>2, SilentOn
    <3>4. ASSUME NEW j \in 1..Len(u), Tells(u, j, c) PROVE FALSE
      <4>1. \A k \in 1..Len(s) : ~Tells(s, k, c)
        BY <2>2, Untold
      <4>2. \E a \in 1..Len(t) : Tells(t, a, c)
        BY <3>4, <4>1, TellsAt
      <4> QED BY <2>2, <4>2 DEF Follows
    <3> QED BY <2>2, <3>3, <3>4
  <2>3. CASE c \in told
    <3>1. PICK a \in 1..Len(t) : Tells(t, a, c)
      BY <2>3 DEF Follows
    <3>2. Len(s) + a \in 1..Len(u) /\ Tells(u, Len(s) + a, c)
      BY <3>1, SecondPart
    <3> QED BY <2>3, <3>2
  <2>4. CASE c \notin fresh
    <3>1. PICK j \in 1..Len(s) : Tells(s, j, c)
      BY <2>1, <2>4 DEF Threads, Answered
    <3>2. j \in 1..Len(u) /\ Tells(u, j, c)
      BY <3>1, FirstPart
    <3> QED BY <2>4, <3>2
  <2> QED BY <2>2, <2>3, <2>4
<1>6. Awaited(u, fresh \ told)
  <2> SUFFICES ASSUME NEW c \in fresh \ told PROVE \E i \in 1..Len(u) : Calls(u, i, c)
    BY DEF Awaited
  <2>1. PICK i \in 1..Len(s) : Calls(s, i, c)
    BY DEF Threads, Awaited
  <2> QED BY <2>1, FirstPart
<1> QED BY <1>1, <1>2, <1>3, <1>4, <1>5, <1>6 DEF Threads
\* The next answer: new calls, which nothing has told about yet.
LEMMA ThreadsAnswer ==
  ASSUME NEW s \in Seq(Entries), NEW n \in Nat, NEW m \in Nat, n <= m, Threads(s, {}, n),
         NEW x \in Entries, x.kind = "assistant", x.ids = n + 1 .. m
  PROVE  Threads(Append(s, x), n + 1 .. m, m)
<1>u. PICK u : u = Append(s, x)
  OBVIOUS
<1>k. PICK k \in Nat : k = Len(s) + 1
  OBVIOUS
<1>1. u \in Seq(Entries) /\ Len(u) = k /\ u[k] = x /\ \A i \in 1..Len(s) : u[i] = s[i]
  BY <1>u, <1>k
<1>2. \A i \in 1..k : i \in 1..Len(s) \/ i = k
  BY <1>k
<1>3. 1..Len(u) = 1..k /\ k \in 1..k /\ \A i \in 1..Len(s) : i \in 1..k /\ i < k
  BY <1>1, <1>k
<1>4. Numbered(s, n) /\ CalledOnce(s) /\ ToldOnce(s) /\ ToldAfter(s) /\ Answered(s, {})
  BY DEF Threads
<1>5. ASSUME NEW i \in 1..Len(s), NEW c PROVE (Calls(u, i, c) <=> Calls(s, i, c)) /\ (Tells(u, i, c) <=> Tells(s, i, c))
  BY <1>1 DEF Calls, Tells
<1>6. ASSUME NEW c PROVE (Calls(u, k, c) <=> c \in n + 1 .. m) /\ ~Tells(u, k, c)
  BY <1>1 DEF Calls, Tells
<1>7. ASSUME NEW i \in 1..Len(s), NEW c, Calls(s, i, c) \/ Tells(s, i, c) PROVE c \in 1..n /\ c \notin n + 1 .. m
  <2>1. s[i].ids \subseteq 1..n
    BY <1>4, <1>7 DEF Numbered, Calls, Tells
  <2> QED BY <1>7, <2>1 DEF Calls, Tells
<1>8. Numbered(u, m)
  <2> SUFFICES ASSUME NEW i \in 1..k, u[i].kind \in {"assistant", "pending", "direct", "notification"} PROVE u[i].ids \subseteq 1..m
    BY <1>3 DEF Numbered
  <2>1. CASE i \in 1..Len(s)
    <3>1. s[i].ids \subseteq 1..n
      BY <1>1, <1>4, <2>1 DEF Numbered
    <3> QED BY <1>1, <2>1, <3>1
  <2>2. CASE i = k
    <3>1. u[k].ids = n + 1 .. m
      BY <1>1
    <3> QED BY <2>2, <3>1
  <2> QED BY <1>2, <2>1, <2>2
<1>9. CalledOnce(u)
  <2> SUFFICES ASSUME NEW i \in 1..k, NEW j \in 1..k, NEW c \in Nat, Calls(u, i, c), Calls(u, j, c) PROVE i = j
    BY <1>3 DEF CalledOnce
  <2>1. CASE c \in n + 1 .. m
    <3>1. i \notin 1..Len(s) /\ j \notin 1..Len(s)
      BY <1>5, <1>7, <2>1
    <3> QED BY <1>2, <3>1
  <2>2. CASE c \notin n + 1 .. m
    <3>1. i # k /\ j # k
      BY <1>6, <2>2
    <3>2. i \in 1..Len(s) /\ j \in 1..Len(s)
      BY <1>2, <3>1
    <3>3. Calls(s, i, c) /\ Calls(s, j, c)
      BY <1>5, <3>2
    <3> QED BY <1>4, <3>2, <3>3 DEF CalledOnce
  <2> QED BY <2>1, <2>2
<1>10. ASSUME NEW i \in 1..k, NEW c, Tells(u, i, c) PROVE i \in 1..Len(s) /\ Tells(s, i, c)
  BY <1>2, <1>5, <1>6, <1>10
<1>11. ToldOnce(u)
  <2> SUFFICES ASSUME NEW i \in 1..k, NEW j \in 1..k, NEW c \in Nat, Tells(u, i, c), Tells(u, j, c) PROVE i = j
    BY <1>3 DEF ToldOnce
  <2>1. i \in 1..Len(s) /\ Tells(s, i, c) /\ j \in 1..Len(s) /\ Tells(s, j, c)
    BY <1>10
  <2> QED BY <1>4, <2>1 DEF ToldOnce
<1>12. ToldAfter(u)
  <2> SUFFICES ASSUME NEW j \in 1..k, NEW c \in Nat, Tells(u, j, c) PROVE \E i \in 1..k : i < j /\ Calls(u, i, c) /\ Silent(u, i, j)
    BY <1>3 DEF ToldAfter
  <2>1. j \in 1..Len(s) /\ Tells(s, j, c)
    BY <1>10
  <2>2. PICK i \in 1..Len(s) : i < j /\ Calls(s, i, c) /\ Silent(s, i, j)
    BY <1>4, <2>1 DEF ToldAfter
  <2>3. Silent(u, i, j)
    BY <1>1, <2>1, <2>2 DEF Silent
  <2> QED BY <1>3, <1>5, <2>2, <2>3
<1>13. Answered(u, n + 1 .. m)
  <2> SUFFICES ASSUME NEW i \in 1..k, NEW c \in Nat, Calls(u, i, c)
               PROVE  IF c \in n + 1 .. m THEN Silent(u, i, k) /\ \A j \in 1..k : ~Tells(u, j, c)
                      ELSE \E j \in 1..k : Tells(u, j, c)
    BY <1>1, <1>3 DEF Answered
  <2>1. CASE c \in n + 1 .. m
    <3>1. i = k
      BY <1>2, <1>5, <1>7, <2>1
    <3>2. Silent(u, i, k)
      BY <3>1 DEF Silent
    <3>3. \A j \in 1..k : ~Tells(u, j, c)
      BY <1>7, <1>10, <2>1
    <3> QED BY <2>1, <3>2, <3>3
  <2>2. CASE c \notin n + 1 .. m
    <3>1. i \in 1..Len(s)
      BY <1>2, <1>6, <2>2
    <3>2. PICK j \in 1..Len(s) : Tells(s, j, c)
      BY <1>4, <1>5, <3>1 DEF Answered
    <3> QED BY <1>3, <1>5, <2>2, <3>2
  <2> QED BY <2>1, <2>2
<1>14. Awaited(u, n + 1 .. m)
  BY <1>3, <1>6 DEF Awaited
<1>15. Threads(u, n + 1 .. m, m)
  BY <1>8, <1>9, <1>11, <1>12, <1>13, <1>14 DEF Threads
<1> QED BY <1>u, <1>15, Zenon

\* Cut where no call is open, or everything cut off.
LEMMA ThreadsCut ==
  ASSUME NEW es \in Seq(Entries), NEW n, Threads(es, {}, n), NEW r \in Nat, r <= Len(es), r = Len(es) \/ Open(es, r) = {}
  PROVE  Threads(Rest(es, r), {}, n)
<1>t. PICK t : t = Rest(es, r)
  OBVIOUS
<1>1. t \in Seq(Entries) /\ Len(t) = Len(es) - r /\ \A i \in 1..Len(es) - r : t[i] = es[r + i]
  BY <1>t, RestIs, Zenon
<1>2. Numbered(es, n) /\ CalledOnce(es) /\ ToldOnce(es) /\ ToldAfter(es) /\ Answered(es, {})
  BY DEF Threads
<1>3. ASSUME NEW i \in 1..Len(t)
      PROVE  /\ r + i \in 1..Len(es) /\ t[i] = es[r + i]
             /\ \A c : Calls(t, i, c) <=> Calls(es, r + i, c)
             /\ \A c : Tells(t, i, c) <=> Tells(es, r + i, c)
  BY <1>1 DEF Calls, Tells
<1>4. ASSUME NEW j \in 1..Len(t), NEW c \in Nat, Tells(t, j, c)
      PROVE  \E i \in 1..Len(t) : i < j /\ Calls(t, i, c) /\ Silent(t, i, j)
  <2>1. r + j \in 1..Len(es) /\ Tells(es, r + j, c)
    BY <1>3, <1>4
  <2>2. PICK i \in 1..Len(es) : i < r + j /\ Calls(es, i, c) /\ Silent(es, i, r + j)
    BY <1>2, <2>1 DEF ToldAfter
  <2>3. ASSUME i <= r PROVE FALSE
    <3>1. r # Len(es) /\ Open(es, r) = {}
      BY <1>1
    <3>f. PICK f : f = First(es, r)
      OBVIOUS
    <3>2. f \in Seq(Entries) /\ Len(f) = r /\ \A k \in 1..r : f[k] = es[k]
      BY <3>f, FirstIs, Zenon
    <3>3. Open(es, r) = IdsOf(f, {"assistant"}) \ IdsOf(f, {"pending", "direct"})
      BY <3>f, Zenon DEF Open, First
    <3>4. c \in IdsOf(f, {"assistant"})
      <4>1. i \in 1..Len(f) /\ f[i] = es[i]
        BY <2>3, <3>2
      <4>2. f[i].kind \in {"assistant"} /\ c \in f[i].ids
        BY <2>2, <4>1 DEF Calls
      <4> QED BY <4>1, <4>2, IdsAt
    <3>5. c \in IdsOf(f, {"pending", "direct"})
      BY <3>1, <3>3, <3>4
    <3>6. PICK k \in 1..Len(f) : f[k].kind \in {"pending", "direct"} /\ c \in f[k].ids
      BY <3>5, IdsAt
    <3>7. k \in 1..Len(es) /\ k <= r /\ Tells(es, k, c)
      BY <3>2, <3>6 DEF Tells
    <3>8. k = r + j
      BY <1>2, <2>1, <3>7 DEF ToldOnce
    <3> QED BY <3>7, <3>8
  <2>4. PICK k \in 1..Len(t) : i = r + k
    <3>1. i - r \in 1..Len(t) /\ i = r + (i - r)
      BY <1>1, <2>2, <2>3
    <3> QED BY <3>1
  <2>5. k < j /\ Calls(t, k, c)
    BY <1>3, <2>2, <2>4
  <2>6. Silent(t, k, j)
    <3> SUFFICES ASSUME NEW a \in k + 1 .. j PROVE t[a].kind # "assistant"
      BY DEF Silent
    <3>1. a \in 1..Len(t) /\ r + a \in i + 1 .. r + j
      BY <2>4
    <3>2. t[a] = es[r + a]
      BY <1>3, <3>1
    <3>3. es[r + a].kind # "assistant"
      BY <2>2, <3>1 DEF Silent
    <3> QED BY <3>2, <3>3
  <2> QED BY <2>5, <2>6
<1>5. Numbered(t, n)
  <2> SUFFICES ASSUME NEW i \in 1..Len(t), t[i].kind \in {"assistant", "pending", "direct", "notification"} PROVE t[i].ids \subseteq 1..n
    BY DEF Numbered
  <2>1. r + i \in 1..Len(es) /\ t[i] = es[r + i]
    BY <1>3
  <2> QED BY <1>2, <2>1 DEF Numbered
<1>6. CalledOnce(t)
  <2> SUFFICES ASSUME NEW i \in 1..Len(t), NEW j \in 1..Len(t), NEW c \in Nat, Calls(t, i, c), Calls(t, j, c) PROVE i = j
    BY DEF CalledOnce
  <2>1. r + i \in 1..Len(es) /\ r + j \in 1..Len(es) /\ Calls(es, r + i, c) /\ Calls(es, r + j, c)
    BY <1>3
  <2>2. r + i = r + j
    BY <1>2, <2>1 DEF CalledOnce
  <2> QED BY <2>2
<1>7. ToldOnce(t)
  <2> SUFFICES ASSUME NEW i \in 1..Len(t), NEW j \in 1..Len(t), NEW c \in Nat, Tells(t, i, c), Tells(t, j, c) PROVE i = j
    BY DEF ToldOnce
  <2>1. r + i \in 1..Len(es) /\ r + j \in 1..Len(es) /\ Tells(es, r + i, c) /\ Tells(es, r + j, c)
    BY <1>3
  <2>2. r + i = r + j
    BY <1>2, <2>1 DEF ToldOnce
  <2> QED BY <2>2
<1>8. ToldAfter(t)
  BY <1>4 DEF ToldAfter
<1>9. Answered(t, {})
  <2> SUFFICES ASSUME NEW i \in 1..Len(t), NEW c \in Nat, Calls(t, i, c) PROVE \E j \in 1..Len(t) : Tells(t, j, c)
    BY DEF Answered
  <2>1. r + i \in 1..Len(es) /\ Calls(es, r + i, c)
    BY <1>3
  <2>2. PICK j \in 1..Len(es) : Tells(es, j, c)
    BY <1>2, <2>1 DEF Answered
  <2>3. PICK k \in 1..Len(es) : k < j /\ Calls(es, k, c)
    BY <1>2, <2>2 DEF ToldAfter
  <2>4. k = r + i
    BY <1>2, <2>1, <2>3 DEF CalledOnce
  <2>5. j - r \in 1..Len(t) /\ r + (j - r) = j
    BY <1>1, <2>3, <2>4
  <2>6. Tells(t, j - r, c)
    BY <1>3, <2>2, <2>5
  <2> QED BY <2>5, <2>6
<1>10. Awaited(t, {})
  BY DEF Awaited
<1>11. Threads(t, {}, n)
  BY <1>5, <1>6, <1>7, <1>8, <1>9, <1>10 DEF Threads
<1> QED BY <1>t, <1>11, Zenon
-----------------------------------------------------------------------------
(* What stays of the entries that are kept: all but inputs given back.     *)
Keeps(f, es) ==
  f = [n \in 0..Len(es) |-> IF n = 0 THEN <<>>
                            ELSE IF Emptied(Without(es[n])) THEN f[n - 1]
                            ELSE Append(f[n - 1], Without(es[n]))]
KeepSteps(f, es) == f[0] = <<>> /\ \A n \in 1..Len(es) : f[n] = KeepEntry(f[n - 1], es[n])

LEMMA KeepIs == ASSUME NEW es \in Seq(Entries) PROVE \E f : KeepSteps(f, es) /\ NewPrefix(es) = f[Len(es)]
<1>1. PICK g : Keep!Steps(g, <<>>, es)
  BY Keep!FoldSteps
<1>2. PICK h : h = [n \in 0..Len(es) |-> g[n]]
  OBVIOUS
<1>3. Keeps(h, es)
  <2>1. h[0] = <<>>
    BY <1>1, <1>2 DEF Keep!Steps
  <2>2. ASSUME NEW n \in 0..Len(es), n # 0 PROVE h[n] = KeepEntry(h[n - 1], es[n])
    <3>1. n \in 1..Len(es) /\ n - 1 \in 0..Len(es)
      BY <2>2
    <3>2. g[n] = KeepEntry(g[n - 1], es[n])
      BY <1>1, <3>1 DEF Keep!Steps
    <3> QED BY <1>2, <3>1, <3>2
  <2>3. h = [n \in 0..Len(es) |-> h[n]]
    BY <1>2
  <2> QED BY <2>1, <2>2, <2>3 DEF Keeps, KeepEntry
<1>4. NewPrefix(es) = (CHOOSE f : Keeps(f, es))[Len(es)]
  BY Zenon DEF NewPrefix, Keeps
<1>5. PICK f : f = (CHOOSE x : Keeps(x, es))
  OBVIOUS
<1>6. Keeps(f, es)
  BY <1>3, <1>5, Zenon
<1>7. KeepSteps(f, es)
  <2>1. f[0] = <<>>
    BY <1>6 DEF Keeps
  <2>2. ASSUME NEW n \in 1..Len(es) PROVE f[n] = KeepEntry(f[n - 1], es[n])
    <3>1. n \in 0..Len(es) /\ n # 0
      OBVIOUS
    <3> QED BY <1>6, <3>1 DEF Keeps, KeepEntry
  <2> QED BY <2>1, <2>2 DEF KeepSteps
<1> QED BY <1>4, <1>5, <1>7, Zenon

\* The entries of t are those of the first n of s, in their order, each at its place in at.
Stays(y, x) == y.kind = x.kind /\ (x.kind # "inputs" => y = x) /\ (x.kind = "inputs" => y.ids = x.ids \ inbox)
ThinnedAt(t, s, n, at) ==
  /\ t \in Seq(Entries) /\ at \in [1..Len(t) -> 1..n]
  /\ \A i, j \in 1..Len(t) : i < j => at[i] < at[j]
  /\ \A i \in 1..Len(t) : Stays(t[i], s[at[i]])
  /\ \A k \in 1..n : s[k].kind # "inputs" => \E i \in 1..Len(t) : at[i] = k
Thinned(t, s, n) == \E at : ThinnedAt(t, s, n, at)

LEMMA WithoutIs == ASSUME NEW x \in Entries PROVE Without(x) \in Entries /\ Stays(Without(x), x)
<1>1. CASE x.kind = "inputs"
  <2>1. Without(x) = [x EXCEPT !.ids = x.ids \ inbox]
    BY <1>1 DEF Without
  <2>2. Without(x).kind = x.kind /\ Without(x).ids = x.ids \ inbox
    BY <2>1 DEF Entries
  <2> QED BY <1>1, <2>1, <2>2 DEF Entries, Stays
<1>2. CASE x.kind # "inputs"
  BY <1>2 DEF Without, Stays
<1> QED BY <1>1, <1>2

LEMMA ThinnedMore ==
  ASSUME NEW s \in Seq(Entries), NEW n \in Nat, n + 1 <= Len(s), NEW t, Thinned(t, s, n)
  PROVE  Thinned(KeepEntry(t, s[n + 1]), s, n + 1)
<1>1. PICK at : ThinnedAt(t, s, n, at)
  BY DEF Thinned
<1>2. PICK x \in Entries : x = s[n + 1]
  OBVIOUS
<1>3. t \in Seq(Entries) /\ Len(t) \in Nat
  BY <1>1 DEF ThinnedAt
<1>4. CASE Emptied(Without(x))
  <2>1. x.kind = "inputs"
    BY <1>4, WithoutIs DEF Emptied, Stays
  <2>2. \A i \in 1..Len(t) : at[i] \in 1..n + 1
    BY <1>1 DEF ThinnedAt
  <2>3. at \in [1..Len(t) -> 1..n + 1]
    BY <1>1, <2>2 DEF ThinnedAt
  <2>4. ASSUME NEW k \in 1..n + 1, s[k].kind # "inputs" PROVE \E i \in 1..Len(t) : at[i] = k
    <3>1. k # n + 1
      BY <1>2, <2>1, <2>4
    <3>2. k \in 1..n
      BY <3>1
    <3> QED BY <1>1, <2>4, <3>2 DEF ThinnedAt
  <2>5. ThinnedAt(t, s, n + 1, at)
    BY <1>1, <2>3, <2>4 DEF ThinnedAt
  <2>6. KeepEntry(t, x) = t
    BY <1>4 DEF KeepEntry
  <2> QED BY <1>2, <2>5, <2>6 DEF Thinned
<1>5. CASE ~Emptied(Without(x))
  <2>y. PICK y \in Entries : y = Without(x)
    BY WithoutIs
  <2>u. PICK u : u = Append(t, y)
    OBVIOUS
  <2>m. PICK m \in Nat : m = Len(t) + 1
    BY <1>3
  <2>1. u \in Seq(Entries) /\ Len(u) = m /\ u[m] = y /\ \A i \in 1..Len(t) : u[i] = t[i]
    BY <1>3, <2>u, <2>m
  <2>2. \A i \in 1..m : i # m => i \in 1..Len(t)
    BY <1>3, <2>m
  <2>b. PICK to : to = [i \in 1..m |-> IF i = m THEN n + 1 ELSE at[i]]
    OBVIOUS
  <2>3. to[m] = n + 1 /\ \A i \in 1..Len(t) : i \in 1..m /\ i < m /\ i # m /\ to[i] = at[i] /\ at[i] \in 1..n
    BY <1>1, <1>3, <2>b, <2>m DEF ThinnedAt
  <2>4. to \in [1..m -> 1..n + 1]
    <3>1. ASSUME NEW i \in 1..m PROVE to[i] \in 1..n + 1
      BY <2>2, <2>3
    <3>2. to = [i \in 1..m |-> to[i]]
      BY <2>b
    <3> QED BY <3>1, <3>2
  <2>5. ASSUME NEW i \in 1..m, NEW j \in 1..m, i < j PROVE to[i] < to[j]
    <3>1. i \in 1..Len(t)
      BY <2>2, <2>5
    <3>2. CASE j = m
      BY <2>3, <3>1, <3>2
    <3>3. CASE j # m
      BY <1>1, <2>2, <2>3, <2>5, <3>1, <3>3 DEF ThinnedAt
    <3> QED BY <3>2, <3>3
  <2>6. ASSUME NEW i \in 1..m PROVE Stays(u[i], s[to[i]])
    <3>1. CASE i = m
      <4>1. Stays(y, x)
        BY <2>y, WithoutIs
      <4>2. u[i] = y /\ s[to[i]] = x
        BY <1>2, <2>1, <2>3, <3>1
      <4> QED BY <4>1, <4>2, Zenon
    <3>2. CASE i # m
      <4>1. u[i] = t[i] /\ to[i] = at[i] /\ i \in 1..Len(t)
        BY <2>1, <2>2, <2>3, <3>2
      <4>2. Stays(t[i], s[at[i]])
        BY <1>1, <4>1 DEF ThinnedAt
      <4> QED BY <4>1, <4>2, Zenon
    <3> QED BY <3>1, <3>2
  <2>7. ASSUME NEW k \in 1..n + 1, s[k].kind # "inputs" PROVE \E i \in 1..m : to[i] = k
    <3>1. CASE k = n + 1
      BY <2>3, <2>m, <3>1
    <3>2. CASE k # n + 1
      <4>1. k \in 1..n
        BY <3>2
      <4>2. PICK i \in 1..Len(t) : at[i] = k
        BY <1>1, <2>7, <4>1 DEF ThinnedAt
      <4> QED BY <2>3, <4>2
    <3> QED BY <3>1, <3>2
  <2>8. ThinnedAt(u, s, n + 1, to)
    BY <2>1, <2>4, <2>5, <2>6, <2>7 DEF ThinnedAt
  <2>9. KeepEntry(t, x) = u
    BY <1>5, <2>y, <2>u DEF KeepEntry
  <2> QED BY <1>2, <2>8, <2>9 DEF Thinned
<1> QED BY <1>4, <1>5

LEMMA PrefixThinned == ASSUME NEW s \in Seq(Entries) PROVE Thinned(NewPrefix(s), s, Len(s))
<1>1. PICK f : KeepSteps(f, s) /\ NewPrefix(s) = f[Len(s)]
  BY KeepIs
<1> DEFINE G == {n \in Nat : n <= Len(s) => Thinned(f[n], s, n)}
<1>2. 0 \in G
  <2>1. f[0] = <<>>
    BY <1>1 DEF KeepSteps
  <2>2. PICK at : at = [i \in 1..0 |-> 0]
    OBVIOUS
  <2>3. ThinnedAt(<<>>, s, 0, at)
    BY <2>2 DEF ThinnedAt
  <2> QED BY <2>1, <2>3 DEF Thinned
<1>3. ASSUME NEW n \in Nat, n \in G PROVE n + 1 \in G
  <2> SUFFICES ASSUME n + 1 <= Len(s) PROVE Thinned(f[n + 1], s, n + 1)
    OBVIOUS
  <2>1. Thinned(f[n], s, n)
    BY <1>3
  <2>2. n + 1 \in 1..Len(s) /\ (n + 1) - 1 = n
    OBVIOUS
  <2>3. f[n + 1] = KeepEntry(f[n], s[n + 1])
    BY <1>1, <2>2 DEF KeepSteps
  <2> QED BY <2>1, <2>3, ThinnedMore
<1> HIDE DEF G
<1>4. \A n \in Nat : n \in G
  BY <1>2, <1>3, Keep!Induct
<1>5. Thinned(f[Len(s)], s, Len(s))
  BY <1>4 DEF G
<1> QED BY <1>1, <1>5, Zenon

LEMMA PrefixNone == NewPrefix(<<>>) = <<>>
<1>1. <<>> \in Seq(Entries) /\ Len(<<>>) = 0
  OBVIOUS
<1>2. PICK f : KeepSteps(f, <<>>) /\ NewPrefix(<<>>) = f[Len(<<>>)]
  BY <1>1, KeepIs
<1> QED BY <1>1, <1>2 DEF KeepSteps

LEMMA ThreadsThin ==
  ASSUME NEW s \in Seq(Entries), NEW n, Threads(s, {}, n), NEW t, Thinned(t, s, Len(s))
  PROVE  Threads(t, {}, n)
<1>1. PICK at : ThinnedAt(t, s, Len(s), at)
  BY DEF Thinned
<1>2. Numbered(s, n) /\ CalledOnce(s) /\ ToldOnce(s) /\ ToldAfter(s) /\ Answered(s, {})
  BY DEF Threads
<1>3. \A i \in 1..Len(t) : at[i] \in 1..Len(s) /\ Stays(t[i], s[at[i]])
  BY <1>1 DEF ThinnedAt
<1>4. ASSUME NEW i \in 1..Len(t), NEW c
      PROVE  (Calls(t, i, c) <=> Calls(s, at[i], c)) /\ (Tells(t, i, c) <=> Tells(s, at[i], c))
  BY <1>3 DEF Stays, Calls, Tells
<1>5. ASSUME NEW k \in 1..Len(s), NEW c, Calls(s, k, c) \/ Tells(s, k, c) PROVE \E i \in 1..Len(t) : at[i] = k
  BY <1>1, <1>5 DEF Calls, Tells, ThinnedAt
<1>6. \A i, j \in 1..Len(t) : (at[i] < at[j] => i < j) /\ (at[i] = at[j] => i = j)
  <2> SUFFICES ASSUME NEW i \in 1..Len(t), NEW j \in 1..Len(t) PROVE (at[i] < at[j] => i < j) /\ (at[i] = at[j] => i = j)
    OBVIOUS
  <2>1. (i < j => at[i] < at[j]) /\ (j < i => at[j] < at[i])
    BY <1>1 DEF ThinnedAt
  <2>2. at[i] \in Nat /\ at[j] \in Nat
    BY <1>3
  <2> QED BY <2>1, <2>2
<1>7. Numbered(t, n)
  <2> SUFFICES ASSUME NEW i \in 1..Len(t), t[i].kind \in {"assistant", "pending", "direct", "notification"} PROVE t[i].ids \subseteq 1..n
    BY DEF Numbered
  <2>1. t[i] = s[at[i]] /\ at[i] \in 1..Len(s)
    BY <1>3 DEF Stays
  <2> QED BY <1>2, <2>1 DEF Numbered
<1>8. CalledOnce(t)
  <2> SUFFICES ASSUME NEW i \in 1..Len(t), NEW j \in 1..Len(t), NEW c \in Nat, Calls(t, i, c), Calls(t, j, c) PROVE i = j
    BY DEF CalledOnce
  <2>1. at[i] = at[j]
    BY <1>2, <1>3, <1>4 DEF CalledOnce
  <2> QED BY <1>6, <2>1
<1>9. ToldOnce(t)
  <2> SUFFICES ASSUME NEW i \in 1..Len(t), NEW j \in 1..Len(t), NEW c \in Nat, Tells(t, i, c), Tells(t, j, c) PROVE i = j
    BY DEF ToldOnce
  <2>1. at[i] = at[j]
    BY <1>2, <1>3, <1>4 DEF ToldOnce
  <2> QED BY <1>6, <2>1
<1>10. ToldAfter(t)
  <2> SUFFICES ASSUME NEW j \in 1..Len(t), NEW c \in Nat, Tells(t, j, c)
               PROVE  \E i \in 1..Len(t) : i < j /\ Calls(t, i, c) /\ Silent(t, i, j)
    BY DEF ToldAfter
  <2>1. at[j] \in 1..Len(s) /\ Tells(s, at[j], c)
    BY <1>3, <1>4
  <2>2. PICK k \in 1..Len(s) : k < at[j] /\ Calls(s, k, c) /\ Silent(s, k, at[j])
    BY <1>2, <2>1 DEF ToldAfter
  <2>3. PICK i \in 1..Len(t) : at[i] = k
    BY <1>5, <2>2
  <2>4. i < j /\ Calls(t, i, c)
    BY <1>4, <1>6, <2>2, <2>3
  <2>5. Silent(t, i, j)
    <3> SUFFICES ASSUME NEW a \in i + 1 .. j PROVE t[a].kind # "assistant"
      BY DEF Silent
    <3>1. a \in 1..Len(t) /\ i < a /\ (a < j \/ a = j)
      BY <1>1 DEF ThinnedAt
    <3>2. at[i] < at[a] /\ (at[a] < at[j] \/ at[a] = at[j])
      BY <1>1, <3>1 DEF ThinnedAt
    <3>3. at[a] \in k + 1 .. at[j]
      BY <1>3, <2>1, <2>3, <3>1, <3>2
    <3>4. s[at[a]].kind # "assistant"
      BY <2>2, <3>3 DEF Silent
    <3> QED BY <1>3, <3>1, <3>4 DEF Stays
  <2> QED BY <2>4, <2>5
<1>11. Answered(t, {})
  <2> SUFFICES ASSUME NEW i \in 1..Len(t), NEW c \in Nat, Calls(t, i, c) PROVE \E j \in 1..Len(t) : Tells(t, j, c)
    BY DEF Answered
  <2>1. at[i] \in 1..Len(s) /\ Calls(s, at[i], c)
    BY <1>3, <1>4
  <2>2. PICK k \in 1..Len(s) : Tells(s, k, c)
    BY <1>2, <2>1 DEF Answered
  <2>3. PICK j \in 1..Len(t) : at[j] = k
    BY <1>5, <2>2
  <2> QED BY <1>4, <2>2, <2>3
<1>12. Awaited(t, {})
  BY DEF Awaited
<1> QED BY <1>7, <1>8, <1>9, <1>10, <1>11, <1>12 DEF Threads

LEMMA InputsThin ==
  ASSUME NEW s \in Seq(Entries), NEW but, NEW n, Once(s, but), Arrived(s, n), NEW t, Thinned(t, s, Len(s))
  PROVE  /\ t \in Seq(Entries) /\ Once(t, but) /\ Arrived(t, n) /\ inbox \cap IdsOf(t, {"inputs"}) = {}
         /\ ResultsIn(s) \subseteq ResultsIn(t)
<1>1. PICK at : ThinnedAt(t, s, Len(s), at)
  BY DEF Thinned
<1>2. t \in Seq(Entries) /\ \A i \in 1..Len(t) : at[i] \in 1..Len(s) /\ Stays(t[i], s[at[i]])
  BY <1>1 DEF ThinnedAt
<1>3. ASSUME NEW i \in 1..Len(t), NEW x, Inputs(t, i, x) PROVE Inputs(s, at[i], x) /\ x \notin inbox
  BY <1>2, <1>3 DEF Stays, Inputs
<1>4. Once(t, but)
  <2> SUFFICES ASSUME NEW i \in 1..Len(t), NEW j \in 1..Len(t), NEW x \in Nat, Inputs(t, i, x), Inputs(t, j, x), x \notin but PROVE i = j
    BY DEF Once
  <2>1. at[i] = at[j]
    BY <1>2, <1>3 DEF Once
  <2>2. (i < j => at[i] < at[j]) /\ (j < i => at[j] < at[i]) /\ at[i] \in Nat
    BY <1>1 DEF ThinnedAt
  <2> QED BY <2>1, <2>2
<1>5. Arrived(t, n)
  <2> SUFFICES ASSUME NEW i \in 1..Len(t), t[i].kind = "inputs" PROVE t[i].ids \subseteq 1..n
    BY DEF Arrived
  <2>1. s[at[i]].kind = "inputs" /\ t[i].ids \subseteq s[at[i]].ids /\ at[i] \in 1..Len(s)
    BY <1>2 DEF Stays
  <2> QED BY <2>1 DEF Arrived
<1>6. ASSUME NEW x \in inbox, x \in IdsOf(t, {"inputs"}) PROVE FALSE
  <2>1. PICK i \in 1..Len(t) : t[i].kind \in {"inputs"} /\ x \in t[i].ids
    BY <1>6, IdsAt
  <2> QED BY <1>3, <2>1 DEF Inputs
<1>7. ASSUME NEW c \in ResultsIn(s) PROVE c \in ResultsIn(t)
  <2>1. PICK k \in 1..Len(s) : s[k].kind \in {"direct", "notification"} /\ c \in s[k].ids
    BY IdsAt DEF ResultsIn
  <2>2. PICK i \in 1..Len(t) : at[i] = k
    BY <1>1, <2>1 DEF ThinnedAt
  <2>3. t[i] = s[k]
    BY <1>2, <2>1, <2>2 DEF Stays
  <2>4. t[i].kind \in {"direct", "notification"} /\ c \in t[i].ids
    BY <2>1, <2>3
  <2> QED BY <2>4, IdsAt DEF ResultsIn
<1> QED BY <1>2, <1>4, <1>5, <1>6, <1>7
-----------------------------------------------------------------------------
(* What is told about the pending calls.                                   *)
Worth(c) == pending[c].result > 0 \/ pending[c].delivery = "fresh"
News(c) ==
  IF pending[c].result > 0 THEN Entry(IF pending[c].delivery = "fresh" THEN "direct" ELSE "notification", {c}, pending[c].result)
  ELSE Entry("pending", {c}, 1)

\* Of the calls up to n: what is worth telling, once.
Tidings(t, n) ==
  /\ t \in Seq(Entries)
  /\ \A i \in 1..Len(t) : \E c \in 1..n : Worth(c) /\ t[i] = News(c)
  /\ \A i, j \in 1..Len(t) : t[i].ids = t[j].ids => i = j
  /\ \A c \in 1..n : Worth(c) => \E i \in 1..Len(t) : t[i] = News(c)

LEMMA NewsIs ==
  ASSUME PendingTypes, NEW c \in 1..MaxCalls
  PROVE  /\ News(c) \in Entries /\ News(c).ids = {c} /\ News(c).kind \in {"pending", "direct", "notification"}
         /\ Worth(c) => (News(c).kind \in {"pending", "direct"} <=> pending[c].delivery = "fresh")
         /\ News(c).kind \in {"direct", "notification"} <=> pending[c].result > 0
<1>1. pending[c].result \in Nat
  BY DEF PendingTypes, ToolStates
<1>2. CASE pending[c].result > 0
  <2>1. PICK k \in {"direct", "notification"} : (k = "direct" <=> pending[c].delivery = "fresh") /\ News(c) = Entry(k, {c}, pending[c].result)
    BY <1>2 DEF News
  <2>2. k \in Kinds /\ {c} \in SUBSET Nat
    BY DEF Kinds
  <2> QED BY <1>1, <1>2, <2>1, <2>2, EntryMade, EntryHas
<1>3. CASE ~(pending[c].result > 0)
  <2>1. News(c) = Entry("pending", {c}, 1)
    BY <1>3 DEF News
  <2>2. "pending" \in Kinds /\ {c} \in SUBSET Nat
    BY DEF Kinds
  <2> QED BY <1>3, <2>1, <2>2, EntryMade, EntryHas DEF Worth
<1> QED BY <1>2, <1>3

LEMMA DeliveryIs ==
  ASSUME PendingTypes, NEW c \in 1..MaxCalls
  PROVE  Delivery(c) = IF Worth(c) THEN <<News(c)>> ELSE <<>>
<1>1. pending[c].result \in Nat
  BY DEF PendingTypes, ToolStates
<1>2. CASE pending[c].result > 0
  BY <1>2 DEF Delivery, Worth, News
<1>3. CASE pending[c].result = 0 /\ pending[c].delivery = "fresh"
  BY <1>3 DEF Delivery, Worth, News
<1>4. CASE pending[c].result = 0 /\ pending[c].delivery # "fresh"
  BY <1>4 DEF Delivery, Worth
<1> QED BY <1>1, <1>2, <1>3, <1>4

LEMMA TidingsMore ==
  ASSUME PendingTypes, NEW n \in Nat, n + 1 \in 1..MaxCalls, NEW t, Tidings(t, n)
  PROVE  Tidings(t \o Delivery(n + 1), n + 1)
<1>m. PICK m \in 1..MaxCalls : m = n + 1
  OBVIOUS
<1>1. t \in Seq(Entries) /\ (\A c \in 1..n : c \in 1..m /\ c # m) /\ (\A c \in 1..m : c = m \/ c \in 1..n) /\ m \in 1..m
  BY <1>m DEF Tidings
<1>2. CASE ~Worth(m)
  <2>1. Delivery(m) = <<>>
    BY <1>2, DeliveryIs
  <2>2. t \o Delivery(m) = t
    BY <1>1, <2>1
  <2>3. Tidings(t, m)
    BY <1>1, <1>2 DEF Tidings
  <2> QED BY <1>m, <2>2, <2>3
<1>3. CASE Worth(m)
  <2>x. PICK x : x = News(m)
    OBVIOUS
  <2>1. x \in Entries /\ x.ids = {m}
    BY <2>x, NewsIs, Zenon
  <2>2. Delivery(m) = <<x>>
    BY <1>3, <2>x, DeliveryIs
  <2>u. PICK u : u = Append(t, x)
    OBVIOUS
  <2>k. PICK k \in Nat : k = Len(t) + 1
    BY <1>1
  <2>3. u \in Seq(Entries) /\ Len(u) = k /\ u[k] = x /\ \A i \in 1..Len(t) : u[i] = t[i]
    BY <1>1, <2>1, <2>u, <2>k
  <2>4. (\A i \in 1..k : i = k \/ i \in 1..Len(t)) /\ k \in 1..k /\ \A i \in 1..Len(t) : i \in 1..k
    BY <1>1, <2>k
  <2>5. ASSUME NEW i \in 1..Len(t) PROVE \E c \in 1..n : Worth(c) /\ t[i] = News(c) /\ t[i].ids = {c} /\ c # m /\ c \in 1..m
    <3>1. PICK c \in 1..n : Worth(c) /\ t[i] = News(c)
      BY DEF Tidings
    <3>2. c \in 1..MaxCalls /\ c # m /\ c \in 1..m
      BY <1>1, <1>m, Bounds
    <3>3. News(c).ids = {c}
      BY <3>2, NewsIs
    <3> QED BY <3>1, <3>2, <3>3
  <2>6. ASSUME NEW i \in 1..k PROVE \E c \in 1..m : Worth(c) /\ u[i] = News(c)
    <3>1. CASE i = k
      BY <1>1, <1>3, <2>3, <2>x, <3>1
    <3>2. CASE i # k
      BY <2>3, <2>4, <2>5, <3>2
    <3> QED BY <3>1, <3>2
  <2>7. ASSUME NEW i \in 1..Len(t) PROVE u[i].ids # u[k].ids
    <3>1. u[i].ids = t[i].ids /\ u[k].ids = {m}
      BY <2>1, <2>3
    <3> QED BY <2>5, <3>1
  <2>8. ASSUME NEW i \in 1..k, NEW j \in 1..k, u[i].ids = u[j].ids PROVE i = j
    <3>1. CASE i = k \/ j = k
      BY <2>4, <2>7, <2>8, <3>1
    <3>2. CASE i # k /\ j # k
      <4>1. i \in 1..Len(t) /\ j \in 1..Len(t)
        BY <2>4, <3>2
      <4>2. t[i].ids = t[j].ids
        BY <2>3, <2>8, <4>1
      <4> QED BY <4>1, <4>2 DEF Tidings
    <3> QED BY <3>1, <3>2
  <2>9. ASSUME NEW c \in 1..m, Worth(c) PROVE \E i \in 1..k : u[i] = News(c)
    <3>1. CASE c = m
      BY <2>3, <2>4, <2>x, <3>1
    <3>2. CASE c # m
      <4>1. PICK i \in 1..Len(t) : t[i] = News(c)
        BY <1>1, <2>9, <3>2 DEF Tidings
      <4> QED BY <2>3, <2>4, <4>1
    <3> QED BY <3>1, <3>2
  <2>10. Tidings(u, m)
    BY <2>3, <2>6, <2>8, <2>9 DEF Tidings
  <2>11. t \o Delivery(m) = u
    BY <1>1, <2>1, <2>2, <2>u
  <2> QED BY <1>m, <2>10, <2>11
<1> QED BY <1>2, <1>3

Flattens(f, ts) == f = [i \in 1..Len(ts) |-> IF i = 1 THEN ts[i] ELSE f[i - 1] \o ts[i]]
LEMMA Flattened ==
  ASSUME NEW ts \in Seq(Seq(Entries)), Len(ts) > 0
  PROVE  \E f : FlattenSeq(ts) = f[Len(ts)] /\ f[1] = ts[1] /\ \A i \in 2..Len(ts) : f[i] = f[i - 1] \o ts[i]
<1>1. PICK g : Tell!Steps(g, <<>>, ts)
  BY Tell!FoldSteps
<1>2. PICK h : h = [i \in 1..Len(ts) |-> g[i]]
  OBVIOUS
<1>3. Flattens(h, ts)
  <2>1. h[1] = ts[1]
    <3>1. 1 \in 1..Len(ts) /\ ts[1] \in Seq(Entries)
      OBVIOUS
    <3>2. g[1] = AddAll(g[1 - 1], ts[1]) /\ g[0] = <<>>
      BY <1>1, <3>1 DEF Tell!Steps
    <3>3. 1 - 1 = 0 /\ <<>> \o ts[1] = ts[1]
      BY <3>1
    <3>4. g[1] = ts[1]
      BY <3>2, <3>3, Zenon DEF AddAll
    <3> QED BY <1>2, <3>1, <3>4
  <2>2. ASSUME NEW i \in 1..Len(ts), i # 1 PROVE h[i] = h[i - 1] \o ts[i]
    <3>1. i - 1 \in 1..Len(ts)
      BY <2>2
    <3>2. g[i] = g[i - 1] \o ts[i]
      BY <1>1 DEF Tell!Steps, AddAll
    <3> QED BY <1>2, <3>1, <3>2
  <2>3. h = [i \in 1..Len(ts) |-> h[i]]
    BY <1>2
  <2> QED BY <2>1, <2>2, <2>3 DEF Flattens
<1>4. FlattenSeq(ts) = (CHOOSE f : Flattens(f, ts))[Len(ts)]
  <2>1. ~(Len(ts) = 0)
    OBVIOUS
  <2> QED BY <2>1, Zenon DEF FlattenSeq, Flattens
<1>5. PICK f : f = (CHOOSE x : Flattens(x, ts))
  OBVIOUS
<1>6. Flattens(f, ts)
  BY <1>3, <1>5, Zenon
<1>7. f[1] = ts[1]
  BY <1>6 DEF Flattens
<1>8. ASSUME NEW i \in 2..Len(ts) PROVE f[i] = f[i - 1] \o ts[i]
  <2>1. i \in 1..Len(ts) /\ i # 1
    OBVIOUS
  <2> QED BY <1>6, <2>1 DEF Flattens
<1> QED BY <1>4, <1>5, <1>7, <1>8, Zenon

LEMMA DeliveriesTell == ASSUME PendingTypes PROVE Tidings(Deliveries, calls)
<1>t. PICK ts : ts = [c \in 1..calls |-> Delivery(c)]
  OBVIOUS
<1>0. calls \in Nat /\ calls <= MaxCalls
  BY Bounds DEF PendingTypes
<1>1. ASSUME NEW c \in 1..calls PROVE ts[c] = Delivery(c) /\ Delivery(c) \in Seq(Entries)
  <2>1. c \in 1..MaxCalls
    BY <1>0, Bounds
  <2>2. Delivery(c) = <<News(c)>> \/ Delivery(c) = <<>>
    BY <2>1, DeliveryIs
  <2>3. <<News(c)>> \in Seq(Entries)
    BY <2>1, NewsIs
  <2>4. <<>> \in Seq(Entries)
    OBVIOUS
  <2>5. Delivery(c) \in Seq(Entries)
    BY <2>2, <2>3, <2>4, Zenon
  <2>6. ts[c] = Delivery(c)
    BY <1>t
  <2> QED BY <2>5, <2>6
<1>2. ts \in Seq(Seq(Entries)) /\ Len(ts) = calls
  BY <1>t, <1>0, <1>1
<1>3. Deliveries = FlattenSeq(ts)
  BY <1>t DEF Deliveries
<1>4. Tidings(<<>>, 0)
  BY DEF Tidings
<1>5. CASE calls = 0
  <2>1. FlattenSeq(ts) = ts
    BY <1>2, <1>5 DEF FlattenSeq
  <2>2. ts = <<>>
    BY <1>2, <1>5
  <2> QED BY <1>3, <1>4, <1>5, <2>1, <2>2
<1>6. CASE calls > 0
  <2>1. PICK f : FlattenSeq(ts) = f[calls] /\ f[1] = ts[1] /\ \A i \in 2..calls : f[i] = f[i - 1] \o ts[i]
    BY <1>2, <1>6, Flattened
  <2> DEFINE G == {n \in Nat : n + 1 <= calls => Tidings(f[n + 1], n + 1)}
  <2>2. 0 \in G
    <3>1. 1 \in 1..calls /\ 0 + 1 \in 1..MaxCalls
      BY <1>0, <1>6, Bounds
    <3>2. Tidings(<<>> \o Delivery(0 + 1), 0 + 1)
      BY <1>4, <3>1, TidingsMore
    <3>3. <<>> \o Delivery(1) = Delivery(1)
      BY <1>1, <3>1
    <3>4. f[1] = Delivery(1)
      BY <1>1, <2>1, <3>1
    <3> QED BY <3>2, <3>3, <3>4
  <2>3. ASSUME NEW n \in Nat, n \in G PROVE n + 1 \in G
    <3> SUFFICES ASSUME (n + 1) + 1 <= calls PROVE Tidings(f[(n + 1) + 1], (n + 1) + 1)
      OBVIOUS
    <3>k. PICK k \in Nat : k = n + 1
      OBVIOUS
    <3>1. Tidings(f[k], k)
      <4>1. Tidings(f[n + 1], n + 1)
        BY <1>0, <2>3
      <4> QED BY <3>k, <4>1, Zenon
    <3>2. k + 1 \in 1..MaxCalls /\ k + 1 \in 2..calls /\ k + 1 \in 1..calls /\ (k + 1) - 1 = k
      BY <1>0, <3>k, Bounds
    <3>3. f[k + 1] = f[k] \o Delivery(k + 1)
      BY <1>1, <2>1, <3>2
    <3>4. Tidings(f[k] \o Delivery(k + 1), k + 1)
      BY <3>1, <3>2, TidingsMore
    <3> QED BY <3>k, <3>3, <3>4
  <2> HIDE DEF G
  <2>4. \A n \in Nat : n \in G
    BY <2>2, <2>3, Tell!Induct
  <2>5. calls - 1 \in Nat /\ (calls - 1) + 1 = calls
    BY <1>0, <1>6
  <2>6. Tidings(f[calls], calls)
    BY <2>4, <2>5 DEF G
  <2> QED BY <1>3, <2>1, <2>6
<1> QED BY <1>0, <1>5, <1>6
\* Appending entries that are no inputs.
LEMMA InputsJoin ==
  ASSUME NEW s \in Seq(Entries), NEW t \in Seq(Entries), NEW u, Joins(u, s, t), \A i \in 1..Len(t) : t[i].kind # "inputs",
         NEW but, NEW n, Once(s, but), Arrived(s, n)
  PROVE  Once(u, but) /\ Arrived(u, n) /\ IdsOf(u, {"inputs"}) \subseteq IdsOf(s, {"inputs"})
<1>1. ASSUME NEW i \in 1..Len(u), u[i].kind = "inputs" PROVE i \in 1..Len(s) /\ u[i] = s[i]
  <2>1. CASE i \in 1..Len(s) /\ u[i] = s[i]
    BY <2>1
  <2>2. CASE \E j \in 1..Len(t) : i = Len(s) + j /\ u[i] = t[j]
    BY <1>1, <2>2
  <2> QED BY <2>1, <2>2, JoinAt
<1>2. ASSUME NEW i \in 1..Len(u), NEW x, Inputs(u, i, x) PROVE i \in 1..Len(s) /\ Inputs(s, i, x)
  BY <1>1, <1>2 DEF Inputs
<1>3. Once(u, but)
  <2> SUFFICES ASSUME NEW i \in 1..Len(u), NEW j \in 1..Len(u), NEW x \in Nat, Inputs(u, i, x), Inputs(u, j, x) PROVE i = j \/ x \in but
    BY DEF Once
  <2>1. i \in 1..Len(s) /\ Inputs(s, i, x) /\ j \in 1..Len(s) /\ Inputs(s, j, x)
    BY <1>2
  <2> QED BY <2>1 DEF Once
<1>4. Arrived(u, n)
  <2> SUFFICES ASSUME NEW i \in 1..Len(u), u[i].kind = "inputs" PROVE u[i].ids \subseteq 1..n
    BY DEF Arrived
  <2>1. i \in 1..Len(s) /\ u[i] = s[i] /\ s[i].kind = "inputs"
    BY <1>1
  <2>2. s[i].ids \subseteq 1..n
    BY <2>1 DEF Arrived
  <2> QED BY <2>1, <2>2
<1>5. ASSUME NEW x \in IdsOf(u, {"inputs"}) PROVE x \in IdsOf(s, {"inputs"})
  <2>1. PICK i \in 1..Len(u) : u[i].kind \in {"inputs"} /\ x \in u[i].ids
    BY IdsAt
  <2>2. i \in 1..Len(s) /\ s[i].kind \in {"inputs"} /\ x \in s[i].ids
    BY <1>1, <2>1
  <2> QED BY <2>2, IdsAt
<1> QED BY <1>3, <1>4, <1>5

LEMMA ResultsJoin ==
  ASSUME NEW s \in Seq(Entries), NEW t \in Seq(Entries), NEW u, Joins(u, s, t)
  PROVE  ResultsIn(u) = ResultsIn(s) \cup ResultsIn(t)
<1>1. ASSUME NEW c \in ResultsIn(s) PROVE c \in ResultsIn(u)
  <2>1. PICK i \in 1..Len(s) : s[i].kind \in {"direct", "notification"} /\ c \in s[i].ids
    BY IdsAt DEF ResultsIn
  <2>2. i \in 1..Len(u) /\ u[i] = s[i]
    BY FirstPart
  <2>3. u[i].kind \in {"direct", "notification"} /\ c \in u[i].ids
    BY <2>1, <2>2
  <2> QED BY <2>2, <2>3, IdsAt DEF ResultsIn
<1>2. ASSUME NEW c \in ResultsIn(t) PROVE c \in ResultsIn(u)
  <2>1. PICK i \in 1..Len(t) : t[i].kind \in {"direct", "notification"} /\ c \in t[i].ids
    BY IdsAt DEF ResultsIn
  <2>2. Len(s) + i \in 1..Len(u) /\ u[Len(s) + i] = t[i]
    BY SecondPart
  <2>3. u[Len(s) + i].kind \in {"direct", "notification"} /\ c \in u[Len(s) + i].ids
    BY <2>1, <2>2
  <2> QED BY <2>2, <2>3, IdsAt DEF ResultsIn
<1>3. ASSUME NEW c \in ResultsIn(u) PROVE c \in ResultsIn(s) \/ c \in ResultsIn(t)
  <2>1. PICK i \in 1..Len(u) : u[i].kind \in {"direct", "notification"} /\ c \in u[i].ids
    BY IdsAt DEF ResultsIn
  <2>2. CASE i \in 1..Len(s) /\ u[i] = s[i]
    <3>1. s[i].kind \in {"direct", "notification"} /\ c \in s[i].ids
      BY <2>1, <2>2
    <3> QED BY <2>2, <3>1, IdsAt DEF ResultsIn
  <2>3. CASE \E j \in 1..Len(t) : i = Len(s) + j /\ u[i] = t[j]
    <3>1. PICK j \in 1..Len(t) : u[i] = t[j]
      BY <2>3
    <3>2. t[j].kind \in {"direct", "notification"} /\ c \in t[j].ids
      BY <2>1, <3>1
    <3> QED BY <3>2, IdsAt DEF ResultsIn
  <2> QED BY <2>2, <2>3, JoinAt
<1> QED BY <1>1, <1>2, <1>3

LEMMA DeliveriesFollow ==
  ASSUME PendingTypes
  PROVE  /\ Deliveries \in Seq(Entries) /\ Follows(Deliveries, Fresh, calls)
         /\ \A i \in 1..Len(Deliveries) : Deliveries[i].kind # "inputs"
         /\ \A c \in 1..calls : pending[c].result > 0 => c \in ResultsIn(Deliveries)
<1>t. PICK t : t = Deliveries
  OBVIOUS
<1>1. Tidings(t, calls)
  BY <1>t, DeliveriesTell, Zenon
<1>2. t \in Seq(Entries)
  BY <1>1 DEF Tidings
<1>0. \A c \in 1..calls : c \in 1..MaxCalls /\ c \in Nat
  BY Bounds DEF PendingTypes
<1>3. ASSUME NEW i \in 1..Len(t)
      PROVE  \E c \in 1..calls : /\ t[i].ids = {c} /\ t[i].kind \in {"pending", "direct", "notification"}
                                 /\ t[i].kind \in {"pending", "direct"} <=> pending[c].delivery = "fresh"
  <2>1. PICK c \in 1..calls : Worth(c) /\ t[i] = News(c)
    BY <1>1 DEF Tidings
  <2>2. /\ News(c).ids = {c} /\ News(c).kind \in {"pending", "direct", "notification"}
        /\ News(c).kind \in {"pending", "direct"} <=> pending[c].delivery = "fresh"
    BY <1>0, <2>1, NewsIs
  <2> QED BY <2>1, <2>2, Zenon
<1>4. ToldOnce(t)
  <2> SUFFICES ASSUME NEW i \in 1..Len(t), NEW j \in 1..Len(t), NEW c \in Nat, Tells(t, i, c), Tells(t, j, c) PROVE i = j
    BY DEF ToldOnce
  <2>1. t[i].ids = {c} /\ t[j].ids = {c}
    BY <1>3 DEF Tells
  <2> QED BY <1>1, <2>1 DEF Tidings
<1>5. Numbered(t, calls)
  <2> SUFFICES ASSUME NEW i \in 1..Len(t) PROVE t[i].ids \subseteq 1..calls
    BY DEF Numbered
  <2> QED BY <1>3
<1>6. ASSUME NEW c \in Nat PROVE c \in Fresh <=> \E i \in 1..Len(t) : Tells(t, i, c)
  <2>1. ASSUME c \in Fresh PROVE \E i \in 1..Len(t) : Tells(t, i, c)
    <3>1. c \in 1..calls /\ pending[c].delivery = "fresh" /\ Worth(c)
      BY <2>1 DEF Fresh, Worth
    <3>2. PICK i \in 1..Len(t) : t[i] = News(c)
      BY <1>1, <3>1 DEF Tidings
    <3>3. News(c).ids = {c} /\ News(c).kind \in {"pending", "direct"}
      BY <1>0, <3>1, NewsIs
    <3>4. Tells(t, i, c)
      BY <3>2, <3>3 DEF Tells
    <3> QED BY <3>4
  <2>2. ASSUME NEW i \in 1..Len(t), Tells(t, i, c) PROVE c \in Fresh
    BY <1>3, <2>2 DEF Tells, Fresh
  <2> QED BY <2>1, <2>2
<1>7. \A i \in 1..Len(t) : t[i].kind # "assistant" /\ t[i].kind # "inputs"
  BY <1>3
<1>8. Follows(t, Fresh, calls)
  BY <1>4, <1>5, <1>6, <1>7 DEF Follows
<1>9. ASSUME NEW c \in 1..calls, pending[c].result > 0 PROVE c \in ResultsIn(t)
  <2>1. Worth(c)
    BY <1>9 DEF Worth
  <2>2. PICK i \in 1..Len(t) : t[i] = News(c)
    BY <1>1, <2>1 DEF Tidings
  <2>3. News(c).ids = {c} /\ News(c).kind \in {"direct", "notification"}
    BY <1>0, <1>9, NewsIs
  <2>4. t[i].kind \in {"direct", "notification"} /\ c \in t[i].ids
    BY <2>2, <2>3
  <2> QED BY <2>4, IdsAt DEF ResultsIn
<1> QED BY <1>t, <1>2, <1>7, <1>8, <1>9, Zenon

LEMMA SentIs ==
  ASSUME NEW p \in ToolStates
  PROVE  LET q == [p EXCEPT !.delivery = IF @ = "fresh" THEN "sent" ELSE @]
         IN q \in ToolStates /\ q.result = p.result /\ q.delivery = IF p.delivery = "fresh" THEN "sent" ELSE p.delivery
  BY DEF ToolStates
LEMMA NoToolIs == NoTool \in ToolStates /\ NoTool.delivery = "none" /\ NoTool.result = 0
  BY DEF NoTool, ToolStates
LEMMA PendingIs == ASSUME PendingTypes, NEW c \in 1..MaxCalls PROVE pending[c] \in ToolStates
  BY DEF PendingTypes
LEMMA CallsIn == ASSUME PendingTypes PROVE calls \in Nat /\ calls <= MaxCalls /\ \A c \in 1..calls : c \in 1..MaxCalls /\ c \in Nat
  BY Bounds DEF PendingTypes
-----------------------------------------------------------------------------
(* Every step keeps the invariant.                                         *)

\* What a step that leaves the calls alone keeps of their types.
LEMMA PendingKept ==
  ASSUME PendingTypes, calls' = calls, pending' \in [1..MaxCalls -> ToolStates],
         \A c \in 1..MaxCalls : /\ pending'[c].delivery = "none" => pending'[c].result = 0
                                /\ c > calls => pending'[c].delivery = "none"
  PROVE  PendingTypes'
<1>1. calls' \in 0..MaxCalls
  BY DEF PendingTypes
<1>2. \A c \in 1..MaxCalls : (pending'[c].delivery = "none" => pending'[c].result = 0) /\ (c > calls' => pending'[c].delivery = "none")
  <2> TAKE c \in 1..MaxCalls
  <2>1. /\ pending'[c].delivery = "none" => pending'[c].result = 0
        /\ c > calls => pending'[c].delivery = "none"
    OBVIOUS
  <2> QED BY <2>1, Zenon
<1> QED BY <1>1, <1>2, Zenon DEF PendingTypes

\* Nothing is fresh any more once it has been told.
LEMMA ThreadsTold ==
  ASSUME NEW s \in Seq(Entries), PendingTypes, Threads(s, Fresh, calls)
  PROVE  Threads(s \o Deliveries, {}, calls)
<1>1. Deliveries \in Seq(Entries) /\ Follows(Deliveries, Fresh, calls)
  BY DeliveriesFollow
<1>2. Joins(s \o Deliveries, s, Deliveries)
  BY <1>1, JoinIs
<1>3. Fresh \in SUBSET Nat /\ Fresh \in SUBSET Fresh /\ Fresh \ Fresh = {}
  BY CallsIn DEF Fresh
<1>4. Threads(s \o Deliveries, Fresh \ Fresh, calls)
  BY <1>1, <1>2, <1>3, ThreadsFollow
<1> QED BY <1>3, <1>4, Zenon

LEMMA ConsumedIs ==
  ASSUME NEW ids, ids \subseteq Nat, NEW n
  PROVE  /\ Consumed(ids) \in Seq(Entries) /\ Follows(Consumed(ids), {}, n)
         /\ \A i \in 1..Len(Consumed(ids)) : i = 1 /\ Consumed(ids)[i].kind = "inputs" /\ Consumed(ids)[i].ids = ids
<1>x. PICK x : x = Entry("inputs", ids, 1)
  OBVIOUS
<1>1. x \in Entries /\ x.kind = "inputs" /\ x.ids = ids
  BY <1>x, EntryMade, EntryHas DEF Kinds
<1>t. PICK t : t = Consumed(ids)
  OBVIOUS
<1>2. t = <<>> \/ t = <<x>>
  BY <1>x, <1>t DEF Consumed
<1>3. t \in Seq(Entries) /\ \A i \in 1..Len(t) : i = 1 /\ t[i] = x
  <2>1. CASE t = <<>>
    BY <2>1
  <2>2. CASE t = <<x>>
    BY <1>1, <2>2
  <2> QED BY <1>2, <2>1, <2>2
<1>4. \A i \in 1..Len(t) : i = 1 /\ t[i].kind = "inputs" /\ t[i].ids = ids
  BY <1>1, <1>3, Zenon
<1>5. Follows(t, {}, n)
  BY <1>4 DEF Follows, Numbered, ToldOnce, Tells
<1> QED BY <1>t, <1>3, <1>4, <1>5, Zenon

LEMMA StepStartConversation == ASSUME RetentionInv, StartConversation PROVE RetentionInv'
<1>0. RetentionTypes /\ Cutting /\ Threads(entries, Fresh, calls) /\ InputsHeld /\ ResultsKept
  BY DEF RetentionInv
<1>1. /\ entries \in Seq(Entries) /\ PendingTypes /\ arrived \in Nat /\ inbox \subseteq 1..arrived /\ inbox \subseteq Nat
      /\ RequestTypes /\ summary \in Nat
  BY <1>0 DEF RetentionTypes
<1>2. /\ request = NoRequest /\ ~progress.on /\ failure # "overflow"
      /\ request' = [purpose |-> "conversation", consumed |-> inbox] /\ inbox' = {} /\ failure' = "none"
      /\ summary' = summary /\ calls' = calls /\ arrived' = arrived /\ progress' = progress
      /\ given' = given /\ dropped' = dropped /\ twice' = twice
  BY DEF StartConversation
<1>p. pending' = [c \in 1..MaxCalls |-> IF pending[c].result > 0 THEN NoTool
                                       ELSE [pending[c] EXCEPT !.delivery = IF @ = "fresh" THEN "sent" ELSE @]]
  BY DEF StartConversation
<1>d. PICK d : d = Deliveries
  OBVIOUS
<1>3. /\ d \in Seq(Entries) /\ \A i \in 1..Len(d) : d[i].kind # "inputs"
      /\ \A c \in 1..calls : pending[c].result > 0 => c \in ResultsIn(d)
  BY <1>1, <1>d, DeliveriesFollow, Zenon
<1>c. PICK c : c = Consumed(inbox)
  OBVIOUS
<1>4. /\ c \in Seq(Entries) /\ Follows(c, {}, calls)
      /\ \A i \in 1..Len(c) : i = 1 /\ c[i].kind = "inputs" /\ c[i].ids = inbox
  BY <1>1, <1>c, ConsumedIs, Zenon
<1>m. PICK m : m = entries \o c
  OBVIOUS
<1>5. m \in Seq(Entries) /\ Joins(m, entries, c)
  BY <1>1, <1>4, <1>m, JoinIs, Zenon
<1>u. PICK u : u = m \o d
  OBVIOUS
<1>6. u \in Seq(Entries) /\ Joins(u, m, d)
  BY <1>3, <1>5, <1>u, JoinIs, Zenon
<1>7. entries' = u
  BY <1>c, <1>d, <1>m, <1>u, Zenon DEF StartConversation
<1>8. ASSUME NEW k \in 1..MaxCalls
      PROVE  /\ pending'[k] \in ToolStates /\ pending'[k].delivery \in {"none", "sent"}
             /\ pending'[k].delivery = "none" => pending'[k].result = 0
             /\ k > calls => pending'[k].delivery = "none"
             /\ pending'[k].delivery # "none" \/ pending[k].result > 0 \/ pending[k].delivery = "none"
  <2>1. pending[k] \in ToolStates /\ (pending[k].delivery = "none" => pending[k].result = 0) /\ (k > calls => pending[k].delivery = "none")
    BY <1>1 DEF PendingTypes
  <2>2. CASE pending[k].result > 0
    <3>1. pending'[k] = NoTool
      BY <1>p, <2>2
    <3> QED BY <2>2, <3>1, NoToolIs
  <2>3. CASE ~(pending[k].result > 0)
    <3>1. pending'[k] = [pending[k] EXCEPT !.delivery = IF @ = "fresh" THEN "sent" ELSE @]
      BY <1>p, <2>3
    <3>2. pending'[k] \in ToolStates /\ pending'[k].result = pending[k].result /\ pending'[k].delivery = IF pending[k].delivery = "fresh" THEN "sent" ELSE pending[k].delivery
      BY <2>1, <3>1, SentIs
    <3>3. pending[k].delivery \in {"none", "fresh", "sent"}
      BY <2>1 DEF ToolStates
    <3> QED BY <2>1, <3>2, <3>3
  <2> QED BY <2>2, <2>3
<1>9. PendingTypes'
  <2>1. pending' \in [1..MaxCalls -> ToolStates]
    BY <1>p, <1>8
  <2> QED BY <1>1, <1>2, <1>8, <2>1, PendingKept
<1>10. Fresh' = {}
  BY <1>1, <1>2, <1>8, CallsIn DEF Fresh
<1>11. RequestTypes'
  BY <1>1, <1>2 DEF RequestTypes, NoRequest
<1>12. RetentionTypes'
  BY <1>1, <1>2, <1>6, <1>7, <1>9, <1>11 DEF RetentionTypes
<1>13. Cutting'
  BY <1>2, <1>10 DEF Cutting
<1>14. Threads(entries, Fresh, calls)'
  <2>1. Fresh \in SUBSET Nat /\ {} \in SUBSET Fresh /\ Fresh \ {} = Fresh
    BY <1>1, CallsIn DEF Fresh
  <2>2. Threads(m, Fresh \ {}, calls)
    BY <1>0, <1>1, <1>4, <1>5, <2>1, ThreadsFollow
  <2>3. Threads(m, Fresh, calls)
    BY <2>1, <2>2, Zenon
  <2>4. Threads(m \o Deliveries, {}, calls)
    BY <1>1, <1>5, <2>3, ThreadsTold
  <2> QED BY <1>2, <1>7, <1>10, <1>u, <1>d, <2>4, Zenon
<1>15. InputsHeld'
  <2>1. Once(entries, twice) /\ Arrived(entries, arrived) /\ inbox \cap IdsOf(entries, {"inputs"}) \subseteq twice
    BY <1>0, <1>2 DEF InputsHeld
  <2>2. ASSUME NEW i \in 1..Len(entries), NEW x, Inputs(entries, i, x), x \in inbox PROVE x \in twice
    <3>1. entries[i].kind \in {"inputs"} /\ x \in entries[i].ids
      BY <2>2 DEF Inputs
    <3>2. x \in IdsOf(entries, {"inputs"})
      BY <3>1, IdsAt
    <3> QED BY <2>1, <2>2, <3>2
  <2>3. ASSUME NEW i \in 1..Len(m), NEW x, Inputs(m, i, x)
        PROVE  (i \in 1..Len(entries) /\ Inputs(entries, i, x)) \/ (i = Len(entries) + 1 /\ x \in inbox)
    <3>1. CASE i \in 1..Len(entries) /\ m[i] = entries[i]
      BY <2>3, <3>1 DEF Inputs
    <3>2. CASE \E j \in 1..Len(c) : i = Len(entries) + j /\ m[i] = c[j]
      <4>1. PICK j \in 1..Len(c) : i = Len(entries) + j /\ m[i] = c[j]
        BY <3>2
      <4>2. j = 1 /\ c[j].ids = inbox
        BY <1>4
      <4> QED BY <2>3, <4>1, <4>2 DEF Inputs
    <3> QED BY <1>1, <1>4, <1>5, <3>1, <3>2, JoinAt
  <2>4. Once(m, twice)
    <3> SUFFICES ASSUME NEW i \in 1..Len(m), NEW j \in 1..Len(m), NEW x \in Nat, Inputs(m, i, x), Inputs(m, j, x), x \notin twice PROVE i = j
      BY DEF Once
    <3>1. (i \in 1..Len(entries) /\ Inputs(entries, i, x)) \/ (i = Len(entries) + 1 /\ x \in inbox)
      BY <2>3
    <3>2. (j \in 1..Len(entries) /\ Inputs(entries, j, x)) \/ (j = Len(entries) + 1 /\ x \in inbox)
      BY <2>3
    <3>3. CASE x \in inbox
      BY <2>2, <3>1, <3>2, <3>3
    <3>4. CASE x \notin inbox
      BY <2>1, <3>1, <3>2, <3>4 DEF Once
    <3> QED BY <3>3, <3>4
  <2>5. Arrived(m, arrived)
    <3> SUFFICES ASSUME NEW i \in 1..Len(m), m[i].kind = "inputs", NEW x \in m[i].ids PROVE x \in 1..arrived
      BY DEF Arrived
    <3>1. Inputs(m, i, x)
      BY DEF Inputs
    <3> QED BY <1>1, <2>1, <2>3, <3>1 DEF Arrived, Inputs
  <2>6. Once(u, twice) /\ Arrived(u, arrived)
    BY <1>3, <1>5, <1>6, <2>4, <2>5, InputsJoin
  <2> QED BY <1>2, <1>7, <2>6 DEF InputsHeld
<1>16. ResultsKept'
  <2>1. ResultsIn(u) = ResultsIn(entries) \cup ResultsIn(c) \cup ResultsIn(d)
    BY <1>1, <1>3, <1>4, <1>5, <1>6, ResultsJoin
  <2> SUFFICES ASSUME NEW k \in 1..calls, pending'[k].delivery = "none" PROVE k \in ResultsIn(u) \cup given \cup dropped
    BY <1>2, <1>7 DEF ResultsKept
  <2>2. k \in 1..MaxCalls
    BY <1>1, CallsIn
  <2>3. pending[k].result > 0 \/ pending[k].delivery = "none"
    BY <1>8, <2>2
  <2>4. CASE pending[k].result > 0
    BY <1>3, <2>1, <2>4
  <2>5. CASE pending[k].delivery = "none"
    BY <1>0, <2>1, <2>5 DEF ResultsKept
  <2> QED BY <2>3, <2>4, <2>5
<1> QED BY <1>12, <1>13, <1>14, <1>15, <1>16 DEF RetentionInv
LEMMA StepStartCompaction == ASSUME RetentionInv, StartCompaction PROVE RetentionInv'
<1>0. RetentionTypes /\ Cutting /\ Threads(entries, Fresh, calls) /\ InputsHeld /\ ResultsKept
  BY DEF RetentionInv
<1>1. /\ entries \in Seq(Entries) /\ PendingTypes /\ arrived \in Nat /\ inbox \subseteq 1..arrived
      /\ RequestTypes /\ summary \in Nat
  BY <1>0 DEF RetentionTypes
<1>2. /\ request = NoRequest
      /\ request' = [purpose |-> "compaction", consumed |-> {}] /\ failure' = "none"
      /\ summary' = summary /\ calls' = calls /\ inbox' = inbox /\ arrived' = arrived
      /\ given' = given /\ dropped' = dropped /\ twice' = twice
  BY DEF StartCompaction
<1>3. CASE progress.on
  <2>1. entries' = entries /\ pending' = pending /\ progress' = progress
    BY <1>3 DEF StartCompaction
  <2>2. PendingTypes' /\ Fresh' = Fresh
    BY <1>1, <1>2, <2>1 DEF PendingTypes, Fresh
  <2>3. RequestTypes'
    BY <1>1, <1>2, <2>1 DEF RequestTypes, NoRequest
  <2>4. RetentionTypes'
    BY <1>1, <1>2, <2>1, <2>2, <2>3 DEF RetentionTypes
  <2>5. Cutting'
    BY <1>0, <1>2, <1>3, <2>1, <2>2 DEF Cutting
  <2>6. Threads(entries, Fresh, calls)'
    BY <1>0, <1>2, <2>1, <2>2
  <2>7. InputsHeld'
    BY <1>0, <1>2, <1>3, <2>1 DEF InputsHeld
  <2>8. ResultsKept'
    BY <1>0, <1>2, <2>1 DEF ResultsKept
  <2> QED BY <2>4, <2>5, <2>6, <2>7, <2>8 DEF RetentionInv
<1>4. CASE ~progress.on
  <2>d. PICK d : d = Deliveries
    OBVIOUS
  <2>1. d \in Seq(Entries) /\ \A i \in 1..Len(d) : d[i].kind # "inputs"
    BY <1>1, <2>d, DeliveriesFollow, Zenon
  <2>u. PICK u : u = entries \o d
    OBVIOUS
  <2>2. u \in Seq(Entries) /\ Joins(u, entries, d)
    BY <1>1, <2>1, <2>u, JoinIs, Zenon
  <2>3. entries' = u
    BY <1>4, <2>u, <2>d, Zenon DEF StartCompaction
  <2>p. pending' = [c \in 1..MaxCalls |-> [pending[c] EXCEPT !.delivery = IF @ = "fresh" THEN "sent" ELSE @]]
    BY <1>4 DEF StartCompaction
  <2>r. PICK r : r = RetentionStart(u)
    OBVIOUS
  <2>4. progress' = [source |-> Len(u), retain |-> r, attempts |-> 0, on |-> TRUE]
    BY <1>4, <2>3, <2>r, Zenon DEF StartCompaction
  <2>5. r \in Nat /\ r <= Len(u) /\ (r = Len(u) \/ Open(u, r) = {}) /\ SizeOf(Rest(u, r)) <= KeepTokens /\ (Len(u) > 0 => r > 0)
    BY <2>2, <2>r, StartIs, Zenon
  <2>6. ASSUME NEW k \in 1..MaxCalls
        PROVE  /\ pending'[k] \in ToolStates /\ pending'[k].delivery # "fresh"
               /\ pending'[k].delivery = "none" => pending'[k].result = 0
               /\ k > calls => pending'[k].delivery = "none"
               /\ pending'[k].delivery = "none" => pending[k].delivery = "none"
    <3>1. pending[k] \in ToolStates /\ (pending[k].delivery = "none" => pending[k].result = 0) /\ (k > calls => pending[k].delivery = "none")
      BY <1>1 DEF PendingTypes
    <3>2. pending'[k] = [pending[k] EXCEPT !.delivery = IF @ = "fresh" THEN "sent" ELSE @]
      BY <2>p
    <3>3. pending'[k] \in ToolStates /\ pending'[k].result = pending[k].result /\ pending'[k].delivery = IF pending[k].delivery = "fresh" THEN "sent" ELSE pending[k].delivery
      BY <3>1, <3>2, SentIs
    <3> QED BY <3>1, <3>3
  <2>7. PendingTypes'
    <3>1. pending' \in [1..MaxCalls -> ToolStates]
      BY <2>p, <2>6
    <3> QED BY <1>1, <1>2, <2>6, <3>1, PendingKept
  <2>8. Fresh' = {}
    BY <1>1, <1>2, <2>6, CallsIn DEF Fresh
  <2>9. RequestTypes'
    <3>1. Len(u) \in Nat
      BY <2>2
    <3> QED BY <1>1, <1>2, <2>4, <2>5, <3>1 DEF RequestTypes, NoRequest
  <2>10. RetentionTypes'
    BY <1>1, <1>2, <2>2, <2>3, <2>7, <2>9 DEF RetentionTypes
  <2>11. Cutting'
    BY <1>2, <2>3, <2>4, <2>5, <2>8 DEF Cutting
  <2>12. Threads(entries, Fresh, calls)'
    <3>1. Threads(entries \o Deliveries, {}, calls)
      BY <1>0, <1>1, ThreadsTold
    <3> QED BY <1>2, <2>3, <2>8, <2>u, <2>d, <3>1, Zenon
  <2>13. InputsHeld'
    <3>1. Once(u, twice) /\ Arrived(u, arrived)
      BY <1>0, <1>1, <2>1, <2>2, InputsJoin DEF InputsHeld
    <3> QED BY <1>2, <2>3, <2>4, <3>1 DEF InputsHeld
  <2>14. ResultsKept'
    <3>1. ResultsIn(u) = ResultsIn(entries) \cup ResultsIn(d)
      BY <1>1, <2>1, <2>2, ResultsJoin
    <3> SUFFICES ASSUME NEW k \in 1..calls, pending'[k].delivery = "none" PROVE k \in ResultsIn(u) \cup given \cup dropped
      BY <1>2, <2>3 DEF ResultsKept
    <3>2. pending[k].delivery = "none"
      BY <1>1, <2>6, CallsIn
    <3> QED BY <1>0, <3>1, <3>2 DEF ResultsKept
  <2> QED BY <2>10, <2>11, <2>12, <2>13, <2>14 DEF RetentionInv
<1> QED BY <1>3, <1>4

LEMMA StepAnswer == ASSUME RetentionInv, NEW n \in 0..2, Answer(n) PROVE RetentionInv'
<1>0. RetentionTypes /\ Cutting /\ Threads(entries, Fresh, calls) /\ InputsHeld /\ ResultsKept
  BY DEF RetentionInv
<1>1. /\ entries \in Seq(Entries) /\ PendingTypes /\ arrived \in Nat /\ inbox \subseteq 1..arrived
      /\ RequestTypes /\ summary \in Nat /\ calls \in Nat
  BY <1>0, CallsIn DEF RetentionTypes
<1>2. /\ request.purpose = "conversation" /\ request' = NoRequest /\ calls' = calls + n /\ calls + n <= MaxCalls
      /\ summary' = summary /\ inbox' = inbox /\ arrived' = arrived /\ progress' = progress /\ failure' = failure
      /\ given' = given \cup ResultsIn(entries) /\ dropped' = dropped /\ twice' = twice
  BY DEF Answer
<1>m. PICK m \in Nat : m = calls + n
  BY <1>1
<1>3. m \in 0..MaxCalls /\ calls <= m /\ calls' = m
  BY <1>1, <1>2, <1>m, Bounds
<1>new. PICK new : new = calls + 1 .. m
  OBVIOUS
<1>x. PICK x : x = Entry("assistant", new, 1)
  OBVIOUS
<1>4. x \in Entries /\ x.kind = "assistant" /\ x.ids = new
  <2>1. new \in SUBSET Nat /\ "assistant" \in Kinds
    BY <1>1, <1>m, <1>new DEF Kinds
  <2>2. Entry("assistant", new, 1) \in Entries
    BY <2>1, EntryMade
  <2>3. Entry("assistant", new, 1).kind = "assistant" /\ Entry("assistant", new, 1).ids = new
    BY EntryHas
  <2> QED BY <1>x, <2>2, <2>3, Zenon
<1>u. PICK u : u = Append(entries, x)
  OBVIOUS
<1>5. entries' = u
  BY <1>m, <1>new, <1>x, <1>u, Zenon DEF Answer
<1>t. PICK t : t = <<x>>
  OBVIOUS
<1>6. t \in Seq(Entries) /\ Len(t) = 1 /\ t[1] = x
  BY <1>4, <1>t
<1>7. u \in Seq(Entries) /\ u = entries \o t
  BY <1>1, <1>4, <1>u, <1>t
<1>8. Joins(u, entries, t)
  BY <1>1, <1>6, <1>7, JoinIs, Zenon
<1>p. pending' = [c \in 1..MaxCalls |-> IF c \in new THEN [delivery |-> "fresh", result |-> 0] ELSE pending[c]]
  BY <1>m, <1>new, Zenon DEF Answer
<1>9. Fresh = {} /\ ~progress.on
  BY <1>0, <1>2 DEF Cutting
<1>10. ASSUME NEW k \in 1..MaxCalls
       PROVE  /\ k \in new => pending'[k].delivery = "fresh" /\ pending'[k].result = 0 /\ pending'[k] \in ToolStates
              /\ k \notin new => pending'[k] = pending[k]
  BY <1>p DEF ToolStates
<1>11. ASSUME NEW k \in 1..MaxCalls
       PROVE  /\ pending'[k] \in ToolStates
              /\ pending'[k].delivery = "none" => pending'[k].result = 0
              /\ k > m => pending'[k].delivery = "none"
              /\ pending'[k].delivery = "fresh" <=> k \in new
  <2>1. /\ pending[k] \in ToolStates /\ (pending[k].delivery = "none" => pending[k].result = 0)
        /\ k > calls => pending[k].delivery = "none"
        /\ k <= calls => pending[k].delivery # "fresh"
    BY <1>1, <1>9 DEF PendingTypes, Fresh
  <2>2. CASE k \in new
    <3>1. ~(k > m)
      BY <1>1, <1>3, <1>new, <2>2
    <3> QED BY <1>10, <2>2, <3>1
  <2>3. CASE k \notin new
    <3>1. pending[k].delivery # "fresh"
      BY <1>1, <2>1
    <3>2. k > m => k > calls
      BY <1>1, <1>3
    <3> QED BY <1>10, <2>1, <2>3, <3>1, <3>2
  <2> QED BY <2>2, <2>3
<1>12. PendingTypes'
  <2>1. pending' \in [1..MaxCalls -> ToolStates]
    BY <1>p, <1>11
  <2>2. \A c \in 1..MaxCalls : (pending'[c].delivery = "none" => pending'[c].result = 0) /\ (c > m => pending'[c].delivery = "none")
    BY <1>11
  <2> QED BY <1>3, <2>1, <2>2 DEF PendingTypes
<1>13. Fresh' = new
  <2>1. \A c \in new : c \in 1..m /\ c \in 1..MaxCalls
    BY <1>1, <1>3, <1>new, Bounds
  <2>2. \A c \in 1..m : c \in 1..MaxCalls
    BY <1>3, Bounds
  <2>3. Fresh' = {c \in 1..m : pending'[c].delivery = "fresh"}
    BY <1>3 DEF Fresh
  <2> QED BY <1>11, <2>1, <2>2, <2>3
<1>14. RequestTypes'
  BY <1>1, <1>2 DEF RequestTypes, NoRequest
<1>15. RetentionTypes'
  BY <1>1, <1>2, <1>5, <1>7, <1>12, <1>14 DEF RetentionTypes
<1>16. Cutting'
  BY <1>2, <1>9 DEF Cutting, NoRequest
<1>17. Threads(entries, Fresh, calls)'
  <2>1. Threads(entries, {}, calls)
    BY <1>0, <1>9, Zenon
  <2>2. x.ids = calls + 1 .. m
    BY <1>4, <1>new
  <2>3. Threads(Append(entries, x), calls + 1 .. m, m)
    BY <1>1, <1>3, <1>4, <2>1, <2>2, ThreadsAnswer
  <2> QED BY <1>3, <1>5, <1>13, <1>u, <1>new, <2>3, Zenon
<1>18. InputsHeld'
  <2>1. \A i \in 1..Len(t) : t[i].kind # "inputs"
    BY <1>4, <1>6
  <2>2. Once(u, twice) /\ Arrived(u, arrived) /\ IdsOf(u, {"inputs"}) \subseteq IdsOf(entries, {"inputs"})
    BY <1>0, <1>1, <1>6, <1>7, <1>8, <2>1, InputsJoin DEF InputsHeld
  <2>3. failure # "overflow" => inbox \cap IdsOf(entries, {"inputs"}) \subseteq twice
    BY <1>0, <1>9 DEF InputsHeld
  <2> QED BY <1>2, <1>5, <2>2, <2>3 DEF InputsHeld
<1>19. ResultsKept'
  <2> SUFFICES ASSUME NEW k \in 1..m, pending'[k].delivery = "none" PROVE k \in ResultsIn(u) \cup given' \cup dropped
    BY <1>2, <1>3, <1>5 DEF ResultsKept
  <2>1. k \in 1..MaxCalls
    BY <1>3, Bounds
  <2>2. k \notin new
    BY <1>11, <2>1
  <2>3. k \in 1..calls /\ pending[k].delivery = "none"
    BY <1>1, <1>10, <1>new, <2>1, <2>2
  <2> QED BY <1>0, <1>2, <2>3 DEF ResultsKept
<1> QED BY <1>15, <1>16, <1>17, <1>18, <1>19 DEF RetentionInv
\* What a compaction keeps of the inputs.
LEMMA InputsCut ==
  ASSUME NEW es \in Seq(Entries), NEW r \in Nat, r <= Len(es), NEW but, NEW n, Once(es, but), Arrived(es, n)
  PROVE  Once(Rest(es, r), but) /\ Arrived(Rest(es, r), n)
<1>t. PICK t : t = Rest(es, r)
  OBVIOUS
<1>1. t \in Seq(Entries) /\ Len(t) = Len(es) - r /\ \A i \in 1..Len(es) - r : t[i] = es[r + i]
  BY <1>t, RestIs, Zenon
<1>2. ASSUME NEW i \in 1..Len(t) PROVE r + i \in 1..Len(es) /\ t[i] = es[r + i]
  BY <1>1
<1>3. ASSUME NEW i \in 1..Len(t), NEW x, Inputs(t, i, x) PROVE r + i \in 1..Len(es) /\ Inputs(es, r + i, x)
  BY <1>2, <1>3 DEF Inputs
<1>4. Once(t, but)
  <2> SUFFICES ASSUME NEW i \in 1..Len(t), NEW j \in 1..Len(t), NEW x \in Nat, Inputs(t, i, x), Inputs(t, j, x), x \notin but PROVE i = j
    BY DEF Once
  <2>1. r + i \in 1..Len(es) /\ Inputs(es, r + i, x) /\ r + j \in 1..Len(es) /\ Inputs(es, r + j, x)
    BY <1>3
  <2>2. r + i = r + j
    BY <2>1 DEF Once
  <2> QED BY <2>2
<1>5. Arrived(t, n)
  <2> SUFFICES ASSUME NEW i \in 1..Len(t), t[i].kind = "inputs" PROVE t[i].ids \subseteq 1..n
    BY DEF Arrived
  <2>1. r + i \in 1..Len(es) /\ t[i] = es[r + i]
    BY <1>2
  <2> QED BY <2>1 DEF Arrived
<1> QED BY <1>t, <1>4, <1>5, Zenon

LEMMA CarriedIs ==
  ASSUME PendingTypes, NEW n
  PROVE  /\ Carried \in Seq(Entries) /\ Follows(Carried, {}, n)
         /\ \A i \in 1..Len(Carried) : Carried[i].kind # "inputs"
<1>x. PICK x : x = Entry("carried", Unreturned, 1)
  OBVIOUS
<1>1. x \in Entries /\ x.kind = "carried"
  <2>1. Unreturned \in SUBSET Nat /\ "carried" \in Kinds
    BY CallsIn DEF Unreturned, Kinds
  <2>2. Entry("carried", Unreturned, 1) \in Entries
    BY <2>1, EntryMade
  <2> QED BY <1>x, <2>2, EntryHas, Zenon
<1>t. PICK t : t = Carried
  OBVIOUS
<1>2. t = <<>> \/ t = <<x>>
  BY <1>x, <1>t DEF Carried
<1>3. t \in Seq(Entries) /\ \A i \in 1..Len(t) : t[i] = x
  <2>1. CASE t = <<>>
    BY <2>1
  <2>2. CASE t = <<x>>
    BY <1>1, <2>2
  <2> QED BY <1>2, <2>1, <2>2
<1>4. \A i \in 1..Len(t) : t[i].kind = "carried"
  BY <1>1, <1>3, Zenon
<1>5. Follows(t, {}, n)
  BY <1>4 DEF Follows, Numbered, ToldOnce, Tells
<1>6. \A i \in 1..Len(t) : t[i].kind # "inputs"
  BY <1>4
<1> QED BY <1>t, <1>3, <1>5, <1>6, Zenon

LEMMA StepContext ==
  ASSUME RetentionInv, NEW retained \in Seq(Entries), NEW document \in Nat, ContextApplied(retained, document),
         Threads(retained, {}, calls), Once(retained, twice), Arrived(retained, arrived),
         given \subseteq given', dropped \subseteq dropped', ResultsIn(entries) \subseteq ResultsIn(retained) \cup given' \cup dropped'
  PROVE  RetentionInv'
<1>0. RetentionTypes /\ ResultsKept
  BY DEF RetentionInv
<1>1. /\ PendingTypes /\ arrived \in Nat /\ inbox \subseteq 1..arrived /\ RequestTypes
  BY <1>0 DEF RetentionTypes
<1>2. /\ request' = NoRequest /\ progress' = NoProgress /\ failure' = "none" /\ summary' = document
      /\ calls' = calls /\ inbox' = inbox /\ arrived' = arrived /\ twice' = twice
  BY DEF ContextApplied
<1>k. PICK k : k = NewPrefix(retained)
  OBVIOUS
<1>3. Thinned(k, retained, Len(retained))
  BY <1>k, PrefixThinned, Zenon
<1>4. /\ k \in Seq(Entries) /\ Once(k, twice) /\ Arrived(k, arrived) /\ inbox \cap IdsOf(k, {"inputs"}) = {}
      /\ ResultsIn(retained) \subseteq ResultsIn(k)
  BY <1>3, InputsThin
<1>c. PICK c : c = Carried
  OBVIOUS
<1>5. c \in Seq(Entries) /\ Follows(c, {}, calls) /\ \A i \in 1..Len(c) : c[i].kind # "inputs"
  BY <1>1, <1>c, CarriedIs, Zenon
<1>u. PICK u : u = k \o c
  OBVIOUS
<1>6. u \in Seq(Entries) /\ Joins(u, k, c)
  BY <1>4, <1>5, <1>u, JoinIs, Zenon
<1>7. entries' = u
  BY <1>k, <1>c, <1>u, Zenon DEF ContextApplied
<1>p. pending' = [x \in 1..MaxCalls |-> IF x \in Left(retained) THEN [pending[x] EXCEPT !.delivery = "sent"] ELSE NoTool]
  BY DEF ContextApplied
<1>8. ASSUME NEW x \in 1..MaxCalls
      PROVE  /\ x \in Left(retained) => pending'[x] \in ToolStates /\ pending'[x].delivery = "sent" /\ x \in 1..calls
             /\ x \notin Left(retained) => pending'[x] = NoTool
  <2>1. pending[x] \in ToolStates
    BY <1>1, PendingIs
  <2>2. x \in Left(retained) => x \in 1..calls
    BY DEF Left, Unreturned
  <2> QED BY <1>p, <2>1, <2>2 DEF ToolStates
<1>9. ASSUME NEW x \in 1..MaxCalls
      PROVE  /\ pending'[x] \in ToolStates /\ pending'[x].delivery # "fresh"
             /\ pending'[x].delivery = "none" => pending'[x].result = 0 /\ x \notin Left(retained)
             /\ x > calls => pending'[x].delivery = "none"
  <2>1. CASE x \in Left(retained)
    <3>1. ~(x > calls)
      BY <1>1, <1>8, <2>1, CallsIn
    <3> QED BY <1>8, <2>1, <3>1
  <2>2. CASE x \notin Left(retained)
    BY <1>8, <2>2, NoToolIs
  <2> QED BY <2>1, <2>2
<1>10. PendingTypes'
  <2>1. pending' \in [1..MaxCalls -> ToolStates]
    BY <1>p, <1>9
  <2> QED BY <1>1, <1>2, <1>9, <2>1, PendingKept
<1>11. Fresh' = {}
  BY <1>1, <1>2, <1>9, CallsIn DEF Fresh
<1>12. RequestTypes'
  BY <1>1, <1>2 DEF RequestTypes, NoRequest, NoProgress
<1>13. RetentionTypes'
  BY <1>1, <1>2, <1>6, <1>7, <1>10, <1>12 DEF RetentionTypes
<1>14. Cutting'
  BY <1>2 DEF Cutting, NoRequest, NoProgress
<1>15. Threads(entries, Fresh, calls)'
  <2>1. Threads(k, {}, calls)
    BY <1>3, ThreadsThin
  <2>2. {} \in SUBSET Nat /\ {} \in SUBSET {} /\ {} \ {} = {}
    OBVIOUS
  <2>3. Threads(u, {} \ {}, calls)
    BY <1>4, <1>5, <1>6, <2>1, <2>2, ThreadsFollow
  <2> QED BY <1>2, <1>7, <1>11, <2>2, <2>3, Zenon
<1>16. InputsHeld'
  <2>1. Once(u, twice) /\ Arrived(u, arrived) /\ IdsOf(u, {"inputs"}) \subseteq IdsOf(k, {"inputs"})
    BY <1>4, <1>5, <1>6, InputsJoin
  <2> QED BY <1>2, <1>4, <1>7, <2>1 DEF InputsHeld
<1>17. ResultsKept'
  <2> SUFFICES ASSUME NEW x \in 1..calls, pending'[x].delivery = "none" PROVE x \in ResultsIn(u) \cup given' \cup dropped'
    BY <1>2, <1>7 DEF ResultsKept
  <2>1. ResultsIn(u) = ResultsIn(k) \cup ResultsIn(c)
    BY <1>4, <1>5, <1>6, ResultsJoin
  <2>2. x \in 1..MaxCalls /\ pending[x].result \in Nat
    BY <1>1, CallsIn, PendingIs DEF ToolStates
  <2>3. x \notin Left(retained)
    BY <1>9, <2>2
  <2>4. CASE pending[x].delivery = "none"
    <3>1. x \in ResultsIn(entries) \cup given \cup dropped
      BY <1>0, <2>4 DEF ResultsKept
    <3> QED BY <1>4, <2>1, <3>1
  <2>5. CASE pending[x].delivery # "none"
    <3>1. x \notin Unreturned
      BY <2>3 DEF Left
    <3>2. pending[x].result > 0
      BY <2>2, <2>5, <3>1 DEF Unreturned
    <3>3. x \in ResultsIn(retained)
      BY <2>3, <3>2 DEF Left
    <3> QED BY <1>4, <2>1, <3>3
  <2> QED BY <2>4, <2>5
<1> QED BY <1>13, <1>14, <1>15, <1>16, <1>17 DEF RetentionInv
LEMMA StepSummarised == ASSUME RetentionInv, Summarised PROVE RetentionInv'
<1>0. RetentionTypes /\ Cutting /\ Threads(entries, Fresh, calls) /\ InputsHeld
  BY DEF RetentionInv
<1>1. entries \in Seq(Entries) /\ progress.retain \in Nat
  BY <1>0 DEF RetentionTypes, RequestTypes
<1>2. /\ progress.source = Len(entries) /\ progress.retain <= Len(entries) /\ Fresh = {}
      /\ progress.retain = Len(entries) \/ Open(entries, progress.retain) = {}
  BY <1>0 DEF Cutting, Summarised
<1>r. PICK r : r = Rest(entries, progress.retain)
  OBVIOUS
<1>3. r = SubSeq(entries, progress.retain + 1, progress.source)
  BY <1>2, <1>r, Zenon DEF Rest
<1>4. ContextApplied(r, SummarySize)
  BY <1>3, Zenon DEF Summarised
<1>5. given' = given \cup ResultsIn(Shown(Lines)) /\ dropped' = dropped \cup (ResultsIn(Evicted) \ ResultsIn(Shown(Lines)))
  BY DEF Summarised
<1>6. Threads(r, {}, calls)
  <2>1. Threads(entries, {}, calls)
    BY <1>0, <1>2, Zenon
  <2>2. Threads(Rest(entries, progress.retain), {}, calls)
    BY <1>1, <1>2, <2>1, ThreadsCut
  <2> QED BY <1>r, <2>2, Zenon
<1>7. Once(r, twice) /\ Arrived(r, arrived)
  <2>1. Once(Rest(entries, progress.retain), twice) /\ Arrived(Rest(entries, progress.retain), arrived)
    BY <1>0, <1>1, <1>2, InputsCut DEF InputsHeld
  <2> QED BY <1>r, <2>1, Zenon
<1>f. PICK f : f = First(entries, progress.retain)
  OBVIOUS
<1>8. f \in Seq(Entries) /\ r \in Seq(Entries) /\ Joins(entries, f, r)
  BY <1>1, <1>2, <1>f, <1>r, CutJoins, Zenon
<1>9. ResultsIn(entries) = ResultsIn(f) \cup ResultsIn(r)
  BY <1>8, ResultsJoin
<1>10. f = Evicted
  BY <1>f, Zenon DEF Evicted, First
<1>11. ResultsIn(entries) \subseteq ResultsIn(r) \cup given' \cup dropped'
  BY <1>5, <1>9, <1>10
<1> QED BY <1>4, <1>5, <1>6, <1>7, <1>8, <1>11, Bounds, StepContext

LEMMA StepForsaken == ASSUME RetentionInv, Forsaken PROVE RetentionInv'
<1>1. ContextApplied(<<>>, 0) /\ dropped' = dropped \cup ResultsIn(entries) /\ given' = given
  BY DEF Forsaken
<1>2. <<>> \in Seq(Entries) /\ 0 \in Nat
  OBVIOUS
<1>3. Threads(<<>>, {}, calls)
  BY DEF Threads, Numbered, CalledOnce, ToldOnce, ToldAfter, Answered, Awaited
<1>4. Once(<<>>, twice) /\ Arrived(<<>>, arrived)
  BY DEF Once, Arrived
<1>5. given \subseteq given' /\ dropped \subseteq dropped' /\ ResultsIn(entries) \subseteq ResultsIn(<<>>) \cup given' \cup dropped'
  BY <1>1
<1> QED BY <1>1, <1>2, <1>3, <1>4, <1>5, StepContext

\* Steps that leave the conversation and its calls alone.
Rests == entries' = entries /\ pending' = pending /\ calls' = calls /\ summary' = summary /\ given' = given /\ dropped' = dropped
LEMMA StepRests ==
  ASSUME RetentionInv, Rests, RequestTypes', Cutting', arrived' \in Nat, inbox' \subseteq 1..arrived', InputsHeld'
  PROVE  RetentionInv'
<1>0. RetentionTypes /\ Threads(entries, Fresh, calls) /\ ResultsKept
  BY DEF RetentionInv
<1>1. PendingTypes' /\ Fresh' = Fresh
  BY <1>0 DEF Rests, RetentionTypes, PendingTypes, Fresh
<1>2. RetentionTypes'
  BY <1>0, <1>1 DEF Rests, RetentionTypes
<1>3. Threads(entries, Fresh, calls)'
  BY <1>0, <1>1 DEF Rests
<1>4. ResultsKept'
  BY <1>0 DEF Rests, ResultsKept
<1> QED BY <1>2, <1>3, <1>4 DEF RetentionInv

LEMMA Standing ==
  ASSUME RetentionInv
  PROVE  RequestTypes /\ Cutting /\ InputsHeld /\ arrived \in Nat /\ inbox \subseteq 1..arrived
  BY DEF RetentionInv, RetentionTypes

LEMMA StepRejected == ASSUME RetentionInv, NEW how \in {"overflow", "other"}, Rejected(how) PROVE RetentionInv'
<1>0. RequestTypes /\ Cutting /\ InputsHeld /\ arrived \in Nat /\ inbox \subseteq 1..arrived
  BY Standing
<1>1. /\ request # NoRequest /\ failure' = how /\ request' = NoRequest /\ arrived' = arrived /\ progress' = progress /\ twice' = twice
      /\ how # "overflow" => inbox' = inbox
      /\ inbox' \subseteq request.consumed \cup inbox
  BY DEF Rejected
<1>2. Rests
  BY DEF Rejected, Rests
<1>3. Fresh' = Fresh
  BY <1>2 DEF Rests, Fresh
<1>4. request.consumed \subseteq 1..arrived /\ failure = "none"
  BY <1>0, <1>1 DEF RequestTypes
<1>5. RequestTypes'
  BY <1>0, <1>1 DEF RequestTypes, NoRequest
<1>6. Cutting'
  BY <1>0, <1>1, <1>2, <1>3 DEF Cutting, Rests, NoRequest
<1>7. InputsHeld'
  <2>1. CASE how = "overflow"
    BY <1>0, <1>1, <1>2, <2>1 DEF InputsHeld, Rests
  <2>2. CASE how # "overflow"
    BY <1>0, <1>1, <1>2, <1>4, <2>2 DEF InputsHeld, Rests
  <2> QED BY <2>1, <2>2
<1>8. arrived' \in Nat /\ inbox' \subseteq 1..arrived'
  BY <1>0, <1>1, <1>4
<1> QED BY <1>2, <1>5, <1>6, <1>7, <1>8, StepRests

LEMMA StepNotADocument == ASSUME RetentionInv, NotADocument PROVE RetentionInv'
<1>0. RequestTypes /\ Cutting /\ InputsHeld /\ arrived \in Nat /\ inbox \subseteq 1..arrived
  BY Standing
<1>1. CASE progress.attempts + 1 >= AttemptLimit
  BY <1>1, StepForsaken DEF NotADocument
<1>2. CASE ~(progress.attempts + 1 >= AttemptLimit)
  <2>1. /\ progress' = [progress EXCEPT !.attempts = @ + 1] /\ request' = NoRequest
        /\ failure' = failure /\ inbox' = inbox /\ arrived' = arrived /\ twice' = twice
    BY <1>2 DEF NotADocument
  <2>2. Rests
    BY <1>2 DEF NotADocument, Rests
  <2>3. Fresh' = Fresh
    BY <2>2 DEF Rests, Fresh
  <2>4. progress' \in [source : Nat, retain : Nat, attempts : Nat, on : BOOLEAN] /\ progress'.on = progress.on
        /\ progress'.source = progress.source /\ progress'.retain = progress.retain
    BY <1>0, <2>1 DEF RequestTypes
  <2>5. RequestTypes'
    BY <1>0, <2>1, <2>4 DEF RequestTypes, NoRequest
  <2>6. Cutting'
    BY <1>0, <2>1, <2>2, <2>3, <2>4 DEF Cutting, Rests, NoRequest
  <2>7. InputsHeld'
    BY <1>0, <2>1, <2>2, <2>4 DEF InputsHeld, Rests
  <2> QED BY <1>0, <2>1, <2>2, <2>5, <2>6, <2>7, StepRests
<1> QED BY <1>1, <1>2

LEMMA StepTurnEnds == ASSUME RetentionInv, TurnEnds PROVE RetentionInv'
<1>0. RequestTypes /\ Cutting /\ InputsHeld /\ arrived \in Nat /\ inbox \subseteq 1..arrived
  BY Standing
<1>1. /\ request' = NoRequest /\ progress' = NoProgress /\ failure' = "none" /\ inbox' = inbox /\ arrived' = arrived
      /\ twice' = twice \cup (inbox \cap IdsOf(entries, {"inputs"}))
  BY DEF TurnEnds
<1>2. Rests
  BY DEF TurnEnds, Rests
<1>3. RequestTypes'
  BY <1>0, <1>1 DEF RequestTypes, NoRequest, NoProgress
<1>4. Cutting'
  BY <1>1 DEF Cutting, NoRequest, NoProgress
<1>5. InputsHeld'
  <2>1. Once(entries, twice) /\ Arrived(entries, arrived)
    BY <1>0 DEF InputsHeld
  <2>2. Once(entries, twice')
    BY <1>1, <2>1 DEF Once
  <2> QED BY <1>1, <1>2, <2>1, <2>2 DEF InputsHeld, Rests
<1> QED BY <1>0, <1>1, <1>2, <1>3, <1>4, <1>5, StepRests

LEMMA StepInputArrives == ASSUME RetentionInv, InputArrives PROVE RetentionInv'
<1>0. RequestTypes /\ Cutting /\ InputsHeld /\ arrived \in Nat /\ inbox \subseteq 1..arrived
  BY Standing
<1>1. /\ request' = request /\ progress' = progress /\ failure' = failure /\ twice' = twice
      /\ arrived' = arrived + 1 /\ inbox' = inbox \cup {arrived + 1}
  BY DEF InputArrives
<1>2. Rests
  BY DEF InputArrives, Rests
<1>3. Fresh' = Fresh
  BY <1>2 DEF Rests, Fresh
<1>4. arrived' \in Nat /\ 1..arrived \subseteq 1..arrived' /\ inbox' \subseteq 1..arrived' /\ arrived + 1 \notin 1..arrived
  BY <1>0, <1>1
<1>5. RequestTypes'
  BY <1>0, <1>1, <1>4 DEF RequestTypes
<1>6. Cutting'
  BY <1>0, <1>1, <1>2, <1>3 DEF Cutting, Rests
<1>7. InputsHeld'
  <2>1. Once(entries, twice) /\ Arrived(entries, arrived)
    BY <1>0 DEF InputsHeld
  <2>2. Arrived(entries, arrived')
    BY <1>4, <2>1 DEF Arrived
  <2>3. arrived + 1 \notin IdsOf(entries, {"inputs"})
    <3> SUFFICES ASSUME arrived + 1 \in IdsOf(entries, {"inputs"}) PROVE FALSE
      OBVIOUS
    <3>1. PICK i \in 1..Len(entries) : entries[i].kind \in {"inputs"} /\ arrived + 1 \in entries[i].ids
      BY IdsAt
    <3> QED BY <1>4, <2>1, <3>1 DEF Arrived
  <2>4. failure # "overflow" /\ ~progress.on => inbox \cap IdsOf(entries, {"inputs"}) \subseteq twice
    BY <1>0 DEF InputsHeld
  <2> QED BY <1>1, <1>2, <2>1, <2>2, <2>3, <2>4 DEF InputsHeld, Rests
<1> QED BY <1>2, <1>4, <1>5, <1>6, <1>7, StepRests

LEMMA StepToolReturns ==
  ASSUME RetentionInv, NEW c \in 1..MaxCalls, NEW size \in ResultSizes, ToolReturns(c, size)
  PROVE  RetentionInv'
<1>0. RequestTypes /\ Cutting /\ InputsHeld /\ arrived \in Nat /\ inbox \subseteq 1..arrived
  BY Standing
<1>1. RetentionTypes /\ PendingTypes /\ Threads(entries, Fresh, calls) /\ ResultsKept
  BY DEF RetentionInv, RetentionTypes
<1>2. /\ pending' = [pending EXCEPT ![c].result = size] /\ pending[c].delivery # "none"
      /\ entries' = entries /\ summary' = summary /\ calls' = calls /\ inbox' = inbox /\ arrived' = arrived
      /\ request' = request /\ progress' = progress /\ failure' = failure /\ given' = given /\ dropped' = dropped /\ twice' = twice
  BY DEF ToolReturns, Unreturned
<1>3. size \in Nat
  BY Bounds
<1>4. ASSUME NEW k \in 1..MaxCalls
      PROVE  /\ pending'[k] \in ToolStates /\ pending'[k].delivery = pending[k].delivery
             /\ k # c => pending'[k].result = pending[k].result
  BY <1>1, <1>2, <1>3 DEF PendingTypes, ToolStates
<1>5. PendingTypes'
  <2>1. pending' \in [1..MaxCalls -> ToolStates]
    BY <1>1, <1>2, <1>4 DEF PendingTypes
  <2>2. ASSUME NEW k \in 1..MaxCalls
        PROVE  /\ pending'[k].delivery = "none" => pending'[k].result = 0
               /\ k > calls => pending'[k].delivery = "none"
    BY <1>1, <1>2, <1>4 DEF PendingTypes
  <2> QED BY <1>1, <1>2, <2>1, <2>2, PendingKept
<1>6. Fresh' = Fresh
  BY <1>1, <1>2, <1>4, CallsIn DEF Fresh
<1>7. RetentionTypes'
  <2>1. RequestTypes'
    BY <1>0, <1>2 DEF RequestTypes
  <2> QED BY <1>1, <1>2, <1>5, <2>1 DEF RetentionTypes
<1>8. Cutting'
  BY <1>0, <1>2, <1>6 DEF Cutting
<1>9. Threads(entries, Fresh, calls)'
  BY <1>1, <1>2, <1>6
<1>10. InputsHeld'
  BY <1>0, <1>2 DEF InputsHeld
<1>11. ResultsKept'
  BY <1>1, <1>2, <1>4, CallsIn DEF ResultsKept
<1> QED BY <1>7, <1>8, <1>9, <1>10, <1>11 DEF RetentionInv

LEMMA StepStutter == ASSUME RetentionInv, UNCHANGED retentionVars PROVE RetentionInv'
<1>0. RequestTypes /\ Cutting /\ InputsHeld /\ arrived \in Nat /\ inbox \subseteq 1..arrived
  BY Standing
<1>1. /\ Rests /\ request' = request /\ progress' = progress /\ failure' = failure /\ twice' = twice
      /\ arrived' = arrived /\ inbox' = inbox
  BY DEF retentionVars, Rests
<1>2. Fresh' = Fresh
  BY <1>1 DEF Rests, Fresh
<1>3. RequestTypes'
  BY <1>0, <1>1 DEF RequestTypes
<1>4. Cutting'
  BY <1>0, <1>1, <1>2 DEF Cutting, Rests
<1>5. InputsHeld'
  BY <1>0, <1>1 DEF InputsHeld, Rests
<1> QED BY <1>0, <1>1, <1>3, <1>4, <1>5, StepRests
LEMMA RetentionInitHolds == RetentionInit => RetentionInv
<1> SUFFICES ASSUME RetentionInit PROVE RetentionInv
  OBVIOUS
<1>1. /\ entries = <<>> /\ summary = 0 /\ calls = 0 /\ inbox = {} /\ arrived = 0
      /\ request = NoRequest /\ progress = NoProgress /\ failure = "none"
  BY DEF RetentionInit
<1>2. pending = [c \in 1..MaxCalls |-> NoTool]
  BY DEF RetentionInit
<1>3. PendingTypes
  <2>1. pending \in [1..MaxCalls -> ToolStates] /\ \A c \in 1..MaxCalls : pending[c] = NoTool
    BY <1>2, NoToolIs
  <2> QED BY <1>1, <2>1, NoToolIs, Bounds DEF PendingTypes
<1>4. RequestTypes
  BY <1>1 DEF RequestTypes, NoRequest, NoProgress
<1>5. RetentionTypes
  BY <1>1, <1>3, <1>4 DEF RetentionTypes
<1>6. Fresh = {}
  BY <1>1 DEF Fresh
<1>7. Cutting
  BY <1>1 DEF Cutting, NoRequest, NoProgress
<1>8. Threads(<<>>, {}, 0)
  BY DEF Threads, Numbered, CalledOnce, ToldOnce, ToldAfter, Answered, Awaited
<1>9. Threads(entries, Fresh, calls)
  BY <1>1, <1>6, <1>8, Zenon
<1>10. Once(<<>>, twice) /\ Arrived(<<>>, 0)
  BY DEF Once, Arrived
<1>11. InputsHeld
  BY <1>1, <1>10 DEF InputsHeld
<1>12. ResultsKept
  BY <1>1 DEF ResultsKept
<1> QED BY <1>5, <1>7, <1>9, <1>11, <1>12 DEF RetentionInv

LEMMA RetentionStep == RetentionInv /\ [RetentionNext]_retentionVars => RetentionInv'
<1> SUFFICES ASSUME RetentionInv, [RetentionNext]_retentionVars PROVE RetentionInv'
  OBVIOUS
<1>1. CASE StartConversation
  BY <1>1, StepStartConversation
<1>2. CASE StartCompaction
  BY <1>2, StepStartCompaction
<1>3. CASE \E n \in 0..2 : Answer(n)
  BY <1>3, StepAnswer
<1>4. CASE \E how \in {"overflow", "other"} : Rejected(how)
  BY <1>4, StepRejected
<1>5. CASE Summarised
  BY <1>5, StepSummarised
<1>6. CASE NotADocument
  BY <1>6, StepNotADocument
<1>7. CASE TooLarge
  BY <1>7, StepForsaken DEF TooLarge
<1>8. CASE \E c \in 1..MaxCalls, size \in ResultSizes : ToolReturns(c, size)
  BY <1>8, StepToolReturns
<1>9. CASE InputArrives
  BY <1>9, StepInputArrives
<1>10. CASE TurnEnds
  BY <1>10, StepTurnEnds
<1>11. CASE UNCHANGED retentionVars
  BY <1>11, StepStutter
<1> QED BY <1>1, <1>2, <1>3, <1>4, <1>5, <1>6, <1>7, <1>8, <1>9, <1>10, <1>11 DEF RetentionNext

(* The inductive invariant: the entries are threads of calls and tool      *)
(* messages in which only the fresh calls wait, an input stands in one     *)
(* entry, and a compaction under way is cut where no call is open.         *)
THEOREM RetentionInvariant == RetentionSpec => []RetentionInv
BY RetentionInitHolds, RetentionStep, PTL DEF RetentionSpec
-----------------------------------------------------------------------------
(* What the invariant says of requests and compactions.                    *)
LEMMA PairedHolds == RetentionInv => Paired
<1> SUFFICES ASSUME RetentionInv, request.purpose = "conversation" PROVE
      /\ IdsOf(entries, {"pending", "direct"}) \subseteq IdsOf(entries, {"assistant"})
      /\ \A i \in 1..Len(entries) : entries[i].kind = "assistant" =>
           \A c \in entries[i].ids : \E j \in (i + 1)..Len(entries) :
             /\ Messages(c) = {j}
             /\ \A k \in i + 1 .. j : entries[k].kind # "assistant"
  BY DEF Paired
<1>1. entries \in Seq(Entries) /\ Fresh = {}
  BY DEF RetentionInv, RetentionTypes, Cutting
<1>2. CalledOnce(entries) /\ ToldOnce(entries) /\ ToldAfter(entries) /\ Answered(entries, {})
  BY <1>1 DEF RetentionInv, Threads
<1>3. ASSUME NEW c \in IdsOf(entries, {"pending", "direct"}) PROVE c \in IdsOf(entries, {"assistant"})
  <2>1. PICK j \in 1..Len(entries) : entries[j].kind \in {"pending", "direct"} /\ c \in entries[j].ids
    BY IdsAt
  <2>2. c \in Nat
    BY <1>1, <2>1, EntryIs
  <2>3. PICK i \in 1..Len(entries) : Calls(entries, i, c)
    BY <1>2, <2>1, <2>2 DEF ToldAfter, Tells
  <2>4. entries[i].kind \in {"assistant"} /\ c \in entries[i].ids
    BY <2>3 DEF Calls
  <2> QED BY <2>4, IdsAt
<1>4. ASSUME NEW i \in 1..Len(entries), entries[i].kind = "assistant", NEW c \in entries[i].ids
      PROVE  \E j \in (i + 1)..Len(entries) : Messages(c) = {j} /\ \A k \in i + 1 .. j : entries[k].kind # "assistant"
  <2>1. c \in Nat /\ Calls(entries, i, c)
    BY <1>1, <1>4, EntryIs DEF Calls
  <2>2. PICK j \in 1..Len(entries) : Tells(entries, j, c)
    BY <1>2, <2>1 DEF Answered
  <2>3. PICK h \in 1..Len(entries) : h < j /\ Calls(entries, h, c) /\ Silent(entries, h, j)
    BY <1>2, <2>1, <2>2 DEF ToldAfter
  <2>4. h = i
    BY <1>2, <2>1, <2>3 DEF CalledOnce
  <2>5. j \in (i + 1)..Len(entries) /\ \A k \in i + 1 .. j : entries[k].kind # "assistant"
    BY <2>2, <2>3, <2>4 DEF Silent
  <2>6. Messages(c) = {j}
    <3>1. \A m \in Messages(c) : m \in 1..Len(entries) /\ Tells(entries, m, c)
      BY DEF Messages, Tells
    <3>2. j \in Messages(c)
      BY <2>2 DEF Messages, Tells
    <3>3. \A m \in Messages(c) : m = j
      BY <1>2, <2>1, <2>2, <3>1 DEF ToldOnce
    <3> QED BY <3>2, <3>3
  <2> QED BY <2>5, <2>6
<1> QED BY <1>3, <1>4

LEMMA ShrinksHolds == RetentionInv => Shrinks
<1> SUFFICES ASSUME RetentionInv, progress.on PROVE
      SizeOf(SubSeq(entries, progress.retain + 1, progress.source)) <= KeepTokens /\ (progress.source > 0 => progress.retain > 0)
  BY DEF Shrinks
<1>1. /\ progress.source = Len(entries) /\ SizeOf(Rest(entries, progress.retain)) <= KeepTokens
      /\ Len(entries) > 0 => progress.retain > 0
  BY DEF RetentionInv, Cutting
<1>2. SubSeq(entries, progress.retain + 1, progress.source) = Rest(entries, progress.retain)
  BY <1>1, Zenon DEF Rest
<1> QED BY <1>1, <1>2, Zenon

LEMMA InputsOnceHolds == RetentionInv => InputsOnce
<1> SUFFICES ASSUME RetentionInv, NEW input \in (1..arrived) \ twice PROVE
      Cardinality({i \in 1..Len(entries) : entries[i].kind = "inputs" /\ input \in entries[i].ids}) <= 1
  BY DEF InputsOnce
<1>p. PICK p : p = {i \in 1..Len(entries) : entries[i].kind = "inputs" /\ input \in entries[i].ids}
  OBVIOUS
<1>1. \A i \in p : i \in 1..Len(entries) /\ Inputs(entries, i, input)
  BY <1>p DEF Inputs
<1>2. Once(entries, twice) /\ input \in Nat /\ input \notin twice
  BY DEF RetentionInv, InputsHeld
<1>3. \A i, j \in p : i = j
  BY <1>1, <1>2 DEF Once
<1>4. CASE p = {}
  BY <1>4, <1>p, FS_EmptySet
<1>5. CASE p # {}
  <2>i. PICK i : i \in p
    BY <1>5
  <2>1. p = {i}
    BY <1>3, <2>i
  <2>2. Cardinality({i}) = 1
    BY FS_Singleton
  <2>3. Cardinality(p) = 1
    BY <2>1, <2>2, Zenon
  <2> QED BY <1>p, <2>3
<1> QED BY <1>4, <1>5

LEMMA SummaryFitsHolds == SummaryBudget >= 2 /\ RetentionInv => SummaryFits
<1> SUFFICES ASSUME SummaryBudget >= 2, RetentionInv, progress.on PROVE Preamble + SizeOf(Shown(Lines)) <= SummaryBudget
  BY DEF SummaryFits
<1>1. entries \in Seq(Entries) /\ summary \in Nat /\ progress.retain \in Nat /\ progress.retain <= Len(entries)
  BY DEF RetentionInv, RetentionTypes, RequestTypes, Cutting
<1> QED BY <1>1, Fits

(* Whatever the limits are: every call of an answer has its one tool       *)
(* message in the next request (the calls and results apply_response and   *)
(* apply_context carry over), no result is lost but those a summary had no *)
(* room for, no input is said twice, and a compaction keeps at most        *)
(* keep_recent_tokens and evicts something.                                *)
THEOREM CompactionKeepsWhole == RetentionSpec => [](Paired /\ Shrinks /\ ResultsKept /\ InputsOnce)
<1>1. RetentionInv => Paired /\ Shrinks /\ ResultsKept /\ InputsOnce
  BY PairedHolds, ShrinksHolds, InputsOnceHolds DEF RetentionInv
<1> QED BY <1>1, RetentionInvariant, PTL

(* With room for the two marks of omission a preamble may hold, the        *)
(* request for a summary also fits its budget.                             *)
THEOREM RetentionIsHonest == SummaryBudget >= 2 => (RetentionSpec => []RetentionHonest)
<1> SUFFICES ASSUME SummaryBudget >= 2 PROVE RetentionSpec => []RetentionHonest
  OBVIOUS
<1>1. RetentionInv => RetentionHonest
  BY PairedHolds, ShrinksHolds, InputsOnceHolds, SummaryFitsHolds DEF RetentionInv, RetentionHonest
<1> QED BY <1>1, RetentionInvariant, PTL
=============================================================================
