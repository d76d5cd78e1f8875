---------------------------- MODULE SegmentProofs ----------------------------
(***************************************************************************)
(* What is proved of the session's segments.  The readers are folds: each  *)
(* is an instance of FoldFacts, which says what one more element changes.  *)
(***************************************************************************)
EXTENDS SegmentPromises, FiniteSetTheorems, TLAPS

\* The steps of the folds.
AheadStep(stream, line) == Push("forward", stream, line)
BackStep(stream, line) == Push("reverse", stream, line)
FileStep(stream, lines) == [PushAll("forward", stream, lines) EXCEPT !.pending = NoLines]
TakeStep(records, commit) == FoldLines(Seen, records, commit)
FoldStep(st, commit) == FoldLines(ApplyEnvelope, st, commit)

Ahead == INSTANCE FoldFacts WITH Op <- AheadStep
Back == INSTANCE FoldFacts WITH Op <- BackStep
File == INSTANCE FoldFacts WITH Op <- FileStep
See == INSTANCE FoldFacts WITH Op <- Seen
Take == INSTANCE FoldFacts WITH Op <- TakeStep
Apply == INSTANCE FoldFacts WITH Op <- ApplyEnvelope
Refold == INSTANCE FoldFacts WITH Op <- FoldStep

LEMMA AheadIs == \A stream, lines : PushAll("forward", stream, lines) = Ahead!Fold(stream, lines)
  BY Zenon DEF PushAll, FoldLines, Ahead!Fold, Ahead!Chains, AheadStep
LEMMA BackIs == \A stream, lines : PushAll("reverse", stream, lines) = Back!Fold(stream, lines)
  BY Zenon DEF PushAll, FoldLines, Back!Fold, Back!Chains, BackStep
LEMMA FileIs == \A stream, files : ReadForward(stream, files) = File!Fold(stream, files)
  BY Zenon DEF ReadForward, FoldLines, File!Fold, File!Chains, FileStep
LEMMA SeeIs == \A records, commit : TakeStep(records, commit) = See!Fold(records, commit)
  BY Zenon DEF TakeStep, FoldLines, See!Fold, See!Chains
LEMMA TakeIs == \A commits : Records(commits) = Take!Fold(<<>>, commits)
  BY Zenon DEF Records, FoldLines, Take!Fold, Take!Chains, TakeStep
LEMMA ApplyIs == \A st, commit : FoldStep(st, commit) = Apply!Fold(st, commit)
  BY Zenon DEF FoldStep, FoldLines, Apply!Fold, Apply!Chains
LEMMA RefoldIs == \A st, commits : FoldCommits(st, commits) = Refold!Fold(st, commits)
  BY Zenon DEF FoldCommits, FoldLines, Refold!Fold, Refold!Chains, FoldStep

\* A line belongs to a batch of count lines; the lines of a file follow each other, and
\* a line that does not begin a batch continues the one before it.
Line == [seq : Nat, index : Nat, count : Nat, kind : LineKinds, state : Seq(Nat)]
Ends(line) == line.index + 1 = line.count
Formed(lines) ==
  /\ lines \in Seq(Line)
  /\ \A i \in 1..Len(lines) :
       /\ lines[i].index < lines[i].count
       /\ i > 1 => lines[i].seq = lines[i - 1].seq + 1
       /\ lines[i].index > 0 => i > 1 /\ lines[i].index = lines[i - 1].index + 1 /\ lines[i].count = lines[i - 1].count

\* From position a to position b.
Part(s, a, b) == SubSeq(s, a, b)

\* The batch at the end of the lines, as far as it goes; what a stream still holds of it;
\* where the stream is.
Batched(lines) == Part(lines, Len(lines) - Last(lines).index, Len(lines))
Open(lines) == IF lines = <<>> \/ Ends(Last(lines)) THEN NoLines ELSE Batched(lines)
Reached(lines, p) == IF lines = <<>> THEN p ELSE Last(lines).seq
Stream(p, q, c, f) == [previous |-> p, pending |-> q, commits |-> c, faults |-> f]

LEMMA LineIs == \A x \in Line : x.seq \in Nat /\ x.index \in Nat /\ x.count \in Nat /\ x.kind \in LineKinds
  BY DEF Line

LEMMA PartIs ==
  ASSUME NEW S, NEW s \in Seq(S), NEW a \in Nat, NEW b \in Nat, 1 <= a, a <= b + 1, b <= Len(s)
  PROVE  /\ Part(s, a, b) \in Seq(S) /\ Len(Part(s, a, b)) = b + 1 - a
         /\ \A i \in 1..(b + 1 - a) : Part(s, a, b)[i] = s[a + i - 1]
  BY DEF Part

IsPart(t, s, a, b) == Len(t) = b + 1 - a /\ \A i \in 1..(b + 1 - a) : t[i] = s[a + i - 1]
LEMMA PartIsPart ==
  ASSUME NEW S, NEW s \in Seq(S), NEW a \in Nat, NEW b \in Nat, 1 <= a, a <= b + 1, b <= Len(s)
  PROVE  IsPart(Part(s, a, b), s, a, b)
  BY PartIs DEF IsPart

\* The same of a part that has a name.
Spanned(s, a, b) == a \in Nat /\ b \in Nat /\ 1 <= a /\ a <= b + 1 /\ b <= Len(s)
LEMMA PartNamed ==
  ASSUME NEW S, NEW s \in Seq(S), NEW a, NEW b, Spanned(s, a, b), NEW t, t = Part(s, a, b)
  PROVE  t \in Seq(S) /\ IsPart(t, s, a, b)
<1>1. Part(s, a, b) \in Seq(S) /\ IsPart(Part(s, a, b), s, a, b)
  BY PartIs, PartIsPart DEF Spanned
<1> QED BY <1>1, Zenon

LEMMA PartMore ==
  ASSUME NEW S, NEW s \in Seq(S), NEW a \in Nat, NEW b \in Nat, 1 <= a, a <= b + 1, b + 1 <= Len(s)
  PROVE  Part(s, a, b + 1) = Append(Part(s, a, b), s[b + 1]) /\ s[b + 1] \in S
<1>c. PICK c \in Nat : c = b + 1
  OBVIOUS
<1>t. PICK t : t = Part(s, a, b)
  OBVIOUS
<1>u. PICK u : u = Part(s, a, c)
  OBVIOUS
<1>1. t \in Seq(S) /\ Len(t) = b + 1 - a /\ \A i \in 1..(b + 1 - a) : t[i] = s[a + i - 1]
  <2>1. Spanned(s, a, b)
    BY DEF Spanned
  <2>2. t \in Seq(S) /\ IsPart(t, s, a, b)
    BY <1>t, <2>1, PartNamed, Zenon
  <2> QED BY <2>2 DEF IsPart
<1>2. u \in Seq(S) /\ Len(u) = c + 1 - a /\ \A i \in 1..(c + 1 - a) : u[i] = s[a + i - 1]
  <2>1. Spanned(s, a, c)
    BY <1>c DEF Spanned
  <2>2. u \in Seq(S) /\ IsPart(u, s, a, c)
    BY <1>u, <2>1, PartNamed, Zenon
  <2> QED BY <2>2 DEF IsPart
<1>n. PICK n \in Nat : n = b + 1 - a
  OBVIOUS
<1>3. Len(t) = n /\ Len(u) = n + 1 /\ s[c] \in S
  BY <1>1, <1>2, <1>c, <1>n
<1>4. \A i \in 1..n : u[i] = t[i]
  BY <1>1, <1>2, <1>c, <1>n
<1>5. u[n + 1] = s[c]
  <2>1. n + 1 \in 1..(c + 1 - a) /\ a + (n + 1) - 1 = c
    BY <1>c, <1>n
  <2> QED BY <1>2, <2>1
<1>v. PICK v : v = Append(t, s[c])
  OBVIOUS
<1>6. v \in Seq(S) /\ Len(v) = n + 1 /\ v[n + 1] = s[c] /\ \A i \in 1..n : v[i] = t[i]
  BY <1>1, <1>3, <1>v
<1>7. \A i \in 1..(n + 1) : u[i] = v[i]
  BY <1>4, <1>5, <1>6
<1>8. u = v
  BY <1>2, <1>3, <1>6, <1>7
<1> QED BY <1>3, <1>8, <1>c, <1>t, <1>u, <1>v

LEMMA PartAll == ASSUME NEW S, NEW s \in Seq(S) PROVE Part(s, 1, Len(s)) = s
  BY DEF Part

LEMMA PartNone == ASSUME NEW S, NEW s \in Seq(S), NEW a \in Nat, NEW b \in Nat, 1 <= a, b < a PROVE Part(s, a, b) = <<>>
  BY DEF Part

\* A part of a longer sequence.
LEMMA PartSame ==
  ASSUME NEW S, NEW s \in Seq(S), NEW x \in S, NEW a \in Nat, NEW b \in Nat, 1 <= a, a <= b + 1, b <= Len(s)
  PROVE  Part(Append(s, x), a, b) = Part(s, a, b)
<1>m. PICK m \in Seq(S) : m = Append(s, x)
  <2>1. Append(s, x) \in Seq(S)
    OBVIOUS
  <2> QED BY <2>1
<1>1. Len(m) = Len(s) + 1 /\ \A i \in 1..Len(s) : m[i] = s[i]
  BY <1>m
<1>t. PICK t : t = Part(m, a, b)
  OBVIOUS
<1>u. PICK u : u = Part(s, a, b)
  OBVIOUS
<1>2. t \in Seq(S) /\ Len(t) = b + 1 - a /\ \A i \in 1..(b + 1 - a) : t[i] = m[a + i - 1]
  <2>1. Spanned(m, a, b)
    BY <1>1 DEF Spanned
  <2>2. t \in Seq(S) /\ IsPart(t, m, a, b)
    BY <1>t, <2>1, PartNamed, Zenon
  <2> QED BY <2>2 DEF IsPart
<1>3. u \in Seq(S) /\ Len(u) = b + 1 - a /\ \A i \in 1..(b + 1 - a) : u[i] = s[a + i - 1]
  <2>1. Spanned(s, a, b)
    BY DEF Spanned
  <2>2. u \in Seq(S) /\ IsPart(u, s, a, b)
    BY <1>u, <2>1, PartNamed, Zenon
  <2> QED BY <2>2 DEF IsPart
<1>n. PICK n \in Nat : n = b + 1 - a
  OBVIOUS
<1>4. \A i \in 1..n : t[i] = u[i]
  <2> SUFFICES ASSUME NEW i \in 1..n PROVE t[i] = u[i]
    OBVIOUS
  <2>k. PICK k \in 1..Len(s) : k = a + i - 1
    BY <1>n
  <2>1. t[i] = m[k] /\ u[i] = s[k]
    BY <1>2, <1>3, <1>n, <2>k
  <2> QED BY <1>1, <2>1
<1>6. Len(t) = n /\ Len(u) = n /\ t \in Seq(S) /\ u \in Seq(S)
  BY <1>2, <1>3, <1>n
<1>5. t = u
  BY <1>4, <1>6
<1> QED BY <1>5, <1>t, <1>u, <1>m

LEMMA FormedFront ==
  ASSUME NEW lines \in Seq(Line), NEW line \in Line, Formed(Append(lines, line))
  PROVE  Formed(lines)
<1>m. PICK m : m = Append(lines, line)
  OBVIOUS
<1>1. Len(lines) \in Nat /\ Len(m) = Len(lines) + 1 /\ \A i \in 1..Len(lines) : m[i] = lines[i]
  BY <1>m
<1>2. \A i \in 1..Len(lines) : i \in 1..Len(m) /\ (i > 1 => i - 1 \in 1..Len(lines))
  BY <1>1
<1>3. Formed(m)
  BY <1>m
<1> QED BY <1>1, <1>2, <1>3 DEF Formed

\* A line's batch began in the file, and its lines have followed one by one.
FollowsBack(lines, i, j) ==
  /\ j < i /\ lines[i - j].index = lines[i].index - j /\ lines[i - j].count = lines[i].count
  /\ lines[i].seq = lines[i - j].seq + j
LEMMA BackInBatch ==
  ASSUME NEW lines, Formed(lines), NEW i \in 1..Len(lines)
  PROVE  \A j \in Nat : j <= lines[i].index => FollowsBack(lines, i, j)
<1>n. PICK n \in Nat : n = Len(lines)
  BY DEF Formed
<1>0. \A k \in 1..n : lines[k] \in Line /\ lines[k].index \in Nat /\ lines[k].count \in Nat /\ lines[k].seq \in Nat
  <2>1. \A k \in 1..n : lines[k] \in Line
    BY <1>n DEF Formed
  <2> QED BY <2>1, LineIs
<1> DEFINE G == {j \in Nat : j <= lines[i].index => FollowsBack(lines, i, j)}
<1>1. 0 \in G
  BY <1>0, <1>n DEF FollowsBack
<1>2. ASSUME NEW j \in Nat, j \in G PROVE j + 1 \in G
  <2> SUFFICES ASSUME j + 1 <= lines[i].index PROVE FollowsBack(lines, i, j + 1)
    OBVIOUS
  <2>1. j < i /\ lines[i - j].index = lines[i].index - j /\ lines[i - j].count = lines[i].count /\ lines[i].seq = lines[i - j].seq + j
    BY <1>0, <1>2, <1>n DEF FollowsBack
  <2>k. PICK k \in 1..n : k = i - j
    BY <1>n, <2>1
  <2>2. lines[k].index > 0
    BY <1>0, <1>n, <2>1, <2>k
  <2>3. k > 1 /\ lines[k].index = lines[k - 1].index + 1 /\ lines[k].count = lines[k - 1].count /\ lines[k].seq = lines[k - 1].seq + 1
    BY <2>2, <1>n DEF Formed
  <2>b. PICK b \in 1..n : b = k - 1
    BY <2>3
  <2>4. b = i - (j + 1)
    BY <2>k, <2>b
  <2>5. lines[b].index \in Nat /\ lines[b].seq \in Nat /\ lines[k].index \in Nat /\ lines[i].index \in Nat /\ lines[k].seq \in Nat /\ lines[i].seq \in Nat
    BY <1>0, <1>n, <2>k, <2>b
  <2>6. lines[k].index = lines[b].index + 1 /\ lines[k].count = lines[b].count /\ lines[k].seq = lines[b].seq + 1
    BY <2>3, <2>b
  <2>7. lines[k].index = lines[i].index - j /\ lines[k].count = lines[i].count /\ lines[i].seq = lines[k].seq + j
    BY <2>1, <2>k
  <2>x. PICK x \in Nat, y \in Nat, z \in Nat : x = lines[b].index /\ y = lines[k].index /\ z = lines[i].index
    BY <2>5
  <2>u. PICK u \in Nat, v \in Nat, w \in Nat : u = lines[b].seq /\ v = lines[k].seq /\ w = lines[i].seq
    BY <2>5
  <2>11. y = x + 1 /\ v = u + 1
    BY <2>6, <2>x, <2>u
  <2>12. y = z - j /\ w = v + j
    BY <2>7, <2>x, <2>u
  <2>13. x = z - (j + 1) /\ w = u + (j + 1)
    BY <2>11, <2>12
  <2>8. lines[b].index = lines[i].index - (j + 1) /\ lines[b].count = lines[i].count
    BY <2>6, <2>7, <2>13, <2>x
  <2>9. lines[i].seq = lines[b].seq + (j + 1)
    BY <2>13, <2>u
  <2> QED BY <2>3, <2>4, <2>8, <2>9, <2>k DEF FollowsBack
<1> HIDE DEF G
<1>3. \A j \in Nat : j \in G
  BY <1>1, <1>2, Ahead!Induct
<1> QED BY <1>3 DEF G

\* The batch at the end is as long as its last line says.
Longer(m, lines, line) ==
  /\ m \in Seq(Line) /\ lines \in Seq(Line) /\ line \in Line
  /\ m = Append(lines, line) /\ Formed(m)
Continues(lines, line) ==
  /\ lines # <<>> /\ ~Ends(Last(lines)) /\ Last(Batched(lines)) = Last(lines) /\ Batched(lines) # <<>>
  /\ line.index = Last(lines).index + 1 /\ line.count = Last(lines).count /\ line.seq = Last(lines).seq + 1
LEMMA BatchedIs ==
  ASSUME NEW lines, NEW line, NEW m, Longer(m, lines, line)
  PROVE  /\ Last(m) = line /\ Len(Batched(m)) = line.index + 1 /\ Batched(m) \in Seq(Line)
         /\ line.index = 0 => Batched(m) = <<line>>
         /\ line.index # 0 => Continues(lines, line) /\ Batched(m) = Append(Batched(lines), line)
<1>n. PICK n \in Nat : n = Len(lines)
  BY DEF Longer
<1>e. PICK e \in Nat : e = n + 1
  OBVIOUS
<1>1. lines \in Seq(Line) /\ line \in Line /\ m \in Seq(Line) /\ Len(lines) = n /\ Len(m) = e /\ m[e] = line /\ \A i \in 1..n : m[i] = lines[i]
  BY <1>n, <1>e DEF Longer
<1>2. Last(m) = line
  BY <1>1 DEF Last
<1>k. PICK k \in Nat : k = line.index
  BY <1>1, LineIs
<1>3. k < e
  <2>1. e \in 1..Len(m) /\ m[e].index = k /\ k <= k
    BY <1>1, <1>k, <1>e
  <2>2. FollowsBack(m, e, k)
    BY <2>1, BackInBatch DEF Longer
  <2> QED BY <2>2 DEF FollowsBack
<1>a. PICK a \in Nat : a = e - k
  BY <1>3
<1>4. 1 <= a /\ a <= e /\ a <= n + 1 /\ e <= Len(m) /\ n + 1 <= Len(m) /\ n <= Len(m) /\ n <= Len(lines) /\ a <= e + 1
  BY <1>1, <1>3, <1>a, <1>e
<1>9. Batched(m) = Part(m, a, e)
  BY <1>1, <1>2, <1>k, <1>a DEF Batched
<1>5. Len(Batched(m)) = k + 1 /\ Batched(m) \in Seq(Line)
  <2>1. Spanned(m, a, e) /\ m \in Seq(Line)
    BY <1>1, <1>4 DEF Spanned
  <2>2. Batched(m) \in Seq(Line) /\ IsPart(Batched(m), m, a, e)
    BY <1>9, <2>1, PartNamed, Zenon
  <2>3. Len(Batched(m)) = e + 1 - a
    BY <2>2 DEF IsPart
  <2>4. e + 1 - a = k + 1
    BY <1>3, <1>a
  <2> QED BY <2>2, <2>3, <2>4, Zenon
<1>6. Batched(m) = Append(Part(m, a, n), line)
  <2>1. Part(m, a, n + 1) = Append(Part(m, a, n), m[n + 1])
    BY <1>1, <1>4, PartMore
  <2> QED BY <1>1, <1>9, <1>e, <2>1
<1>7. ASSUME k = 0 PROVE Batched(m) = <<line>>
  <2>1. Part(m, a, n) = <<>>
    <3>1. n < a
      BY <1>7, <1>a, <1>e
    <3> QED BY <1>1, <1>4, <3>1, PartNone
  <2>3. Batched(m) = Append(<<>>, line)
    BY <1>6, <2>1
  <2> QED BY <2>3
<1>8. ASSUME k # 0 PROVE Continues(lines, line) /\ Batched(m) = Append(Batched(lines), line)
  <2>1. n > 0 /\ k = m[n].index + 1 /\ line.count = m[n].count /\ line.seq = m[n].seq + 1 /\ k < line.count
    <3>1. e \in 1..Len(m) /\ m[e].index > 0 /\ m[e] = line /\ e - 1 = n
      BY <1>1, <1>8, <1>e, <1>k
    <3>2. e > 1 /\ line.index = m[e - 1].index + 1 /\ line.count = m[e - 1].count /\ line.seq = m[e - 1].seq + 1 /\ line.index < line.count
      BY <3>1 DEF Formed, Longer
    <3> QED BY <3>1, <3>2, <1>k
  <2>2. lines # <<>> /\ Last(lines) = m[n] /\ Last(lines) = lines[n] /\ m[n] \in Line
    BY <1>1, <2>1 DEF Last
  <2>7. Last(lines).index \in Nat /\ k = Last(lines).index + 1 /\ Last(lines).count \in Nat
    BY <2>1, <2>2, LineIs
  <2>3. ~Ends(Last(lines))
    BY <2>1, <2>2, <2>7 DEF Ends
  <2>4. Batched(lines) = Part(lines, a, n)
    <3>2. n - Last(lines).index = a
      BY <2>7, <1>a, <1>e
    <3> QED BY <3>2, <1>1 DEF Batched
  <2>5. Part(m, a, n) = Part(lines, a, n)
    BY <1>1, <1>4, PartSame DEF Longer
  <2>6. Len(Batched(lines)) = k /\ Batched(lines)[k] = lines[n]
    <3>1. Len(Part(lines, a, n)) = n + 1 - a /\ \A i \in 1..(n + 1 - a) : Part(lines, a, n)[i] = lines[a + i - 1]
      <4>1. lines \in Seq(Line) /\ Spanned(lines, a, n)
        BY <1>1, <1>4 DEF Spanned
      <4>2. IsPart(Part(lines, a, n), lines, a, n)
        BY <4>1, PartNamed, Zenon
      <4> QED BY <4>2 DEF IsPart
    <3>2. n + 1 - a = k /\ k \in 1..k /\ a + k - 1 = n
      BY <1>8, <1>a, <1>e
    <3>3. Part(lines, a, n)[k] = lines[a + k - 1]
      BY <3>1, <3>2
    <3> QED BY <2>4, <3>1, <3>2, <3>3
  <2>8. Last(Batched(lines)) = Last(lines) /\ Batched(lines) # <<>>
    BY <1>8, <2>2, <2>6 DEF Last
  <2>9. Continues(lines, line)
    BY <1>k, <2>1, <2>2, <2>3, <2>7, <2>8 DEF Continues
  <2> QED BY <1>6, <2>4, <2>5, <2>9
<1> QED BY <1>2, <1>5, <1>7, <1>8, <1>k

\* What one line makes of a stream.
Grown(q, x) ==
  IF q # NoLines /\ Follows("forward", Last(q), x) THEN Append(q, x)
  ELSE IF x.index = 0 THEN <<x>> ELSE NoLines
Shrunk(q, x) ==
  IF q # NoLines /\ Follows("reverse", Last(q), x) THEN Append(q, x)
  ELSE IF Ends(x) THEN <<x>> ELSE NoLines
Pushed(grown, commit, c, x) ==
  IF grown # NoLines /\ Len(grown) = x.count THEN Stream(x.seq, NoLines, Append(c, commit), 0)
  ELSE Stream(x.seq, grown, c, 0)

Moved(s, a, b) == [s EXCEPT !.previous = a, !.pending = b]
Committed(s, a, b, d) == [s EXCEPT !.previous = a, !.pending = b, !.commits = Append(@, d)]
LEMMA StreamMoves ==
  ASSUME NEW p, NEW q, NEW c, NEW f, NEW a, NEW b, NEW d
  PROVE  /\ Moved(Stream(p, q, c, f), a, b) = Stream(a, b, c, f)
         /\ Committed(Stream(p, q, c, f), a, b, d) = Stream(a, b, Append(c, d), f)
<1>s. PICK s : s = Stream(p, q, c, f)
  OBVIOUS
<1>e. PICK e : e = Append(c, d)
  OBVIOUS
<1>1. [Stream(p, q, c, f) EXCEPT !.previous = a] = Stream(a, q, c, f)
  BY DEF Stream
<1>2. [Stream(a, q, c, f) EXCEPT !.pending = b] = Stream(a, b, c, f)
  BY DEF Stream
<1>3. [Stream(a, b, c, f) EXCEPT !.commits = e] = Stream(a, b, e, f)
  BY DEF Stream
<1>4. s.commits = c /\ DOMAIN s = {"previous", "pending", "commits", "faults"}
  BY <1>s DEF Stream
<1>r. PICK r : r = s
  OBVIOUS
<1>5. [r EXCEPT !.previous = a, !.pending = b] = [[r EXCEPT !.previous = a] EXCEPT !.pending = b]
  BY <1>4, <1>r
<1>6. [r EXCEPT !.previous = a, !.pending = b, !.commits = e] = [[[r EXCEPT !.previous = a] EXCEPT !.pending = b] EXCEPT !.commits = e]
  BY <1>4, <1>r
<1> QED BY <1>1, <1>2, <1>3, <1>4, <1>5, <1>6, <1>e, <1>r, <1>s, Zenon DEF Moved, Committed

LEMMA PushAhead ==
  ASSUME NEW p, NEW q, NEW c, NEW x, p = 0 \/ x.seq > p
  PROVE  AheadStep(Stream(p, q, c, 0), x) = Pushed(Grown(q, x), Grown(q, x), c, x)
<1>g. PICK g : g = Grown(q, x)
  OBVIOUS
<1>1. g = IF q # NoLines /\ Follows("forward", Last(q), x) THEN Append(q, x) ELSE IF x.index = 0 THEN <<x>> ELSE NoLines
  BY <1>g DEF Grown
<1>s. PICK s : s = Stream(p, q, c, 0)
  OBVIOUS
<1>2. s = [previous |-> p, pending |-> q, commits |-> c, faults |-> 0]
  BY <1>s DEF Stream
<1>3. AheadStep(s, x) = IF g # NoLines /\ Len(g) = x.count
                        THEN Committed(s, x.seq, NoLines, g)
                        ELSE Moved(s, x.seq, g)
  <2>1. s.previous = p /\ s.pending = q
    BY <1>2
  <2> QED BY <1>1, <2>1, Zenon DEF AheadStep, Push, Moved, Committed
<1>4. Committed(s, x.seq, NoLines, g) = Stream(x.seq, NoLines, Append(c, g), 0)
  BY <1>s, StreamMoves
<1>5. Moved(s, x.seq, g) = Stream(x.seq, g, c, 0)
  BY <1>s, StreamMoves
<1>6. AheadStep(s, x) = Pushed(g, g, c, x)
  BY <1>3, <1>4, <1>5, Zenon DEF Pushed
<1> QED BY <1>6, <1>g, <1>s

LEMMA PushBack ==
  ASSUME NEW p, NEW q, NEW c, NEW x, p = 0 \/ x.seq < p
  PROVE  BackStep(Stream(p, q, c, 0), x) = Pushed(Shrunk(q, x), Reverse(Shrunk(q, x)), c, x)
<1>g. PICK g : g = Shrunk(q, x)
  OBVIOUS
<1>1. g = IF q # NoLines /\ Follows("reverse", Last(q), x) THEN Append(q, x) ELSE IF x.index + 1 = x.count THEN <<x>> ELSE NoLines
  BY <1>g DEF Shrunk, Ends
<1>s. PICK s : s = Stream(p, q, c, 0)
  OBVIOUS
<1>2. s = [previous |-> p, pending |-> q, commits |-> c, faults |-> 0]
  BY <1>s DEF Stream
<1>3. BackStep(s, x) = IF g # NoLines /\ Len(g) = x.count
                       THEN Committed(s, x.seq, NoLines, Reverse(g))
                       ELSE Moved(s, x.seq, g)
  <2>1. s.previous = p /\ s.pending = q /\ "reverse" # "forward"
    BY <1>2
  <2> QED BY <1>1, <2>1, Zenon DEF BackStep, Push, Moved, Committed
<1>4. Committed(s, x.seq, NoLines, Reverse(g)) = Stream(x.seq, NoLines, Append(c, Reverse(g)), 0)
  BY <1>s, StreamMoves
<1>5. Moved(s, x.seq, g) = Stream(x.seq, g, c, 0)
  BY <1>s, StreamMoves
<1>6. BackStep(s, x) = Pushed(g, Reverse(g), c, x)
  BY <1>3, <1>4, <1>5, Zenon DEF Pushed
<1> QED BY <1>6, <1>g, <1>s

\* The stream after the lines of a formed file, and after one more.
Onward(lines, p, c) == Stream(Reached(lines, p), Open(lines), c, 0)
Added(c, m) == IF Ends(Last(m)) THEN Append(c, Batched(m)) ELSE c
LEMMA LineAhead ==
  ASSUME NEW lines, NEW x, NEW m, Longer(m, lines, x), NEW p \in Nat, p = 0 \/ p < m[1].seq, NEW c
  PROVE  AheadStep(Onward(lines, p, c), x) = Onward(m, p, Added(c, m))
<1>0. x \in Line /\ x.seq \in Nat /\ x.index \in Nat /\ x.count \in Nat /\ m # <<>> /\ lines \in Seq(Line)
  BY LineIs DEF Longer
<1>b. /\ Last(m) = x /\ Len(Batched(m)) = x.index + 1 /\ Batched(m) \in Seq(Line)
      /\ x.index = 0 => Batched(m) = <<x>>
      /\ x.index # 0 => Continues(lines, x) /\ Batched(m) = Append(Batched(lines), x)
  BY BatchedIs
<1>1. Reached(lines, p) = 0 \/ x.seq > Reached(lines, p)
  <2>1. CASE lines = <<>>
    <3>1. m[1] = x
      BY <2>1 DEF Longer
    <3>2. Reached(lines, p) = p
      BY <2>1 DEF Reached
    <3> QED BY <1>0, <3>1, <3>2
  <2>2. CASE lines # <<>>
    <3>n. PICK n \in Nat : n = Len(lines)
      BY <1>0
    <3>1. n + 1 > 1 /\ n + 1 \in 1..Len(m) /\ m[n + 1] = x /\ m[(n + 1) - 1] = lines[n] /\ lines[n] \in Line
      BY <2>2, <3>n DEF Longer
    <3>2. x.seq = lines[n].seq + 1
      BY <3>1 DEF Longer, Formed
    <3>3. Reached(lines, p) = lines[n].seq
      BY <2>2, <3>n DEF Reached, Last
    <3>4. lines[n].seq \in Nat
      BY <3>1, LineIs
    <3>s. PICK s \in Nat : s = lines[n].seq
      BY <3>4
    <3> QED BY <1>0, <3>2, <3>3, <3>s
  <2> QED BY <2>1, <2>2
<1>2. Grown(Open(lines), x) = Batched(m)
  <2>1. CASE x.index = 0
    <3>1. ~(Open(lines) # NoLines /\ Follows("forward", Last(Open(lines)), x))
      <4> SUFFICES ASSUME Open(lines) # NoLines, Follows("forward", Last(Open(lines)), x) PROVE FALSE
        OBVIOUS
      <4>1. Open(lines) = Batched(lines) /\ lines # <<>>
        BY DEF Open, NoLines
      <4>2. Last(Batched(lines)).index \in Nat
        <5>n. PICK n \in Nat : n = Len(lines) - 1
          BY <1>0, <4>1
        <5>1. PICK front \in Seq(Line) : Len(front) = n /\ lines = Append(front, lines[n + 1]) /\ lines[n + 1] \in Line
          <6>1. Len(lines) = n + 1
            BY <1>0, <5>n
          <6> QED BY <1>0, <6>1, Ahead!FrontIs
        <5>y. PICK y : y = lines[n + 1]
          OBVIOUS
        <5>2. Formed(lines)
          BY FormedFront DEF Longer
        <5>3. Longer(lines, front, y)
          BY <1>0, <5>1, <5>2, <5>y DEF Longer
        <5>4. y.index = 0 => Batched(lines) = <<y>>
          BY <5>3, BatchedIs
        <5>5. y.index # 0 => Batched(lines) = Append(Batched(front), y) /\ Batched(front) # <<>>
          BY <5>3, BatchedIs DEF Continues
        <5>6. Batched(lines) \in Seq(Line) /\ Batched(lines) # <<>>
          <6>1. Batched(lines) \in Seq(Line) /\ Len(Batched(lines)) = y.index + 1
            BY <5>3, BatchedIs
          <6>2. y.index \in Nat
            BY <5>1, <5>y, LineIs
          <6> QED BY <6>1, <6>2
        <5>7. Last(Batched(lines)) \in Line
          BY <5>6 DEF Last
        <5> QED BY <5>7, LineIs
      <4>3. x.index = Last(Batched(lines)).index + 1
        BY <4>1 DEF Follows
      <4>k. PICK k \in Nat : k = Last(Batched(lines)).index
        BY <4>2
      <4> QED BY <2>1, <4>3, <4>k
    <3> QED BY <1>b, <2>1, <3>1 DEF Grown
  <2>2. CASE x.index # 0
    <3>1. Continues(lines, x) /\ Batched(m) = Append(Batched(lines), x)
      BY <1>b, <2>2
    <3>2. Open(lines) = Batched(lines)
      BY <3>1 DEF Continues, Open
    <3>3. Follows("forward", Last(Batched(lines)), x)
      BY <3>1 DEF Continues, Follows
    <3> QED BY <3>1, <3>2, <3>3 DEF Continues, Grown, NoLines
  <2> QED BY <2>1, <2>2
<1>3. AheadStep(Onward(lines, p, c), x) = Pushed(Batched(m), Batched(m), c, x)
  BY <1>1, <1>2, PushAhead DEF Onward
<1>4. Batched(m) # NoLines /\ (Len(Batched(m)) = x.count <=> Ends(x))
  BY <1>0, <1>b DEF Ends, NoLines
<1>5. Reached(m, p) = x.seq /\ Open(m) = IF Ends(x) THEN NoLines ELSE Batched(m)
  BY <1>0, <1>b DEF Reached, Open
<1>6. Added(c, m) = IF Ends(x) THEN Append(c, Batched(m)) ELSE c
  BY <1>b DEF Added
<1> QED BY <1>3, <1>4, <1>5, <1>6, Zenon DEF Pushed, Onward

\* The commits in one file.
Whole(lines) == PushAll("forward", NewStream, lines).commits
Batches == Seq(Line)
Before1(p, lines) == p = 0 \/ lines = <<>> \/ p < lines[1].seq

LEMMA OnwardIs == \A lines, p, c : Onward(lines, p, c).commits = c /\ Onward(lines, p, c).pending = Open(lines)
                                   /\ Onward(lines, p, c).previous = Reached(lines, p)
  BY DEF Onward, Stream

\* Where a file's commits are appended to those before it.
AddsWhole(lines) ==
  \A p \in Nat, c \in Seq(Batches) : Before1(p, lines) => Ahead!Fold(Stream(p, NoLines, c, 0), lines) = Onward(lines, p, c \o Whole(lines))

LEMMA NewIs == NewStream = Stream(0, NoLines, <<>>, 0)
  BY DEF NewStream, Stream

LEMMA WholeNone == Whole(<<>>) = <<>>
<1>1. Ahead!Fold(NewStream, <<>>) = NewStream
  BY Ahead!FoldNone
<1> QED BY <1>1, AheadIs DEF Whole, NewStream

LEMMA WholeStep ==
  ASSUME NEW lines, NEW x, NEW m, Longer(m, lines, x), AddsWhole(lines), Whole(lines) \in Seq(Batches)
  PROVE  AddsWhole(m) /\ Whole(m) = Added(Whole(lines), m) /\ Whole(m) \in Seq(Batches)
<1>0. lines \in Seq(Line) /\ x \in Line /\ m = Append(lines, x) /\ m # <<>>
  BY DEF Longer
<1>1. ASSUME NEW p \in Nat, NEW c \in Seq(Batches), Before1(p, m)
      PROVE  Ahead!Fold(Stream(p, NoLines, c, 0), m) = Onward(m, p, Added(c \o Whole(lines), m))
  <2>1. Before1(p, lines)
    <3>1. lines # <<>> => m[1] = lines[1]
      BY <1>0
    <3> QED BY <1>0, <1>1, <3>1 DEF Before1
  <2>2. p = 0 \/ p < m[1].seq
    BY <1>0, <1>1 DEF Before1
  <2>3. Ahead!Fold(Stream(p, NoLines, c, 0), lines) = Onward(lines, p, c \o Whole(lines))
    BY <2>1 DEF AddsWhole
  <2>4. Ahead!Fold(Stream(p, NoLines, c, 0), m) = AheadStep(Ahead!Fold(Stream(p, NoLines, c, 0), lines), x)
    BY <1>0, Ahead!FoldMore
  <2>5. AheadStep(Onward(lines, p, c \o Whole(lines)), x) = Onward(m, p, Added(c \o Whole(lines), m))
    BY <2>2, LineAhead
  <2> QED BY <2>3, <2>4, <2>5
<1>2. Whole(m) = Added(Whole(lines), m)
  <2>1. Before1(0, m) /\ 0 \in Nat /\ <<>> \in Seq(Batches)
    BY DEF Before1
  <2>2. Ahead!Fold(Stream(0, NoLines, <<>>, 0), m) = Onward(m, 0, Added(<<>> \o Whole(lines), m))
    BY <1>1, <2>1
  <2>3. <<>> \o Whole(lines) = Whole(lines)
    OBVIOUS
  <2>4. Whole(m) = Onward(m, 0, Added(Whole(lines), m)).commits
    BY <2>2, <2>3, NewIs, AheadIs DEF Whole
  <2> QED BY <2>4, OnwardIs
<1>3. Batched(m) \in Batches
  BY BatchedIs DEF Batches
<1>4. Whole(m) \in Seq(Batches)
  BY <1>2, <1>3 DEF Added
<1>5. ASSUME NEW c \in Seq(Batches) PROVE Added(c \o Whole(lines), m) = c \o Added(Whole(lines), m)
  <2>w. PICK w \in Seq(Batches) : w = Whole(lines)
    OBVIOUS
  <2>b. PICK b \in Batches : b = Batched(m)
    BY <1>3
  <2>1. Append(c \o w, b) = c \o Append(w, b)
    OBVIOUS
  <2> QED BY <2>1, <2>w, <2>b DEF Added
<1>6. AddsWhole(m)
  BY <1>1, <1>2, <1>5 DEF AddsWhole
<1> QED BY <1>2, <1>4, <1>6

LEMMA FileAhead == \A lines : Formed(lines) => AddsWhole(lines) /\ Whole(lines) \in Seq(Batches)
<1> DEFINE G == {lines \in Seq(Line) : Formed(lines) => AddsWhole(lines) /\ Whole(lines) \in Seq(Batches)}
<1>1. <<>> \in G
  <2>1. Whole(<<>>) \in Seq(Batches)
    <3>1. <<>> \in Seq(Batches)
      OBVIOUS
    <3> QED BY <3>1, WholeNone, Zenon
  <2>2. ASSUME NEW p \in Nat, NEW c \in Seq(Batches)
        PROVE  Ahead!Fold(Stream(p, NoLines, c, 0), <<>>) = Onward(<<>>, p, c \o Whole(<<>>))
    <3>1. Ahead!Fold(Stream(p, NoLines, c, 0), <<>>) = Stream(p, NoLines, c, 0)
      BY Ahead!FoldNone
    <3>2. c \o Whole(<<>>) = c
      BY WholeNone
    <3> QED BY <3>1, <3>2 DEF Onward, Reached, Open
  <2> QED BY <2>1, <2>2 DEF AddsWhole
<1>2. \A lines \in Seq(Line), x \in Line : lines \in G => Append(lines, x) \in G
  <2> SUFFICES ASSUME NEW lines \in Seq(Line), NEW x \in Line, lines \in G, Formed(Append(lines, x))
               PROVE  AddsWhole(Append(lines, x)) /\ Whole(Append(lines, x)) \in Seq(Batches)
    OBVIOUS
  <2>1. Formed(lines)
    BY FormedFront
  <2>2. Longer(Append(lines, x), lines, x)
    BY DEF Longer
  <2> QED BY <2>1, <2>2, WholeStep
<1> HIDE DEF G
<1>3. \A lines \in Seq(Line) : lines \in G
  BY <1>1, <1>2, Ahead!SeqInduct
<1> QED BY <1>3 DEF G, Formed

\* One line more completes a batch or does not.
LEMMA WholeMore ==
  ASSUME NEW lines, NEW x, NEW m, Longer(m, lines, x)
  PROVE  Whole(m) = Added(Whole(lines), m) /\ Whole(lines) \in Seq(Batches) /\ Formed(lines)
<1>1. Formed(lines)
  BY FormedFront DEF Longer
<1> QED BY <1>1, FileAhead, WholeStep

LEMMA ReverseIs ==
  ASSUME NEW S, NEW s \in Seq(S)
  PROVE  Reverse(s) \in Seq(S) /\ Len(Reverse(s)) = Len(s) /\ \A i \in 1..Len(s) : Reverse(s)[i] = s[Len(s) - i + 1]
  BY DEF Reverse

LEMMA ReverseTwice == ASSUME NEW S, NEW s \in Seq(S) PROVE Reverse(Reverse(s)) = s
<1>n. PICK n \in Nat : n = Len(s)
  OBVIOUS
<1>r. PICK r \in Seq(S) : r = Reverse(s)
  BY ReverseIs
<1>t. PICK t \in Seq(S) : t = Reverse(r)
  BY ReverseIs
<1>1. Len(r) = n /\ Len(t) = n /\ \A i \in 1..n : r[i] = s[n - i + 1]
  BY ReverseIs, <1>n, <1>r, <1>t
<1>2. \A i \in 1..n : t[i] = r[n - i + 1]
  <2>1. \A i \in 1..Len(r) : Reverse(r)[i] = r[Len(r) - i + 1]
    BY ReverseIs
  <2> QED BY <2>1, <1>1, <1>t
<1>3. \A i \in 1..n : t[i] = s[i]
  <2> SUFFICES ASSUME NEW i \in 1..n PROVE t[i] = s[i]
    OBVIOUS
  <2>j. PICK j \in 1..n : j = n - i + 1
    OBVIOUS
  <2>1. n - j + 1 = i
    BY <2>j
  <2> QED BY <1>1, <1>2, <2>1, <2>j
<1>4. t = s
  BY <1>1, <1>3, <1>n
<1> QED BY <1>4, <1>r, <1>t

LEMMA JoinIs ==
  ASSUME NEW S, NEW s \in Seq(S), NEW t \in Seq(S)
  PROVE  /\ s \o t \in Seq(S) /\ Len(s \o t) = Len(s) + Len(t)
         /\ \A i \in 1..Len(s) : (s \o t)[i] = s[i]
         /\ \A i \in 1..Len(t) : (s \o t)[Len(s) + i] = t[i]
  OBVIOUS

\* What comes first is last in the reverse.
LEMMA ReverseMore ==
  ASSUME NEW S, NEW w \in Seq(S), NEW c \in Seq(S), NEW b \in S
  PROVE  Append(w, b) \o Reverse(c) = w \o Reverse(Append(c, b))
<1>m. PICK m \in Nat, n \in Nat : m = Len(w) /\ n = Len(c)
  OBVIOUS
<1>d. PICK d \in Seq(S) : d = Append(c, b)
  <2>1. Append(c, b) \in Seq(S)
    OBVIOUS
  <2> QED BY <2>1
<1>1. Len(d) = n + 1 /\ d[n + 1] = b /\ \A i \in 1..n : d[i] = c[i]
  BY <1>d, <1>m
<1>r. PICK r \in Seq(S) : r = Reverse(c)
  BY ReverseIs
<1>t. PICK t \in Seq(S) : t = Reverse(d)
  BY ReverseIs
<1>2. Len(r) = n /\ \A i \in 1..n : r[i] = c[n - i + 1]
  BY ReverseIs, <1>r, <1>m
<1>3. Len(t) = n + 1 /\ \A i \in 1..(n + 1) : t[i] = d[(n + 1) - i + 1]
  BY ReverseIs, <1>t, <1>1
<1>4. t[1] = b /\ \A i \in 1..n : t[i + 1] = r[i]
  <2>1. t[1] = b
    BY <1>1, <1>3
  <2>2. ASSUME NEW i \in 1..n PROVE t[i + 1] = r[i]
    <3>j. PICK j \in 1..n : j = n - i + 1
      OBVIOUS
    <3>1. (n + 1) - (i + 1) + 1 = j /\ i + 1 \in 1..(n + 1)
      BY <3>j
    <3>2. t[i + 1] = d[(n + 1) - (i + 1) + 1]
      BY <1>3, <3>1
    <3> QED BY <1>1, <1>2, <3>1, <3>2, <3>j
  <2> QED BY <2>1, <2>2
<1>a. PICK a \in Seq(S) : a = Append(w, b)
  <2>1. Append(w, b) \in Seq(S)
    OBVIOUS
  <2> QED BY <2>1
<1>5. Len(a) = m + 1 /\ a[m + 1] = b /\ \A i \in 1..m : a[i] = w[i]
  BY <1>a, <1>m
<1>x. PICK x \in Seq(S), y \in Seq(S) : x = a \o r /\ y = w \o t
  <2>1. a \o r \in Seq(S) /\ w \o t \in Seq(S)
    OBVIOUS
  <2> QED BY <2>1
<1>6. /\ Len(x) = (m + 1) + n /\ \A i \in 1..(m + 1) : x[i] = a[i]
      /\ \A i \in 1..n : x[(m + 1) + i] = r[i]
  <2>1. /\ Len(a \o r) = Len(a) + Len(r) /\ \A i \in 1..Len(a) : (a \o r)[i] = a[i]
        /\ \A i \in 1..Len(r) : (a \o r)[Len(a) + i] = r[i]
    BY JoinIs
  <2> QED BY <2>1, <1>x, <1>5, <1>2
<1>7. /\ Len(y) = m + (n + 1) /\ \A i \in 1..m : y[i] = w[i]
      /\ \A i \in 1..(n + 1) : y[m + i] = t[i]
  <2>1. /\ Len(w \o t) = Len(w) + Len(t) /\ \A i \in 1..Len(w) : (w \o t)[i] = w[i]
        /\ \A i \in 1..Len(t) : (w \o t)[Len(w) + i] = t[i]
    BY JoinIs
  <2> QED BY <2>1, <1>x, <1>3, <1>m
<1>8. \A i \in 1..(m + n + 1) : x[i] = y[i]
  <2> SUFFICES ASSUME NEW i \in 1..(m + n + 1) PROVE x[i] = y[i]
    OBVIOUS
  <2>1. CASE i <= m
    BY <1>5, <1>6, <1>7, <2>1
  <2>2. CASE i = m + 1
    <3>1. x[m + 1] = b
      BY <1>5, <1>6
    <3>2. y[m + 1] = t[1]
      BY <1>7
    <3> QED BY <1>4, <2>2, <3>1, <3>2
  <2>3. CASE i > m + 1
    <3>j. PICK j \in 1..n : i = m + 1 + j
      BY <2>3
    <3>1. x[i] = r[j]
      BY <1>6, <3>j
    <3>2. i = m + (j + 1) /\ j + 1 \in 1..(n + 1)
      BY <3>j
    <3>3. y[i] = t[j + 1]
      BY <1>7, <3>2
    <3> QED BY <1>4, <3>1, <3>3
  <2> QED BY <2>1, <2>2, <2>3
<1>9. x = y
  BY <1>6, <1>7, <1>8
<1> QED BY <1>9, <1>x, <1>a, <1>r, <1>t, <1>d

\* A part of a part from the beginning; one more at the beginning of a part.
LEMMA PartOfFront ==
  ASSUME NEW S, NEW s \in Seq(S), NEW q \in Nat, q <= Len(s), NEW a \in Nat, NEW b \in Nat, 1 <= a, a <= b + 1, b <= q
  PROVE  Part(Part(s, 1, q), a, b) = Part(s, a, b)
<1>f. PICK f \in Seq(S) : f = Part(s, 1, q)
  <2>1. Spanned(s, 1, q)
    BY DEF Spanned
  <2> QED BY <2>1, PartNamed, Zenon
<1>1. Len(f) = q /\ \A i \in 1..q : f[i] = s[i]
  BY <1>f DEF Part
<1>t. PICK t : t = Part(f, a, b)
  OBVIOUS
<1>u. PICK u : u = Part(s, a, b)
  OBVIOUS
<1>2. t \in Seq(S) /\ Len(t) = b + 1 - a /\ \A i \in 1..(b + 1 - a) : t[i] = f[a + i - 1]
  <2>1. Spanned(f, a, b)
    BY <1>1 DEF Spanned
  <2>2. t \in Seq(S) /\ IsPart(t, f, a, b)
    BY <1>t, <2>1, PartNamed, Zenon
  <2> QED BY <2>2 DEF IsPart
<1>3. u \in Seq(S) /\ Len(u) = b + 1 - a /\ \A i \in 1..(b + 1 - a) : u[i] = s[a + i - 1]
  <2>1. Spanned(s, a, b)
    BY DEF Spanned
  <2>2. u \in Seq(S) /\ IsPart(u, s, a, b)
    BY <1>u, <2>1, PartNamed, Zenon
  <2> QED BY <2>2 DEF IsPart
<1>n. PICK n \in Nat : n = b + 1 - a
  OBVIOUS
<1>4. \A i \in 1..n : t[i] = u[i]
  <2> SUFFICES ASSUME NEW i \in 1..n PROVE t[i] = u[i]
    OBVIOUS
  <2>k. PICK k \in 1..q : k = a + i - 1
    BY <1>n
  <2>1. t[i] = f[k] /\ u[i] = s[k]
    BY <1>2, <1>3, <1>n, <2>k
  <2> QED BY <1>1, <2>1
<1>6. Len(t) = n /\ Len(u) = n /\ t \in Seq(S) /\ u \in Seq(S)
  BY <1>2, <1>3, <1>n
<1>5. t = u
  BY <1>4, <1>6
<1> QED BY <1>5, <1>t, <1>u, <1>f

LEMMA PartBack ==
  ASSUME NEW S, NEW s \in Seq(S), NEW a \in Nat, NEW e \in Nat, 1 <= a, a <= e, e <= Len(s)
  PROVE  Reverse(Part(s, a, e)) = Append(Reverse(Part(s, a + 1, e)), s[a])
<1>t. PICK t : t = Part(s, a, e)
  OBVIOUS
<1>u. PICK u : u = Part(s, a + 1, e)
  OBVIOUS
<1>n. PICK n \in Nat : n = e - a
  OBVIOUS
<1>1. t \in Seq(S) /\ Len(t) = n + 1 /\ \A i \in 1..(n + 1) : t[i] = s[a + i - 1]
  <2>1. Spanned(s, a, e)
    BY DEF Spanned
  <2>4. t \in Seq(S) /\ IsPart(t, s, a, e)
    BY <1>t, <2>1, PartNamed, Zenon
  <2>2. t \in Seq(S) /\ Len(t) = e + 1 - a /\ \A i \in 1..(e + 1 - a) : t[i] = s[a + i - 1]
    BY <2>4 DEF IsPart
  <2>3. e + 1 - a = n + 1
    BY <1>n
  <2> QED BY <2>2, <2>3
<1>b. PICK b \in Nat : b = a + 1
  OBVIOUS
<1>2. u \in Seq(S) /\ Len(u) = n /\ \A i \in 1..n : u[i] = s[a + i]
  <2>1. Spanned(s, b, e) /\ u = Part(s, b, e)
    BY <1>b, <1>u DEF Spanned
  <2>5. u \in Seq(S) /\ IsPart(u, s, b, e)
    BY <2>1, PartNamed, Zenon
  <2>2. u \in Seq(S) /\ Len(u) = e + 1 - b /\ \A i \in 1..(e + 1 - b) : u[i] = s[b + i - 1]
    BY <2>5 DEF IsPart
  <2>3. e + 1 - b = n
    BY <1>n, <1>b
  <2>4. \A i \in 1..n : b + i - 1 = a + i
    BY <1>b
  <2> QED BY <2>2, <2>3, <2>4
<1>r. PICK r \in Seq(S) : r = Reverse(t)
  BY <1>1, ReverseIs
<1>v. PICK v \in Seq(S) : v = Reverse(u)
  BY <1>2, ReverseIs
<1>3. Len(r) = n + 1 /\ \A i \in 1..(n + 1) : r[i] = t[(n + 1) - i + 1]
  <2>1. Len(Reverse(t)) = Len(t) /\ \A i \in 1..Len(t) : Reverse(t)[i] = t[Len(t) - i + 1]
    BY <1>1, ReverseIs
  <2>2. Len(r) = Len(t) /\ \A i \in 1..Len(t) : r[i] = t[Len(t) - i + 1]
    BY <1>r, <2>1, Zenon
  <2>3. Len(t) = n + 1
    BY <1>1
  <2> QED BY <2>2, <2>3
<1>4. Len(v) = n /\ \A i \in 1..n : v[i] = u[n - i + 1]
  <2>1. Len(Reverse(u)) = Len(u) /\ \A i \in 1..Len(u) : Reverse(u)[i] = u[Len(u) - i + 1]
    BY <1>2, ReverseIs
  <2>2. Len(v) = Len(u) /\ \A i \in 1..Len(u) : v[i] = u[Len(u) - i + 1]
    BY <1>v, <2>1, Zenon
  <2>3. Len(u) = n
    BY <1>2
  <2> QED BY <2>2, <2>3
<1>5. r[n + 1] = s[a] /\ s[a] \in S
  <2>1. r[n + 1] = t[1] /\ t[1] = s[a]
    BY <1>1, <1>3
  <2> QED BY <1>1, <2>1
<1>6. \A i \in 1..n : r[i] = v[i]
  <2> SUFFICES ASSUME NEW i \in 1..n PROVE r[i] = v[i]
    OBVIOUS
  <2>j. PICK j \in 1..n : j = n - i + 1
    OBVIOUS
  <2>1. (n + 1) - i + 1 = j + 1 /\ j + 1 \in 1..(n + 1) /\ i \in 1..(n + 1) /\ a + (j + 1) - 1 = a + j
    BY <2>j
  <2>2. r[i] = t[j + 1] /\ t[j + 1] = s[a + j]
    BY <1>1, <1>3, <2>1
  <2>3. v[i] = s[a + j]
    BY <1>2, <1>4, <2>j
  <2> QED BY <2>2, <2>3
<1>w. PICK w \in Seq(S) : w = Append(v, s[a])
  <2>1. Append(v, s[a]) \in Seq(S)
    BY <1>5
  <2> QED BY <2>1
<1>7. Len(w) = n + 1 /\ w[n + 1] = s[a] /\ \A i \in 1..n : w[i] = v[i]
  BY <1>w, <1>4
<1>8. \A i \in 1..(n + 1) : r[i] = w[i]
  BY <1>5, <1>6, <1>7
<1>9. r = w
  BY <1>3, <1>7, <1>8
<1> QED BY <1>9, <1>r, <1>w, <1>v, <1>t, <1>u

\* The first q lines of a formed file are formed, and how many commits one more adds.
LEMMA FrontFormed ==
  ASSUME NEW lines, Formed(lines), NEW q \in Nat, q <= Len(lines)
  PROVE  Formed(Part(lines, 1, q)) /\ Part(lines, 1, q) \in Seq(Line) /\ Len(Part(lines, 1, q)) = q
         /\ \A i \in 1..q : Part(lines, 1, q)[i] = lines[i]
<1>0. lines \in Seq(Line)
  BY DEF Formed
<1>f. PICK f : f = Part(lines, 1, q)
  OBVIOUS
<1>1. f \in Seq(Line) /\ Len(f) = q /\ \A i \in 1..q : f[i] = lines[i]
  BY <1>0, <1>f DEF Part
<1>2. Formed(f)
  <2> SUFFICES ASSUME NEW i \in 1..Len(f)
               PROVE  /\ f[i].index < f[i].count
                      /\ i > 1 => f[i].seq = f[i - 1].seq + 1
                      /\ f[i].index > 0 => i > 1 /\ f[i].index = f[i - 1].index + 1 /\ f[i].count = f[i - 1].count
    BY <1>1 DEF Formed
  <2>1. i \in 1..Len(lines) /\ f[i] = lines[i] /\ (i > 1 => f[i - 1] = lines[i - 1])
    BY <1>0, <1>1
  <2> QED BY <2>1 DEF Formed
<1> QED BY <1>1, <1>2, <1>f

LEMMA FrontLonger ==
  ASSUME NEW lines, Formed(lines), NEW q \in Nat, q < Len(lines)
  PROVE  Longer(Part(lines, 1, q + 1), Part(lines, 1, q), lines[q + 1])
<1>0. lines \in Seq(Line) /\ q + 1 \in Nat /\ q + 1 <= Len(lines) /\ q <= Len(lines)
  BY DEF Formed
<1>1. Formed(Part(lines, 1, q + 1)) /\ Part(lines, 1, q + 1) \in Seq(Line)
  BY <1>0, FrontFormed
<1>2. Part(lines, 1, q) \in Seq(Line)
  BY <1>0, FrontFormed
<1>3. Part(lines, 1, q + 1) = Append(Part(lines, 1, q), lines[q + 1]) /\ lines[q + 1] \in Line
  <2>1. 1 \in Nat /\ 1 <= 1 /\ 1 <= q + 1
    OBVIOUS
  <2> QED BY <1>0, <2>1, PartMore
<1> QED BY <1>1, <1>2, <1>3 DEF Longer

LEMMA WholeFront ==
  ASSUME NEW lines, Formed(lines), NEW q \in Nat, q < Len(lines), NEW a \in Nat, a + lines[q + 1].index = q + 1
  PROVE  /\ Whole(Part(lines, 1, q)) \in Seq(Batches) /\ 1 <= a
         /\ Ends(lines[q + 1]) => Whole(Part(lines, 1, q + 1)) = Append(Whole(Part(lines, 1, q)), Part(lines, a, q + 1))
         /\ ~Ends(lines[q + 1]) => Whole(Part(lines, 1, q + 1)) = Whole(Part(lines, 1, q))
         /\ Part(lines, a, q + 1) \in Batches
<1>x. PICK x : x = lines[q + 1]
  OBVIOUS
<1>e. PICK e \in Nat : e = q + 1
  OBVIOUS
<1>m. PICK m : m = Part(lines, 1, e)
  OBVIOUS
<1>l. PICK l : l = Part(lines, 1, q)
  OBVIOUS
<1>1. Longer(m, l, x)
  BY FrontLonger, <1>x, <1>m, <1>l, <1>e
<1>2. Whole(m) = Added(Whole(l), m) /\ Whole(l) \in Seq(Batches)
  BY <1>1, WholeMore
<1>3. Last(m) = x /\ Batched(m) \in Seq(Line)
  BY <1>1, BatchedIs
<1>0. lines \in Seq(Line) /\ e <= Len(lines) /\ e \in 1..Len(lines)
  BY <1>e DEF Formed
<1>4. Len(m) = e /\ x.index \in Nat
  <2>1. Len(m) = e
    BY <1>0, <1>m, FrontFormed
  <2>2. x \in Line
    BY <1>0, <1>x, <1>e
  <2> QED BY <2>1, <2>2, LineIs
<1>5. 1 <= a
  <2>1. FollowsBack(lines, e, x.index)
    <3>1. x.index <= lines[e].index /\ x.index \in Nat
      BY <1>4, <1>x, <1>e
    <3> QED BY <1>0, <3>1, BackInBatch
  <2>2. x.index < e
    BY <2>1 DEF FollowsBack
  <2>k. PICK k \in Nat : k = x.index
    BY <1>4
  <2>3. a + k = e
    BY <2>k, <1>x, <1>e
  <2> QED BY <2>2, <2>3, <2>k
<1>6. Batched(m) = Part(lines, a, e)
  <2>k. PICK k \in Nat : k = x.index
    BY <1>4
  <2>1. a + k = e
    BY <2>k, <1>x, <1>e
  <2>2. e - k = a
    BY <2>1
  <2>3. Batched(m) = Part(m, a, e)
    BY <1>3, <1>4, <2>2, <2>k DEF Batched
  <2>4. Part(Part(lines, 1, e), a, e) = Part(lines, a, e)
    <3>1. a <= e + 1 /\ e <= e
      BY <2>1
    <3> QED BY <1>0, <1>5, <3>1, PartOfFront
  <2> QED BY <2>3, <2>4, <1>m
<1> QED BY <1>2, <1>3, <1>5, <1>6, <1>x, <1>m, <1>l, <1>e DEF Added, Batches

\* What compression cuts off was no commit.
LEMMA PrefixIs ==
  ASSUME NEW lines, Formed(lines)
  PROVE  \E q \in Nat : q <= Len(lines) /\ CompletePrefix(lines) = Part(lines, 1, q) /\ Whole(Part(lines, 1, q)) = Whole(lines)
<1>0. lines \in Seq(Line)
  BY DEF Formed
<1>n. PICK n \in Nat : n = Len(lines)
  BY <1>0
<1>1. Part(lines, 1, n) = lines
  BY <1>0, <1>n, PartAll
<1>2. CASE lines = NoLines \/ Last(lines).index + 1 = Last(lines).count
  <2>1. CompletePrefix(lines) = lines
    BY <1>2 DEF CompletePrefix
  <2> QED BY <1>1, <2>1, <1>n
<1>3. CASE ~(lines = NoLines \/ Last(lines).index + 1 = Last(lines).count)
  <2>1. n > 0 /\ Last(lines) = lines[n] /\ lines[n] \in Line /\ n \in 1..Len(lines)
    BY <1>0, <1>3, <1>n DEF Last, NoLines
  <2>k. PICK k \in Nat : k = lines[n].index
    BY <2>1, LineIs
  <2>2. k < n /\ \A j \in Nat : j <= k => FollowsBack(lines, n, j)
    <3>1. \A j \in Nat : j <= k => FollowsBack(lines, n, j)
      BY <2>1, <2>k, BackInBatch
    <3>2. FollowsBack(lines, n, k)
      BY <3>1
    <3> QED BY <3>1, <3>2 DEF FollowsBack
  <2>q. PICK q \in Nat : q = n - 1 - k
    BY <2>2
  <2>3. CompletePrefix(lines) = Part(lines, 1, q)
    BY <1>3, <2>1, <2>k, <2>q, <1>n DEF CompletePrefix, Part
  <2>c. lines[n].count \in Nat /\ k + 1 < lines[n].count
    <3>1. k < lines[n].count /\ k + 1 # lines[n].count
      BY <2>1, <2>k, <1>3 DEF Formed
    <3>c. PICK c \in Nat : c = lines[n].count
      BY <2>1, LineIs
    <3> QED BY <3>1, <3>c
  <2> DEFINE G == {j \in Nat : j <= k + 1 => Whole(Part(lines, 1, n - j)) = Whole(lines)}
  <2>4. 0 \in G
    BY <1>1
  <2>5. ASSUME NEW j \in Nat, j \in G PROVE j + 1 \in G
    <3> SUFFICES ASSUME j + 1 <= k + 1 PROVE Whole(Part(lines, 1, n - (j + 1))) = Whole(lines)
      OBVIOUS
    <3>r. PICK r \in Nat : r = n - (j + 1)
      BY <2>2
    <3>1. r + 1 = n - j /\ r < Len(lines) /\ j <= k
      BY <3>r, <1>n
    <3>2. Whole(Part(lines, 1, r + 1)) = Whole(lines)
      BY <2>5, <3>1
    <3>3. FollowsBack(lines, n, j)
      BY <2>2, <3>1
    <3>4. lines[r + 1].index = k - j /\ lines[r + 1].count = lines[n].count
      BY <3>1, <3>3, <2>k DEF FollowsBack
    <3>5. ~Ends(lines[r + 1])
      <4>1. (k - j) + 1 < lines[n].count
        BY <2>c
      <4> QED BY <3>4, <4>1, <2>c DEF Ends
    <3>a. PICK a \in Nat : a + (k - j) = r + 1
      <4>1. n - k \in Nat /\ (n - k) + (k - j) = r + 1
        BY <2>2, <3>1
      <4> QED BY <4>1
    <3>6. a + lines[r + 1].index = r + 1
      BY <3>4, <3>a
    <3>7. Whole(Part(lines, 1, r + 1)) = Whole(Part(lines, 1, r))
      BY <3>1, <3>5, <3>6, WholeFront
    <3> QED BY <3>2, <3>7, <3>r
  <2> HIDE DEF G
  <2>6. \A j \in Nat : j \in G
    BY <2>4, <2>5, Ahead!Induct
  <2>7. Whole(Part(lines, 1, n - (k + 1))) = Whole(lines)
    BY <2>6 DEF G
  <2>8. n - (k + 1) = q
    BY <2>q
  <2>9. q <= Len(lines)
    BY <2>q, <1>n
  <2> QED BY <2>3, <2>7, <2>8, <2>9
<1> QED BY <1>2, <1>3

LEMMA PartOne == ASSUME NEW S, NEW s \in Seq(S), NEW a \in 1..Len(s) PROVE Part(s, a, a) = <<s[a]>>
<1>t. PICK t : t = Part(s, a, a)
  OBVIOUS
<1>1. a \in Nat /\ Spanned(s, a, a)
  BY DEF Spanned
<1>2. t \in Seq(S) /\ IsPart(t, s, a, a)
  BY <1>1, <1>t, PartNamed, Zenon
<1>3. Len(t) = 1 /\ t[1] = s[a]
  BY <1>1, <1>2 DEF IsPart
<1> QED BY <1>2, <1>3, <1>t

\* What a stream holds that has read a file backwards down to the line after p.
Behind(lines, p) == IF p = Len(lines) THEN 0 ELSE lines[p + 1].seq
Settled(lines, p, c) == Whole(lines) = Whole(Part(lines, 1, p)) \o Reverse(c)
Within(lines, p, q, e) ==
  /\ e \in 1..Len(lines) /\ p < e /\ Ends(lines[e]) /\ lines[p + 1].index > 0
  /\ lines[e].index + p + 1 = lines[p + 1].index + e /\ lines[p + 1].count = lines[e].count
  /\ q = Reverse(Part(lines, p + 1, e))
Holding(lines, p, c, a, e) ==
  /\ a \in Nat /\ a + lines[e].index = e
  /\ Whole(lines) = Append(Whole(Part(lines, 1, p)), Part(lines, a, e)) \o Reverse(c)
ReadBack(lines, p, st) ==
  \E q \in Seq(Line), c \in Seq(Batches) :
    /\ st = Stream(Behind(lines, p), q, c, 0)
    /\ \/ q = NoLines /\ Settled(lines, p, c)
       \/ \E a, e \in Nat : Within(lines, p, q, e) /\ Holding(lines, p, c, a, e)

\* The line below, when nothing is pending.
LEMMA LineBackFree ==
  ASSUME NEW lines, Formed(lines), NEW r \in Nat, NEW p \in Nat, p = r + 1, p <= Len(lines),
         NEW x, x = lines[p], NEW c \in Seq(Batches), Settled(lines, p, c)
  PROVE  ReadBack(lines, r, Pushed(Shrunk(NoLines, x), Reverse(Shrunk(NoLines, x)), c, x))
<1>0. lines \in Seq(Line) /\ p \in 1..Len(lines) /\ x \in Line /\ r < Len(lines)
  BY DEF Formed
<1>1. x.index \in Nat /\ x.count \in Nat /\ x.seq \in Nat
  BY <1>0, LineIs
<1>2. Behind(lines, r) = x.seq
  BY <1>0 DEF Behind
<1>a. PICK a \in Nat : a + lines[r + 1].index = r + 1
  <2>1. FollowsBack(lines, p, x.index)
    <3>1. x.index <= lines[p].index
      BY <1>1
    <3> QED BY <1>0, <1>1, <3>1, BackInBatch
  <2>2. x.index < p
    BY <2>1 DEF FollowsBack
  <2>k. PICK k \in Nat : k = x.index
    BY <1>1
  <2>3. p - k \in Nat /\ (p - k) + k = p
    BY <2>2, <2>k
  <2> QED BY <2>3, <2>k
<1>3. /\ Whole(Part(lines, 1, r)) \in Seq(Batches) /\ 1 <= a
      /\ Ends(lines[r + 1]) => Whole(Part(lines, 1, r + 1)) = Append(Whole(Part(lines, 1, r)), Part(lines, a, r + 1))
      /\ ~Ends(lines[r + 1]) => Whole(Part(lines, 1, r + 1)) = Whole(Part(lines, 1, r))
      /\ Part(lines, a, r + 1) \in Batches
  BY <1>0, <1>a, WholeFront
<1>4. CASE ~Ends(x)
  <2>1. Shrunk(NoLines, x) = NoLines
    BY <1>4 DEF Shrunk
  <2>2. Pushed(Shrunk(NoLines, x), Reverse(Shrunk(NoLines, x)), c, x) = Stream(Behind(lines, r), NoLines, c, 0)
    BY <1>2, <2>1 DEF Pushed
  <2>3. Settled(lines, r, c)
    BY <1>3, <1>4 DEF Settled
  <2>4. NoLines \in Seq(Line)
    BY DEF NoLines
  <2> QED BY <2>2, <2>3, <2>4 DEF ReadBack
<1>5. CASE Ends(x)
  <2>1. Shrunk(NoLines, x) = <<x>> /\ <<x>> # NoLines /\ Len(<<x>>) = 1
    BY <1>5 DEF Shrunk, NoLines
  <2>2. Part(lines, p, p) = <<x>>
    BY <1>0, PartOne
  <2>3. Reverse(<<x>>) = <<x>>
    BY DEF Reverse
  <2>4. Whole(lines) = Append(Whole(Part(lines, 1, r)), Part(lines, a, p)) \o Reverse(c)
    BY <1>3, <1>5 DEF Settled
  <2>5. CASE x.count = 1
    <3>1. a = p
      BY <1>1, <1>5, <1>a, <2>5 DEF Ends
    <3>2. Whole(lines) = Whole(Part(lines, 1, r)) \o Reverse(Append(c, <<x>>))
      <4>w. PICK w \in Seq(Batches) : w = Whole(Part(lines, 1, r))
        BY <1>3
      <4>b. PICK b \in Batches : b = <<x>>
        <5>1. <<x>> \in Batches
          BY <1>0 DEF Batches
        <5> QED BY <5>1
      <4>1. Whole(lines) = Append(w, b) \o Reverse(c)
        BY <2>2, <2>4, <3>1, <4>w, <4>b
      <4>2. Append(w, b) \o Reverse(c) = w \o Reverse(Append(c, b))
        BY ReverseMore
      <4> QED BY <4>1, <4>2, <4>w, <4>b
    <3>3. Append(c, <<x>>) \in Seq(Batches)
      BY <1>0 DEF Batches
    <3>4. Pushed(Shrunk(NoLines, x), Reverse(Shrunk(NoLines, x)), c, x) = Stream(Behind(lines, r), NoLines, Append(c, <<x>>), 0)
      BY <1>2, <2>1, <2>3, <2>5, Zenon DEF Pushed
    <3>5. NoLines \in Seq(Line)
      BY DEF NoLines
    <3>6. Settled(lines, r, Append(c, <<x>>))
      BY <3>2 DEF Settled
    <3> QED BY <3>3, <3>4, <3>5, <3>6, Zenon DEF ReadBack
  <2>6. CASE x.count # 1
    <3>1. Pushed(Shrunk(NoLines, x), Reverse(Shrunk(NoLines, x)), c, x) = Stream(Behind(lines, r), <<x>>, c, 0)
      <4>1. Len(<<x>>) # x.count
        BY <2>1, <2>6
      <4> QED BY <1>2, <2>1, <4>1, Zenon DEF Pushed
    <3>2. <<x>> \in Seq(Line)
      BY <1>0
    <3>3. Within(lines, r, <<x>>, p)
      <4>1. lines[r + 1].index > 0 /\ lines[r + 1] = x
        BY <1>1, <1>5, <2>6 DEF Ends
      <4>2. <<x>> = Reverse(Part(lines, r + 1, p))
        BY <2>2, <2>3
      <4>3. lines[p].index + r + 1 = lines[r + 1].index + p
        BY <1>1
      <4> QED BY <1>0, <1>5, <4>1, <4>2, <4>3 DEF Within
    <3>4. Holding(lines, r, c, a, p)
      BY <1>a, <2>4 DEF Holding
    <3>5. a \in Nat /\ p \in Nat
      OBVIOUS
    <3> QED BY <3>1, <3>2, <3>3, <3>4, <3>5 DEF ReadBack
  <2> QED BY <2>5, <2>6
<1> QED BY <1>4, <1>5

\* The line below, when it continues what is pending.
LEMMA LineBackHeld ==
  ASSUME NEW lines, Formed(lines), NEW r \in Nat, NEW p \in Nat, p = r + 1, p <= Len(lines), NEW x, x = lines[p],
         NEW c \in Seq(Batches), NEW q \in Seq(Line), NEW a \in Nat, NEW e \in Nat, Within(lines, p, q, e), Holding(lines, p, c, a, e)
  PROVE  ReadBack(lines, r, Pushed(Shrunk(q, x), Reverse(Shrunk(q, x)), c, x))
<1>0. lines \in Seq(Line) /\ p \in 1..Len(lines) /\ x \in Line /\ r < Len(lines)
  BY DEF Formed
<1>y. PICK y : y = lines[p + 1]
  OBVIOUS
<1>z. PICK z : z = lines[e]
  OBVIOUS
<1>1. /\ e \in 1..Len(lines) /\ p < e /\ Ends(z) /\ y.index > 0
      /\ z.index + p + 1 = y.index + e /\ y.count = z.count
      /\ q = Reverse(Part(lines, p + 1, e))
  BY <1>y, <1>z DEF Within
<1>2. p + 1 \in 1..Len(lines) /\ y \in Line /\ z \in Line
  BY <1>0, <1>1, <1>y, <1>z
<1>3. /\ x.index \in Nat /\ x.count \in Nat /\ x.seq \in Nat /\ y.index \in Nat /\ y.count \in Nat /\ y.seq \in Nat
      /\ z.index \in Nat /\ z.count \in Nat
  BY <1>0, <1>2, LineIs
<1>4. y.index = x.index + 1 /\ y.count = x.count /\ y.seq = x.seq + 1 /\ y.index < y.count
  <2>1. lines[p + 1].index > 0 /\ p + 1 > 1 /\ lines[(p + 1) - 1] = x
    BY <1>0, <1>1, <1>y
  <2>2. lines[p + 1].index = lines[(p + 1) - 1].index + 1 /\ lines[p + 1].count = lines[(p + 1) - 1].count
        /\ lines[p + 1].seq = lines[(p + 1) - 1].seq + 1 /\ lines[p + 1].index < lines[p + 1].count
    BY <1>2, <2>1 DEF Formed
  <2> QED BY <2>1, <2>2, <1>y
<1>5. ~Ends(x)
  BY <1>3, <1>4 DEF Ends
<1>6. Behind(lines, r) = x.seq
  BY <1>0 DEF Behind
<1>b. PICK b \in Nat : b + lines[r + 1].index = r + 1
  <2>1. FollowsBack(lines, p, x.index)
    <3>1. x.index <= lines[p].index
      BY <1>3
    <3> QED BY <1>0, <1>3, <3>1, BackInBatch
  <2>2. x.index < p
    BY <2>1 DEF FollowsBack
  <2>k. PICK k \in Nat : k = x.index
    BY <1>3
  <2>3. p - k \in Nat /\ (p - k) + k = p
    BY <2>2, <2>k
  <2> QED BY <2>3, <2>k
<1>7. /\ Whole(Part(lines, 1, r)) \in Seq(Batches)
      /\ ~Ends(lines[r + 1]) => Whole(Part(lines, 1, r + 1)) = Whole(Part(lines, 1, r))
  BY <1>0, <1>b, WholeFront
<1>8. Whole(Part(lines, 1, p)) = Whole(Part(lines, 1, r))
  BY <1>5, <1>7
<1>9. Shrunk(q, x) = Append(q, x) /\ Append(q, x) = Reverse(Part(lines, p, e))
  <2>u. PICK u \in Seq(Line) : u = Part(lines, p + 1, e)
    <3>1. Spanned(lines, p + 1, e)
      BY <1>1 DEF Spanned
    <3> QED BY <1>0, <3>1, PartNamed, Zenon
  <2>1. Len(u) = e - p /\ u[1] = y /\ e - p > 0
    <3>s. PICK s \in Nat : s = p + 1
      OBVIOUS
    <3>1. 1 <= s /\ s <= e + 1 /\ e <= Len(lines)
      BY <1>1, <3>s
    <3>2. u = Part(lines, s, e)
      BY <2>u, <3>s
    <3>4. Len(Part(lines, s, e)) = e + 1 - s /\ \A i \in 1..(e + 1 - s) : Part(lines, s, e)[i] = lines[s + i - 1]
      <4>1. lines \in Seq(Line) /\ 1 <= s /\ s <= e + 1 /\ e <= Len(lines)
        BY <1>0, <3>1
      <4>2. IsPart(Part(lines, s, e), lines, s, e)
        BY <4>1, PartIsPart
      <4> QED BY <4>2 DEF IsPart
    <3>3. 1 \in 1..(e + 1 - s) /\ s + 1 - 1 = s /\ e + 1 - s = e - p /\ e - p > 0
      BY <1>1, <3>s
    <3>5. u[1] = lines[s]
      BY <3>2, <3>3, <3>4
    <3> QED BY <1>y, <3>2, <3>3, <3>4, <3>5, <3>s
  <2>2. q = Reverse(u)
    BY <1>1, <2>u
  <2>3. Len(q) = e - p /\ q[e - p] = y
    <3>1. Len(q) = Len(u) /\ \A i \in 1..Len(u) : q[i] = u[Len(u) - i + 1]
      BY <2>2, ReverseIs
    <3>2. e - p \in 1..Len(u) /\ Len(u) - (e - p) + 1 = 1
      BY <2>1
    <3> QED BY <2>1, <3>1, <3>2
  <2>4. q # NoLines /\ Last(q) = y
    BY <2>1, <2>3 DEF NoLines, Last
  <2>5. Follows("reverse", y, x)
    <3>1. "reverse" # "forward"
      OBVIOUS
    <3> QED BY <1>4, <3>1, Zenon DEF Follows
  <2>6. Shrunk(q, x) = Append(q, x)
    BY <2>4, <2>5 DEF Shrunk
  <2>7. Reverse(Part(lines, p, e)) = Append(Reverse(Part(lines, p + 1, e)), lines[p])
    <3>1. 1 <= p /\ p <= e /\ e <= Len(lines)
      BY <1>1
    <3> QED BY <1>0, <3>1, PartBack
  <2> QED BY <1>1, <2>6, <2>7
<1>t. PICK t \in Seq(Line) : t = Part(lines, p, e)
  <2>1. Spanned(lines, p, e)
    BY <1>1 DEF Spanned
  <2> QED BY <1>0, <2>1, PartNamed, Zenon
<1>g. PICK g : g = Shrunk(q, x)
  OBVIOUS
<1>10. g = Reverse(t) /\ g \in Seq(Line) /\ Len(g) = (e - p) + 1 /\ Reverse(g) = t
  <2>1. Spanned(lines, p, e)
    BY <1>1 DEF Spanned
  <2>5. IsPart(t, lines, p, e)
    BY <1>0, <1>t, <2>1, PartNamed, Zenon
  <2>2. Len(t) = e + 1 - p
    BY <2>5 DEF IsPart
  <2>3. g = Reverse(t)
    BY <1>9, <1>g, <1>t
  <2>4. Reverse(t) \in Seq(Line) /\ Len(Reverse(t)) = Len(t) /\ Reverse(Reverse(t)) = t
    BY ReverseIs, ReverseTwice
  <2> QED BY <2>2, <2>3, <2>4
<1>i. PICK i \in Nat, j \in Nat, k \in Nat : i = x.index /\ j = y.index /\ k = z.index
  BY <1>3
<1>11. k + p = i + e /\ k + 1 = x.count
  <2>1. k + p + 1 = j + e /\ j = i + 1
    BY <1>1, <1>4, <1>i
  <2>2. k + 1 = x.count
    BY <1>1, <1>4, <1>i DEF Ends
  <2> QED BY <2>1, <2>2
<1>12. g # NoLines /\ (Len(g) = x.count <=> x.index = 0)
  <2>1. Len(g) # 0
    BY <1>1, <1>10
  <2>2. Len(g) = x.count <=> x.index = 0
    <3>1. Len(g) = (e - p) + 1 /\ x.count = k + 1 /\ k + p = i + e
      BY <1>10, <1>11
    <3>2. (e - p) + 1 = k + 1 <=> i = 0
      BY <1>11
    <3> QED BY <3>1, <3>2, <1>i
  <2> QED BY <2>1, <2>2 DEF NoLines
<1>13. Whole(lines) = Append(Whole(Part(lines, 1, r)), Part(lines, a, e)) \o Reverse(c)
  BY <1>8 DEF Holding
<1>14. CASE x.index = 0
  <2>1. a = p
    <3>1. a + z.index = e
      BY <1>z DEF Holding
    <3> QED BY <1>i, <1>11, <1>14, <3>1
  <2>2. Pushed(g, Reverse(g), c, x) = Stream(Behind(lines, r), NoLines, Append(c, t), 0)
    BY <1>6, <1>10, <1>12, <1>14, Zenon DEF Pushed
  <2>3. Settled(lines, r, Append(c, t))
    <3>w. PICK w \in Seq(Batches) : w = Whole(Part(lines, 1, r))
      BY <1>7
    <3>b. PICK v \in Batches : v = t
      BY DEF Batches
    <3>1. Whole(lines) = Append(w, v) \o Reverse(c)
      BY <1>13, <1>t, <2>1, <3>w, <3>b
    <3>2. Append(w, v) \o Reverse(c) = w \o Reverse(Append(c, v))
      BY ReverseMore
    <3> QED BY <3>1, <3>2, <3>w, <3>b DEF Settled
  <2>4. Append(c, t) \in Seq(Batches) /\ NoLines \in Seq(Line)
    BY DEF Batches, NoLines
  <2> QED BY <2>2, <2>3, <2>4, <1>g, Zenon DEF ReadBack
<1>15. CASE x.index # 0
  <2>1. Pushed(g, Reverse(g), c, x) = Stream(Behind(lines, r), g, c, 0)
    BY <1>6, <1>12, <1>15, Zenon DEF Pushed
  <2>2. Within(lines, r, g, e)
    <3>1. lines[r + 1] = x /\ x.index > 0 /\ x.count = z.count /\ r < e
      BY <1>1, <1>3, <1>4, <1>15, SMTT(30)
    <3>2. z.index + r + 1 = x.index + e
      <4>1. k + r + 1 = i + e
        BY <1>11
      <4> QED BY <4>1, <1>i
    <3>3. g = Reverse(Part(lines, r + 1, e))
      BY <1>10, <1>t
    <3>4. lines[e].index + r + 1 = lines[r + 1].index + e /\ lines[r + 1].count = lines[e].count /\ lines[r + 1].index > 0 /\ Ends(lines[e])
      BY <1>1, <1>z, <3>1, <3>2
    <3> QED BY <1>1, <3>1, <3>3, <3>4 DEF Within
  <2>3. Holding(lines, r, c, a, e)
    BY <1>13 DEF Holding
  <2> QED BY <2>1, <2>2, <2>3, <1>10, <1>g DEF ReadBack
<1> QED BY <1>3, <1>14, <1>15

\* One line more is read backwards.
LEMMA LineBack ==
  ASSUME NEW lines, Formed(lines), NEW r \in Nat, NEW p \in Nat, p = r + 1, p <= Len(lines), NEW x, x = lines[p],
         NEW st, ReadBack(lines, p, st)
  PROVE  ReadBack(lines, r, BackStep(st, x))
<1>0. lines \in Seq(Line) /\ p \in 1..Len(lines) /\ x \in Line
  BY DEF Formed
<1>1. PICK q \in Seq(Line), c \in Seq(Batches) :
        /\ st = Stream(Behind(lines, p), q, c, 0)
        /\ \/ q = NoLines /\ Settled(lines, p, c)
           \/ \E a, e \in Nat : Within(lines, p, q, e) /\ Holding(lines, p, c, a, e)
  BY DEF ReadBack
<1>2. Behind(lines, p) = 0 \/ x.seq < Behind(lines, p)
  <2>1. CASE p = Len(lines)
    BY <2>1 DEF Behind
  <2>2. CASE p # Len(lines)
    <3>s. PICK s \in Nat : s = p + 1
      OBVIOUS
    <3>1. s \in 1..Len(lines) /\ s > 1 /\ s - 1 = p
      BY <1>0, <2>2, <3>s
    <3>2. lines[s].seq = lines[s - 1].seq + 1
      BY <3>1 DEF Formed
    <3>3. lines[s].seq = x.seq + 1 /\ x.seq \in Nat
      BY <1>0, <3>1, <3>2, LineIs
    <3>4. Behind(lines, p) = lines[s].seq
      BY <2>2, <3>s DEF Behind
    <3>k. PICK k \in Nat : k = x.seq
      BY <3>3
    <3> QED BY <3>3, <3>4, <3>k
  <2> QED BY <2>1, <2>2
<1>b. PICK b : b = Behind(lines, p)
  OBVIOUS
<1>3. BackStep(Stream(b, q, c, 0), x) = Pushed(Shrunk(q, x), Reverse(Shrunk(q, x)), c, x)
  BY <1>2, <1>b, PushBack
<1>4. BackStep(st, x) = Pushed(Shrunk(q, x), Reverse(Shrunk(q, x)), c, x)
  BY <1>1, <1>3, <1>b, Zenon
<1>5. CASE q = NoLines /\ Settled(lines, p, c)
  <2>1. ReadBack(lines, r, Pushed(Shrunk(NoLines, x), Reverse(Shrunk(NoLines, x)), c, x))
    BY <1>5, LineBackFree
  <2> QED BY <1>4, <1>5, <2>1, Zenon
<1>6. ASSUME NEW a \in Nat, NEW e \in Nat, Within(lines, p, q, e), Holding(lines, p, c, a, e)
      PROVE  ReadBack(lines, r, BackStep(st, x))
  <2>1. ReadBack(lines, r, Pushed(Shrunk(q, x), Reverse(Shrunk(q, x)), c, x))
    BY <1>6, LineBackHeld
  <2> QED BY <1>4, <2>1, Zenon
<1> QED BY <1>1, <1>5, <1>6

\* Backwards a file has the commits it has forwards.
LEMMA FileBack ==
  ASSUME NEW lines, Formed(lines)
  PROVE  CommitsReverse(lines) \in Seq(Batches) /\ Reverse(CommitsReverse(lines)) = Whole(lines)
<1>0. lines \in Seq(Line)
  BY DEF Formed
<1>n. PICK n \in Nat : n = Len(lines)
  BY <1>0
<1>v. PICK v \in Seq(Line) : v = Reverse(lines)
  BY <1>0, ReverseIs
<1>1. Len(v) = n /\ \A i \in 1..n : v[i] = lines[n - i + 1]
  BY <1>0, <1>v, <1>n, ReverseIs
<1>2. Whole(lines) \in Seq(Batches)
  BY FileAhead
<1>N. Reverse(<<>>) = <<>>
  BY DEF Reverse
<1> DEFINE G == {k \in Nat : k <= n => ReadBack(lines, n - k, Back!Fold(NewStream, Part(v, 1, k)))}
<1>3. 0 \in G
  <2>1. Part(v, 1, 0) = <<>>
    BY PartNone
  <2>2. Back!Fold(NewStream, Part(v, 1, 0)) = Stream(0, NoLines, <<>>, 0)
    BY <2>1, Back!FoldNone, NewIs
  <2>3. Behind(lines, n) = 0
    BY <1>n DEF Behind
  <2>4. Part(lines, 1, n) = lines
    BY <1>0, <1>n, PartAll
  <2>5. Settled(lines, n, <<>>)
    <3>w. PICK w \in Seq(Batches) : w = Whole(lines)
      BY <1>2
    <3>1. w \o <<>> = w
      OBVIOUS
    <3> QED BY <1>N, <2>4, <3>1, <3>w DEF Settled
  <2>6. NoLines \in Seq(Line) /\ <<>> \in Seq(Batches)
    BY DEF NoLines
  <2>7. ReadBack(lines, n, Back!Fold(NewStream, Part(v, 1, 0)))
    BY <2>2, <2>3, <2>5, <2>6 DEF ReadBack
  <2>8. n - 0 = n
    OBVIOUS
  <2> QED BY <2>7, <2>8
<1>4. ASSUME NEW k \in Nat, k \in G PROVE k + 1 \in G
  <2> SUFFICES ASSUME k + 1 <= n PROVE ReadBack(lines, n - (k + 1), Back!Fold(NewStream, Part(v, 1, k + 1)))
    OBVIOUS
  <2>r. PICK r \in Nat : r = n - (k + 1)
    OBVIOUS
  <2>p. PICK p \in Nat : p = r + 1
    OBVIOUS
  <2>1. n - k = p /\ p <= Len(lines) /\ n - (k + 1) + 1 = p
    BY <1>n, <2>r, <2>p
  <2>2. ReadBack(lines, p, Back!Fold(NewStream, Part(v, 1, k)))
    BY <1>4, <2>1
  <2>3. v[k + 1] = lines[p] /\ k + 1 <= Len(v)
    <3>1. k + 1 \in 1..n
      OBVIOUS
    <3> QED BY <1>1, <2>1, <3>1
  <2>4. Part(v, 1, k + 1) = Append(Part(v, 1, k), v[k + 1]) /\ v[k + 1] \in Line /\ Part(v, 1, k) \in Seq(Line)
    <3>1. 1 \in Nat /\ 1 <= 1 /\ 1 <= k + 1 /\ Spanned(v, 1, k)
      BY <2>3 DEF Spanned
    <3>2. Part(v, 1, k) \in Seq(Line)
      BY <3>1, PartNamed, Zenon
    <3> QED BY <2>3, <3>1, <3>2, PartMore
  <2>5. Back!Fold(NewStream, Part(v, 1, k + 1)) = BackStep(Back!Fold(NewStream, Part(v, 1, k)), v[k + 1])
    BY <2>4, Back!FoldMore
  <2>s. PICK s : s = Back!Fold(NewStream, Part(v, 1, k))
    OBVIOUS
  <2>x. PICK x : x = lines[p]
    OBVIOUS
  <2>6. ReadBack(lines, p, s)
    BY <2>2, <2>s
  <2>7. ReadBack(lines, r, BackStep(s, x))
    BY <2>1, <2>6, <2>p, <2>x, LineBack
  <2> QED BY <2>3, <2>5, <2>7, <2>r, <2>s, <2>x, Zenon
<1> HIDE DEF G
<1>5. \A k \in Nat : k \in G
  BY <1>3, <1>4, Back!Induct
<1>6. ReadBack(lines, 0, Back!Fold(NewStream, v))
  <2>1. ReadBack(lines, n - n, Back!Fold(NewStream, Part(v, 1, n)))
    BY <1>5 DEF G
  <2>2. Part(v, 1, n) = v /\ n - n = 0
    BY <1>1, PartAll
  <2> QED BY <2>1, <2>2
<1>7. PICK q \in Seq(Line), c \in Seq(Batches) :
        /\ Back!Fold(NewStream, v) = Stream(Behind(lines, 0), q, c, 0)
        /\ \/ q = NoLines /\ Settled(lines, 0, c)
           \/ \E a, e \in Nat : Within(lines, 0, q, e) /\ Holding(lines, 0, c, a, e)
  BY <1>6 DEF ReadBack
<1>8. ASSUME NEW e \in Nat, Within(lines, 0, q, e) PROVE FALSE
  <2>1. 1 \in 1..Len(lines) /\ lines[0 + 1].index > 0 /\ 0 + 1 = 1
    BY <1>8, <1>0 DEF Within
  <2>2. lines[1].index > 0
    BY <2>1
  <2>3. 1 > 1
    BY <2>1, <2>2 DEF Formed
  <2> QED BY <2>3
<1>9. Settled(lines, 0, c)
  BY <1>7, <1>8
<1>10. Whole(lines) = Reverse(c)
  <2>1. Part(lines, 1, 0) = <<>>
    BY <1>0, PartNone
  <2>2. Whole(lines) = <<>> \o Reverse(c)
    BY <1>9, <2>1, WholeNone, Zenon DEF Settled
  <2>d. PICK d \in Seq(Batches) : d = Reverse(c)
    BY ReverseIs
  <2>3. <<>> \o d = d
    OBVIOUS
  <2> QED BY <2>2, <2>3, <2>d
<1>11. CommitsReverse(lines) = c
  <2>1. CommitsReverse(lines) = Back!Fold(NewStream, v).commits
    BY <1>v, BackIs DEF CommitsReverse
  <2> QED BY <1>7, <2>1 DEF Stream
<1> QED BY <1>10, <1>11

\* A stream over one file.
LEMMA OneFile ==
  ASSUME NEW lines, Formed(lines), NEW p \in Nat, NEW c \in Seq(Batches), Before1(p, lines)
  PROVE  FileStep(Stream(p, NoLines, c, 0), lines) = Stream(Reached(lines, p), NoLines, c \o Whole(lines), 0)
<1>1. PushAll("forward", Stream(p, NoLines, c, 0), lines) = Onward(lines, p, c \o Whole(lines))
  BY FileAhead, AheadIs DEF AddsWhole
<1>2. \A a, b, d : [Stream(a, b, d, 0) EXCEPT !.pending = NoLines] = Stream(a, NoLines, d, 0)
  BY DEF Stream
<1> QED BY <1>1, <1>2 DEF FileStep, Onward

LEMMA CommitsOfOne ==
  ASSUME NEW lines, Formed(lines) PROVE CommitsForward(<<lines>>) = Whole(lines)
<1>1. <<lines>> = Append(<<>>, lines) /\ <<>> \in Seq({lines}) /\ lines \in {lines}
  OBVIOUS
<1>2. File!Fold(NewStream, Append(<<>>, lines)) = FileStep(File!Fold(NewStream, <<>>), lines)
  BY <1>1, File!FoldMore
<1>3. File!Fold(NewStream, <<>>) = Stream(0, NoLines, <<>>, 0)
  BY File!FoldNone, NewIs
<1>4. FileStep(Stream(0, NoLines, <<>>, 0), lines) = Stream(Reached(lines, 0), NoLines, <<>> \o Whole(lines), 0)
  <2>1. Before1(0, lines) /\ 0 \in Nat /\ <<>> \in Seq(Batches)
    BY DEF Before1
  <2> QED BY <2>1, OneFile
<1>5. <<>> \o Whole(lines) = Whole(lines)
  BY FileAhead
<1>6. File!Fold(NewStream, <<lines>>) = Stream(Reached(lines, 0), NoLines, Whole(lines), 0)
  BY <1>1, <1>2, <1>3, <1>4, <1>5, Zenon
<1>7. CommitsForward(<<lines>>) = File!Fold(NewStream, <<lines>>).commits
  BY FileIs DEF CommitsForward
<1> QED BY <1>6, <1>7 DEF Stream

\* Both readers agree on a formed file.
LEMMA EndsMeet ==
  ASSUME NEW lines, Formed(lines)
  PROVE  Reverse(CommitsReverse(lines)) = CommitsForward(<<lines>>)
  BY FileBack, CommitsOfOne

\* A segment is named by its first event, and ends before the next begins.
Named(lines, n) == Formed(lines) /\ (lines # <<>> => lines[1].seq = n)
Below(lines, b) == lines # <<>> => Last(lines).seq < b

\* A directory as the writer and the compressor leave it at every moment.
Tidy(P, Q) ==
  /\ P = [n \in DOMAIN P |-> P[n]] /\ DOMAIN P \subseteq 1..MaxSeq /\ DOMAIN Q \subseteq 1..MaxSeq
  /\ \A n \in DOMAIN P : P[n] \in [lines : Seq(Line), torn : BOOLEAN] /\ Named(P[n].lines, n)
  /\ \A n \in DOMAIN Q : Named(Q[n], n)
  /\ \A n \in DOMAIN P, m \in Names(P, Q) : n < m => Below(P[n].lines, m)
  /\ \A n \in DOMAIN Q, m \in Names(P, Q) : n < m => Below(Q[n], m)
  /\ \A n \in DOMAIN Q : \E m \in DOMAIN P : n < m
  /\ \A n \in DOMAIN P \cap DOMAIN Q : Whole(Q[n]) = Whole(P[n].lines)

\* What a batch may be after the commits so far: a snapshot of them, or events of which
\* the very first creates the session.
SoundNext(commits, b) ==
  \/ Len(b) = 1 /\ IsSnapshot(b[1]) /\ b[1].state = Records(commits)
  \/ /\ \A i \in 1..Len(b) : b[i].kind = IF i = 1 /\ Records(commits) = <<>> THEN "created" ELSE "event"
     /\ Len(b) > 0
Sound(commits) == \A i \in 1..Len(commits) : SoundNext(Part(commits, 1, i - 1), commits[i])

\* The lines of one batch, and how far a file has them.
OneBatch(b) ==
  /\ b \in Seq(Line) /\ b # <<>>
  /\ \A i \in 1..Len(b) : /\ b[i].index = i - 1 /\ b[i].count = Len(b) /\ b[i].seq \in 1..MaxSeq
                          /\ i > 1 => b[i].seq = b[i - 1].seq + 1
Grows(lines, b, d, n) ==
  IF d = 0 THEN b[1].seq = IF lines = <<>> THEN n ELSE Last(lines).seq + 1
  ELSE lines # <<>> /\ Last(lines) = b[d] /\ Batched(lines) = Part(b, 1, d)

\* Files one after the other, their event numbers growing.
Chained(F) ==
  /\ F \in Seq(Seq(Line)) /\ \A i \in 1..Len(F) : Formed(F[i])
  /\ \A i, j \in 1..Len(F) : i < j => Below(F[i], IF F[j] = <<>> THEN Last(F[i]).seq + 1 ELSE F[j][1].seq)
ReadTo(F, st) ==
  \E p \in Nat, c \in Seq(Batches) :
    st = Stream(p, NoLines, c, 0) /\ (p = 0 \/ \E i \in 1..Len(F) : F[i] # <<>> /\ p = Last(F[i]).seq)
FileMore(M, F, L) ==
  /\ F \in Seq(Seq(Line)) /\ L \in Seq(Line) /\ M = Append(F, L)
  /\ Len(F) \in Nat /\ Len(M) = Len(F) + 1 /\ M[Len(F) + 1] = L /\ \A i \in 1..Len(F) : M[i] = F[i]

LEMMA FileMoreIs == \A F \in Seq(Seq(Line)), L \in Seq(Line) : FileMore(Append(F, L), F, L)
  BY DEF FileMore

LEMMA ChainedFront ==
  ASSUME NEW M, NEW F, NEW L, FileMore(M, F, L), Chained(M)
  PROVE  Chained(F) /\ Formed(L)
<1>n. PICK n \in Nat : n = Len(F)
  BY DEF FileMore
<1>1. Len(M) = n + 1 /\ M[n + 1] = L /\ (\A i \in 1..n : M[i] = F[i]) /\ F \in Seq(Seq(Line))
  BY <1>n DEF FileMore
<1>2. \A i \in 1..n : Formed(F[i])
  <2> SUFFICES ASSUME NEW i \in 1..n PROVE Formed(F[i])
    OBVIOUS
  <2>1. i \in 1..Len(M) /\ M[i] = F[i]
    BY <1>1
  <2> QED BY <2>1 DEF Chained
<1>3. ASSUME NEW i \in 1..n, NEW j \in 1..n, i < j
      PROVE  Below(F[i], IF F[j] = <<>> THEN Last(F[i]).seq + 1 ELSE F[j][1].seq)
  <2>1. i \in 1..Len(M) /\ j \in 1..Len(M) /\ M[i] = F[i] /\ M[j] = F[j]
    BY <1>1
  <2>2. Below(M[i], IF M[j] = <<>> THEN Last(M[i]).seq + 1 ELSE M[j][1].seq)
    BY <1>3, <2>1 DEF Chained
  <2> QED BY <2>1, <2>2, Zenon
<1>4. Formed(L)
  <2>1. n + 1 \in 1..Len(M)
    BY <1>1
  <2> QED BY <1>1, <2>1 DEF Chained
<1> QED BY <1>1, <1>2, <1>3, <1>4, <1>n DEF Chained

LEMMA ChainStep ==
  ASSUME NEW M, NEW F, NEW L, FileMore(M, F, L), Chained(M), NEW st, ReadTo(F, st)
  PROVE  ReadTo(M, FileStep(st, L)) /\ FileStep(st, L).commits = st.commits \o Whole(L) /\ st.commits \in Seq(Batches)
<1>0. Chained(F) /\ Formed(L) /\ L \in Seq(Line) /\ F \in Seq(Seq(Line))
  BY ChainedFront DEF FileMore
<1>n. PICK n \in Nat : n = Len(F)
  BY <1>0
<1>m. Len(M) = n + 1 /\ M[n + 1] = L /\ (\A i \in 1..n : M[i] = F[i]) /\ n + 1 \in 1..Len(M)
  BY <1>n DEF FileMore
<1>1. PICK p \in Nat, c \in Seq(Batches) :
        st = Stream(p, NoLines, c, 0) /\ (p = 0 \/ \E i \in 1..Len(F) : F[i] # <<>> /\ p = Last(F[i]).seq)
  BY DEF ReadTo
<1>2. Before1(p, L)
  <2> SUFFICES ASSUME p # 0, L # <<>> PROVE p < L[1].seq
    BY DEF Before1
  <2>1. PICK i \in 1..n : F[i] # <<>> /\ p = Last(F[i]).seq
    BY <1>1, <1>n
  <2>2. i \in 1..Len(M) /\ i < n + 1 /\ M[i] = F[i]
    BY <1>m
  <2>3. Below(M[i], L[1].seq)
    <3>1. Below(M[i], IF M[n + 1] = <<>> THEN Last(M[i]).seq + 1 ELSE M[n + 1][1].seq)
      BY <1>m, <2>2 DEF Chained
    <3> QED BY <3>1, <1>m
  <2> QED BY <2>1, <2>2, <2>3 DEF Below
<1>3. Whole(L) \in Seq(Batches) /\ c \o Whole(L) \in Seq(Batches)
  <2>1. Whole(L) \in Seq(Batches)
    BY <1>0, FileAhead
  <2> QED BY <2>1
<1>4. FileStep(Stream(p, NoLines, c, 0), L) = Stream(Reached(L, p), NoLines, c \o Whole(L), 0)
  BY <1>0, <1>2, OneFile
<1>5. Reached(L, p) \in Nat
  <2>1. CASE L = <<>>
    BY <2>1 DEF Reached
  <2>2. CASE L # <<>>
    <3>1. Last(L) \in Line
      BY <1>0, <2>2 DEF Last
    <3> QED BY <2>2, <3>1, LineIs DEF Reached
  <2> QED BY <2>1, <2>2
<1>6. Reached(L, p) = 0 \/ \E i \in 1..Len(M) : M[i] # <<>> /\ Reached(L, p) = Last(M[i]).seq
  <2>1. CASE L = <<>>
    <3>1. Reached(L, p) = p
      BY <2>1 DEF Reached
    <3>2. ASSUME NEW i \in 1..Len(F), F[i] # <<>>, p = Last(F[i]).seq
          PROVE  i \in 1..Len(M) /\ M[i] # <<>> /\ p = Last(M[i]).seq
      <4>1. i \in 1..n /\ i \in 1..Len(M)
        BY <1>m, <1>n
      <4>2. M[i] = F[i]
        BY <1>m, <4>1
      <4> QED BY <3>2, <4>1, <4>2
    <3> QED BY <1>1, <3>1, <3>2
  <2>2. CASE L # <<>>
    <3>1. Reached(L, p) = Last(L).seq
      BY <2>2 DEF Reached
    <3> QED BY <1>m, <2>2, <3>1
  <2> QED BY <2>1, <2>2
<1>7. ReadTo(M, Stream(Reached(L, p), NoLines, c \o Whole(L), 0))
  BY <1>3, <1>5, <1>6 DEF ReadTo
<1>8. Stream(Reached(L, p), NoLines, c \o Whole(L), 0).commits = c \o Whole(L) /\ Stream(p, NoLines, c, 0).commits = c
  BY DEF Stream
<1> QED BY <1>1, <1>4, <1>7, <1>8

LEMMA ChainAhead == \A F : Chained(F) => ReadTo(F, File!Fold(NewStream, F))
<1> DEFINE G == {F \in Seq(Seq(Line)) : Chained(F) => ReadTo(F, File!Fold(NewStream, F))}
<1>1. <<>> \in G
  <2>1. File!Fold(NewStream, <<>>) = Stream(0, NoLines, <<>>, 0)
    BY File!FoldNone, NewIs
  <2>2. 0 \in Nat /\ <<>> \in Seq(Batches)
    OBVIOUS
  <2>3. ReadTo(<<>>, File!Fold(NewStream, <<>>))
    BY <2>1, <2>2 DEF ReadTo
  <2> QED BY <2>3
<1>2. \A F \in Seq(Seq(Line)), L \in Seq(Line) : F \in G => Append(F, L) \in G
  <2> SUFFICES ASSUME NEW F \in Seq(Seq(Line)), NEW L \in Seq(Line), F \in G, Chained(Append(F, L))
               PROVE  ReadTo(Append(F, L), File!Fold(NewStream, Append(F, L)))
    OBVIOUS
  <2>1. FileMore(Append(F, L), F, L)
    BY DEF FileMore
  <2>2. Chained(F)
    BY <2>1, ChainedFront
  <2>3. File!Fold(NewStream, Append(F, L)) = FileStep(File!Fold(NewStream, F), L)
    BY File!FoldMore
  <2>4. ReadTo(F, File!Fold(NewStream, F))
    BY <2>2
  <2> QED BY <2>1, <2>3, <2>4, ChainStep
<1> HIDE DEF G
<1>3. \A F \in Seq(Seq(Line)) : F \in G
  BY <1>1, <1>2, File!SeqInduct
<1> QED BY <1>3 DEF G, Chained

\* The commits of one file more are appended.
LEMMA ChainMore ==
  ASSUME NEW M, NEW F, NEW L, FileMore(M, F, L), Chained(M)
  PROVE  CommitsForward(M) = CommitsForward(F) \o Whole(L) /\ CommitsForward(F) \in Seq(Batches)
<1>1. Chained(F)
  BY ChainedFront
<1>2. ReadTo(F, File!Fold(NewStream, F))
  BY <1>1, ChainAhead
<1>3. File!Fold(NewStream, M) = FileStep(File!Fold(NewStream, F), L)
  BY File!FoldMore DEF FileMore
<1>4. FileStep(File!Fold(NewStream, F), L).commits = File!Fold(NewStream, F).commits \o Whole(L)
      /\ File!Fold(NewStream, F).commits \in Seq(Batches)
  BY <1>2, ChainStep
<1> QED BY <1>3, <1>4, FileIs DEF CommitsForward

LEMMA ChainNone == CommitsForward(<<>>) = <<>>
<1>1. File!Fold(NewStream, <<>>) = NewStream
  BY File!FoldNone
<1> QED BY <1>1, FileIs DEF CommitsForward, NewStream

\* They depend on nothing but each file's commits.
SameWholes(F, H) == Len(F) = Len(H) /\ \A i \in 1..Len(F) : Whole(F[i]) = Whole(H[i])
LEMMA ChainSame == \A F, H : Chained(F) /\ Chained(H) /\ SameWholes(F, H) => CommitsForward(F) = CommitsForward(H)
<1> DEFINE G == {F \in Seq(Seq(Line)) : \A H : Chained(F) /\ Chained(H) /\ SameWholes(F, H) => CommitsForward(F) = CommitsForward(H)}
<1>1. <<>> \in G
  <2> SUFFICES ASSUME NEW H, Chained(H), SameWholes(<<>>, H) PROVE CommitsForward(<<>>) = CommitsForward(H)
    OBVIOUS
  <2>1. H = <<>>
    BY DEF SameWholes, Chained
  <2> QED BY <2>1
<1>2. \A F \in Seq(Seq(Line)), L \in Seq(Line) : F \in G => Append(F, L) \in G
  <2> SUFFICES ASSUME NEW F \in Seq(Seq(Line)), NEW L \in Seq(Line), F \in G, NEW H,
                      Chained(Append(F, L)), Chained(H), SameWholes(Append(F, L), H)
               PROVE  CommitsForward(Append(F, L)) = CommitsForward(H)
    OBVIOUS
  <2>n. PICK n \in Nat : n = Len(F)
    OBVIOUS
  <2>M. PICK M : M = Append(F, L)
    OBVIOUS
  <2>1. FileMore(M, F, L)
    BY <2>M DEF FileMore
  <2>2. Len(M) = n + 1 /\ M[n + 1] = L /\ \A i \in 1..n : M[i] = F[i]
    BY <2>1, <2>n DEF FileMore
  <2>h. H \in Seq(Seq(Line)) /\ Len(H) = n + 1
    BY <2>2, <2>M DEF SameWholes, Chained
  <2>3. PICK E \in Seq(Seq(Line)) : Len(E) = n /\ H = Append(E, H[n + 1]) /\ H[n + 1] \in Seq(Line)
    BY <2>h, File!FrontIs
  <2>y. PICK y : y = H[n + 1]
    OBVIOUS
  <2>4. FileMore(H, E, y)
    <3>1. FileMore(Append(E, y), E, y)
      BY <2>3, <2>y, FileMoreIs
    <3> QED BY <2>3, <2>y, <3>1, Zenon
  <2>5. \A i \in 1..n : H[i] = E[i]
    BY <2>3, <2>4 DEF FileMore
  <2>6. SameWholes(M, H)
    BY <2>M
  <2>7. SameWholes(F, E)
    <3>1. ASSUME NEW i \in 1..n PROVE Whole(F[i]) = Whole(E[i])
      <4>1. i \in 1..Len(M) /\ M[i] = F[i] /\ H[i] = E[i]
        BY <2>2, <2>5
      <4>2. Whole(M[i]) = Whole(H[i])
        BY <2>6, <4>1 DEF SameWholes
      <4> QED BY <4>1, <4>2
    <3> QED BY <2>3, <2>n, <3>1 DEF SameWholes
  <2>8. Whole(L) = Whole(y)
    <3>1. n + 1 \in 1..Len(M)
      BY <2>2
    <3>2. Whole(M[n + 1]) = Whole(H[n + 1])
      BY <2>6, <3>1 DEF SameWholes
    <3> QED BY <2>2, <2>y, <3>2
  <2>9. Chained(M)
    BY <2>M
  <2>10. Chained(F) /\ Chained(E)
    BY <2>1, <2>4, <2>9, ChainedFront
  <2>11. CommitsForward(F) = CommitsForward(E)
    BY <2>7, <2>10
  <2>12. CommitsForward(M) = CommitsForward(F) \o Whole(L)
    BY <2>1, <2>9, ChainMore
  <2>13. CommitsForward(H) = CommitsForward(E) \o Whole(y)
    BY <2>4, ChainMore
  <2> QED BY <2>8, <2>11, <2>12, <2>13, <2>M, Zenon
<1> HIDE DEF G
<1>3. \A F \in Seq(Seq(Line)) : F \in G
  BY <1>1, <1>2, File!SeqInduct
<1> QED BY <1>3 DEF G, Chained

\* The numbers of a finite set in ascending order.
Lower(S, n) == {m \in S : m < n}
Ranked(S) == \A i \in 1..Cardinality(S) : \E n \in S : Cardinality(Lower(S, n)) = i - 1

LEMMA LowerIs ==
  ASSUME NEW S, IsFiniteSet(S), S \subseteq Nat, NEW n \in S
  PROVE  IsFiniteSet(Lower(S, n)) /\ Cardinality(Lower(S, n)) \in Nat /\ Cardinality(Lower(S, n)) < Cardinality(S)
         /\ Cardinality(S) \in Nat
<1>1. Lower(S, n) \in SUBSET S /\ n \notin Lower(S, n)
  BY DEF Lower
<1>2. IsFiniteSet(Lower(S, n)) /\ Cardinality(Lower(S, n)) <= Cardinality(S)
      /\ (Cardinality(S) = Cardinality(Lower(S, n)) => S = Lower(S, n))
  BY <1>1, FS_Subset
<1>3. Cardinality(Lower(S, n)) \in Nat /\ Cardinality(S) \in Nat
  BY <1>2, FS_CardinalityType
<1>4. Cardinality(Lower(S, n)) # Cardinality(S)
  BY <1>1, <1>2
<1> QED BY <1>2, <1>3, <1>4

LEMMA RankGrows ==
  ASSUME NEW S, IsFiniteSet(S), S \subseteq Nat, NEW n \in S, NEW m \in S, n < m
  PROVE  Cardinality(Lower(S, n)) < Cardinality(Lower(S, m))
<1>0. n \in Nat /\ m \in Nat /\ \A x \in S : x \in Nat
  OBVIOUS
<1>1. Lower(S, n) \in SUBSET Lower(S, m) /\ n \in Lower(S, m) /\ n \notin Lower(S, n)
  <2>1. ASSUME NEW x \in S, x < n PROVE x < m
    <3>1. x \in Nat
      OBVIOUS
    <3> QED BY <1>0, <2>1, <3>1
  <2>2. n \in Lower(S, m) /\ n \notin Lower(S, n)
    BY <1>0 DEF Lower
  <2> QED BY <2>1, <2>2 DEF Lower
<1>2. IsFiniteSet(Lower(S, m)) /\ Cardinality(Lower(S, m)) \in Nat /\ Cardinality(Lower(S, n)) \in Nat
  BY LowerIs
<1>3. Cardinality(Lower(S, n)) <= Cardinality(Lower(S, m))
      /\ (Cardinality(Lower(S, m)) = Cardinality(Lower(S, n)) => Lower(S, m) = Lower(S, n))
  BY <1>1, <1>2, FS_Subset
<1>4. Cardinality(Lower(S, m)) # Cardinality(Lower(S, n))
  BY <1>1, <1>3
<1> QED BY <1>2, <1>3, <1>4

LEMMA TopIs ==
  ASSUME NEW S, IsFiniteSet(S), S \subseteq Nat, NEW k \in Nat, \A n \in S : n < k
  PROVE  /\ IsFiniteSet(S \cup {k}) /\ Cardinality(S \cup {k}) = Cardinality(S) + 1 /\ Cardinality(S) \in Nat
         /\ Lower(S \cup {k}, k) = S /\ \A n \in S : Lower(S \cup {k}, n) = Lower(S, n)
<1>1. k \notin S
  OBVIOUS
<1>2. IsFiniteSet(S \cup {k}) /\ Cardinality(S \cup {k}) = Cardinality(S) + 1
  BY <1>1, FS_AddElement
<1>3. Cardinality(S) \in Nat
  BY FS_CardinalityType
<1>4. Lower(S \cup {k}, k) = S
  <2>1. ~(k < k)
    OBVIOUS
  <2>2. {m \in S \cup {k} : m < k} = S
    BY <2>1, Zenon
  <2> QED BY <2>2 DEF Lower
<1>5. \A n \in S : Lower(S \cup {k}, n) = Lower(S, n)
  BY DEF Lower
<1> QED BY <1>2, <1>3, <1>4, <1>5

LEMMA AllRanked ==
  ASSUME NEW S, NEW N \in Nat, S \subseteq 1..N
  PROVE  IsFiniteSet(S) /\ Ranked(S)
<1> DEFINE U(k) == {n \in S : n <= k}
           G == {k \in Nat : IsFiniteSet(U(k)) /\ Ranked(U(k))}
<1>1. 0 \in G
  <2>1. U(0) = {}
    <3>1. \A n \in S : ~(n <= 0)
      OBVIOUS
    <3> QED BY <3>1, Zenon
  <2>2. IsFiniteSet({}) /\ Cardinality({}) = 0
    BY FS_EmptySet
  <2>3. Ranked({})
    BY <2>2 DEF Ranked
  <2> QED BY <2>1, <2>2, <2>3, Zenon
<1>2. ASSUME NEW k \in Nat, k \in G PROVE k + 1 \in G
  <2>1. CASE k + 1 \notin S
    <3>1. U(k + 1) = U(k)
      <4>1. ASSUME NEW n \in S PROVE n <= k + 1 <=> n <= k
        <5>1. n \in Nat /\ n # k + 1
          BY <2>1
        <5> QED BY <5>1
      <4> QED BY <4>1
    <3> HIDE DEF U
    <3> QED BY <1>2, <3>1
  <2>2. CASE k + 1 \in S
    <3>t. PICK t \in Nat : t = k + 1
      OBVIOUS
    <3>V. PICK V : V = U(k)
      OBVIOUS
    <3>0. V \subseteq Nat /\ (\A n \in V : n < t) /\ IsFiniteSet(V) /\ Ranked(V)
      <4>1. ASSUME NEW n \in S, n <= k PROVE n \in Nat /\ n < t
        <5>1. n \in Nat
          OBVIOUS
        <5> QED BY <3>t, <4>1, <5>1
      <4>2. V = {n \in S : n <= k}
        BY <3>V
      <4>3. V \subseteq Nat /\ \A n \in V : n < t
        BY <4>1, <4>2
      <4>4. IsFiniteSet(V) /\ Ranked(V)
        BY <1>2, <3>V, Zenon
      <4> QED BY <4>3, <4>4
    <3>1. U(k + 1) = V \cup {t}
      <4>1. ASSUME NEW n \in S PROVE n <= t <=> (n <= k \/ n = t)
        <5>1. n \in Nat
          OBVIOUS
        <5> QED BY <3>t, <5>1
      <4>2. t \in S
        BY <2>2, <3>t
      <4>3. {n \in S : n <= t} = {n \in S : n <= k} \cup {t}
        BY <4>1, <4>2, Zenon
      <4> QED BY <3>t, <3>V, <4>3
    <3>2. /\ IsFiniteSet(V \cup {t}) /\ Cardinality(V \cup {t}) = Cardinality(V) + 1 /\ Cardinality(V) \in Nat
          /\ Lower(V \cup {t}, t) = V /\ \A n \in V : Lower(V \cup {t}, n) = Lower(V, n)
      BY <3>0, TopIs
    <3>c. PICK c \in Nat : c = Cardinality(V)
      BY <3>2
    <3>3. ASSUME NEW i \in 1..Cardinality(V \cup {t}) PROVE \E n \in V \cup {t} : Cardinality(Lower(V \cup {t}, n)) = i - 1
      <4>1. i \in 1..(c + 1)
        BY <3>2, <3>c
      <4>2. CASE i = c + 1
        <5>1. Cardinality(Lower(V \cup {t}, t)) = i - 1
          BY <3>2, <3>c, <4>2
        <5> QED BY <5>1
      <4>3. CASE i # c + 1
        <5>1. i \in 1..Cardinality(V)
          BY <3>c, <4>1, <4>3
        <5>2. PICK n \in V : Cardinality(Lower(V, n)) = i - 1
          BY <3>0, <5>1 DEF Ranked
        <5> QED BY <3>2, <5>2
      <4> QED BY <4>2, <4>3
    <3>4. Ranked(V \cup {t})
      BY <3>3 DEF Ranked
    <3> HIDE DEF U
    <3> QED BY <3>1, <3>2, <3>4
  <2> QED BY <2>1, <2>2
<1>u. U(N) = S
  <2>1. \A n \in S : n <= N
    OBVIOUS
  <2> QED BY <2>1, Zenon
<1> HIDE DEF G
<1>3. \A k \in Nat : k \in G
  BY <1>1, <1>2, File!Induct
<1>4. N \in G
  BY <1>3
<1> HIDE DEF U
<1> QED BY <1>4, <1>u DEF G

\* It has every number at its rank, the smaller before the larger.
Ascends(S, A) ==
  /\ A \in Seq(S) /\ Len(A) = Cardinality(S) /\ Cardinality(S) \in Nat
  /\ \A i \in 1..Cardinality(S) : A[i] \in S /\ Cardinality(Lower(S, A[i])) = i - 1
LEMMA AscendingIs ==
  ASSUME NEW S, NEW N \in Nat, S \subseteq 1..N
  PROVE  Ascends(S, Ascending(S))
<1>1. IsFiniteSet(S) /\ Ranked(S)
  BY AllRanked
<1>2. Cardinality(S) \in Nat
  BY <1>1, FS_CardinalityType
<1>c. PICK c \in Nat : c = Cardinality(S)
  BY <1>2
<1>A. PICK A : A = [i \in 1..c |-> CHOOSE n \in S : Cardinality({m \in S : m < n}) = i - 1]
  OBVIOUS
<1>3. ASSUME NEW i \in 1..c PROVE A[i] \in S /\ Cardinality(Lower(S, A[i])) = i - 1
  <2>1. \E n \in S : Cardinality({m \in S : m < n}) = i - 1
    BY <1>1, <1>c DEF Ranked, Lower
  <2>2. A[i] = CHOOSE n \in S : Cardinality({m \in S : m < n}) = i - 1
    BY <1>A
  <2>3. A[i] \in S /\ Cardinality({m \in S : m < A[i]}) = i - 1
    BY <2>1, <2>2, Zenon
  <2> QED BY <2>3 DEF Lower
<1>4. A \in Seq(S) /\ Len(A) = c
  <2>1. A \in [1..c -> S]
    <3> DEFINE pick(i) == CHOOSE n \in S : Cardinality({m \in S : m < n}) = i - 1
    <3>1. A = [i \in 1..c |-> pick(i)]
      BY <1>A, Zenon
    <3> HIDE DEF pick
    <3>2. \A i \in 1..c : pick(i) \in S
      BY <1>3, <3>1
    <3> QED BY <3>1, <3>2
  <2> QED BY <2>1
<1>5. Ascending(S) = A
  BY <1>A, <1>c DEF Ascending
<1> QED BY <1>3, <1>4, <1>5, <1>c DEF Ascends

LEMMA AscendsUp ==
  ASSUME NEW S, NEW N \in Nat, S \subseteq 1..N, NEW A, Ascends(S, A), NEW i \in 1..Len(A), NEW j \in 1..Len(A), i < j
  PROVE  A[i] < A[j]
<1>0. IsFiniteSet(S) /\ S \subseteq Nat
  <2>1. S \subseteq Nat
    <3>1. 1..N \subseteq Nat
      OBVIOUS
    <3> QED BY <3>1, Zenon
  <2> QED BY <2>1, AllRanked
<1>1. A[i] \in S /\ A[j] \in S /\ Cardinality(Lower(S, A[i])) = i - 1 /\ Cardinality(Lower(S, A[j])) = j - 1
  BY DEF Ascends
<1>x. PICK x \in S, y \in S : x = A[i] /\ y = A[j]
  BY <1>1
<1>2. ~(y < x)
  <2> SUFFICES ASSUME y < x PROVE FALSE
    OBVIOUS
  <2>1. Cardinality(Lower(S, y)) < Cardinality(Lower(S, x))
    BY <1>0, RankGrows
  <2> QED BY <1>1, <1>x, <2>1
<1>3. x # y
  BY <1>1, <1>x
<1>4. x \in Nat /\ y \in Nat
  BY <1>0
<1> QED BY <1>2, <1>3, <1>4, <1>x

\* The order is the only one.
LEMMA AscendsOnce ==
  ASSUME NEW S, NEW N \in Nat, S \subseteq 1..N, NEW A, Ascends(S, A), NEW B, Ascends(S, B)
  PROVE  A = B
<1>0. IsFiniteSet(S) /\ S \subseteq Nat
  <2>1. S \subseteq Nat
    <3>1. 1..N \subseteq Nat
      OBVIOUS
    <3> QED BY <3>1, Zenon
  <2> QED BY <2>1, AllRanked
<1>1. A \in Seq(S) /\ B \in Seq(S) /\ Len(A) = Len(B)
  BY DEF Ascends
<1>2. ASSUME NEW i \in 1..Len(A) PROVE A[i] = B[i]
  <2>1. A[i] \in S /\ B[i] \in S /\ Cardinality(Lower(S, A[i])) = i - 1 /\ Cardinality(Lower(S, B[i])) = i - 1
    BY DEF Ascends
  <2>x. PICK x \in S, y \in S : x = A[i] /\ y = B[i]
    BY <2>1
  <2>2. Cardinality(Lower(S, x)) = Cardinality(Lower(S, y)) /\ Cardinality(Lower(S, x)) \in Nat
    <3>1. Cardinality(Lower(S, x)) \in Nat
      BY <1>0, LowerIs
    <3> QED BY <2>1, <2>x, <3>1
  <2>3. ~(x < y)
    <3> SUFFICES ASSUME x < y PROVE FALSE
      OBVIOUS
    <3>1. Cardinality(Lower(S, x)) < Cardinality(Lower(S, y))
      BY <1>0, RankGrows
    <3> QED BY <2>2, <3>1
  <2>4. ~(y < x)
    <3> SUFFICES ASSUME y < x PROVE FALSE
      OBVIOUS
    <3>1. Cardinality(Lower(S, y)) < Cardinality(Lower(S, x))
      BY <1>0, RankGrows
    <3> QED BY <2>2, <3>1
  <2> QED BY <1>0, <2>3, <2>4, <2>x
<1> QED BY <1>1, <1>2

\* A number above all others comes last.
LEMMA AscendingMore ==
  ASSUME NEW S, NEW N \in Nat, NEW k \in 1..N, S \subseteq 1..N, \A n \in S : n < k
  PROVE  Ascending(S \cup {k}) = Append(Ascending(S), k) /\ Ascending(S) \in Seq(1..N)
<1>0. IsFiniteSet(S) /\ S \subseteq Nat /\ S \cup {k} \subseteq 1..N /\ k \in Nat
  <2>1. S \subseteq Nat /\ k \in Nat
    <3>1. 1..N \subseteq Nat
      OBVIOUS
    <3> QED BY <3>1, Zenon
  <2>2. S \cup {k} \subseteq 1..N
    BY Zenon
  <2> QED BY <2>1, <2>2, AllRanked
<1>A. PICK A : A = Ascending(S)
  OBVIOUS
<1>1. Ascends(S, A)
  BY <1>A, AscendingIs
<1>2. /\ Cardinality(S \cup {k}) = Cardinality(S) + 1 /\ Cardinality(S) \in Nat
      /\ Lower(S \cup {k}, k) = S /\ \A n \in S : Lower(S \cup {k}, n) = Lower(S, n)
  BY <1>0, TopIs
<1>c. PICK c \in Nat : c = Cardinality(S)
  BY <1>2
<1>3. A \in Seq(S) /\ Len(A) = c
  BY <1>1, <1>c DEF Ascends
<1>B. PICK B \in Seq(S \cup {k}) : B = Append(A, k)
  <2>1. Append(A, k) \in Seq(S \cup {k})
    BY <1>3
  <2> QED BY <2>1
<1>4. Len(B) = c + 1 /\ B[c + 1] = k /\ \A i \in 1..c : B[i] = A[i]
  BY <1>3, <1>B
<1>5. ASSUME NEW i \in 1..(c + 1) PROVE B[i] \in S \cup {k} /\ Cardinality(Lower(S \cup {k}, B[i])) = i - 1
  <2>1. CASE i = c + 1
    BY <1>2, <1>4, <1>c, <2>1
  <2>2. CASE i # c + 1
    <3>1. i \in 1..c /\ i \in 1..Cardinality(S)
      BY <2>2, <1>c
    <3>2. A[i] \in S /\ Cardinality(Lower(S, A[i])) = i - 1
      BY <1>1, <3>1 DEF Ascends
    <3> QED BY <1>2, <1>4, <3>1, <3>2
  <2> QED BY <2>1, <2>2
<1>6. Ascends(S \cup {k}, B)
  <2>V. PICK V : V = S \cup {k}
    OBVIOUS
  <2>1. Cardinality(V) = c + 1 /\ B \in Seq(V)
    BY <1>2, <1>c, <2>V, Zenon
  <2>2. \A i \in 1..(c + 1) : B[i] \in V /\ Cardinality(Lower(V, B[i])) = i - 1
    BY <1>5, <2>V, Zenon
  <2>3. Ascends(V, B)
    BY <1>4, <2>1, <2>2 DEF Ascends
  <2> QED BY <2>3, <2>V
<1>7. Ascends(S \cup {k}, Ascending(S \cup {k}))
  BY <1>0, AscendingIs
<1>8. Ascending(S \cup {k}) = B
  BY <1>0, <1>6, <1>7, AscendsOnce
<1>9. A \in Seq(1..N)
  <2>1. \A i \in 1..c : A[i] \in 1..N
    <3>1. \A i \in 1..c : A[i] \in S
      BY <1>3
    <3> QED BY <3>1, Zenon
  <2>2. A = [i \in 1..c |-> A[i]]
    BY <1>3
  <2>3. A \in [1..c -> 1..N]
    BY <2>1, <2>2, Zenon
  <2> QED BY <2>3
<1> QED BY <1>8, <1>9, <1>A, <1>B

\* The greatest number.
LEMMA MaxIs ==
  ASSUME NEW S, NEW N \in Nat, S \subseteq 1..N
  PROVE  /\ Greatest(S) \in S \cup {0} /\ \A n \in S : n <= Greatest(S)
         /\ Greatest(S) \in Nat
<1> DEFINE T == {n \in Nat : N - n \in S \cup {0} /\ n <= N}
<1>1. T \subseteq Nat /\ N \in T
  OBVIOUS
<1>2. PICK m \in T : \A n \in T : ~(n < m)
  <2> HIDE DEF T
  <2>1. T # {}
    BY <1>1
  <2> QED BY <1>1, <2>1, File!Least
<1>x. PICK x : x = N - m
  OBVIOUS
<1>3. x \in S \cup {0} /\ \A y \in S \cup {0} : x >= y
  <2>1. x \in S \cup {0}
    BY <1>x
  <2>2. ASSUME NEW y \in S \cup {0} PROVE x >= y
    <3>1. N - y \in Nat /\ N - (N - y) = y /\ N - y <= N
      OBVIOUS
    <3>2. N - y \in T
      BY <3>1
    <3>3. ~(N - y < m)
      BY <1>2, <3>2
    <3> QED BY <1>x, <3>3
  <2> QED BY <2>1, <2>2
<1>4. Greatest(S) \in S \cup {0} /\ \A y \in S \cup {0} : Greatest(S) >= y
  <2>g. PICK g : g = CHOOSE z \in S \cup {0} : \A y \in S \cup {0} : z >= y
    OBVIOUS
  <2>1. g \in S \cup {0} /\ \A y \in S \cup {0} : g >= y
    BY <1>3, <2>g
  <2>2. Greatest(S) = g
    BY <2>g, Zenon DEF Greatest, Max
  <2> QED BY <2>1, <2>2
<1>5. Greatest(S) \in Nat
  <2>1. S \cup {0} \subseteq Nat
    OBVIOUS
  <2> QED BY <1>4, <2>1, Zenon
<1> QED BY <1>4, <1>5

LEMMA MinIs == ASSUME NEW S, S \subseteq Nat, S # {} PROVE Min(S) \in S
<1>1. PICK m \in S : \A n \in S : ~(n < m)
  BY File!Least
<1>2. \A n \in S : m =< n
  BY <1>1
<1> QED BY <1>2, Zenon DEF Min

\* The files of some of a directory's segments, in the order of their names.
FilesOf(P, Q, S) == [i \in DOMAIN Ascending(S) |-> LinesOf(P, Q, Ascending(S)[i])]

LEMMA AllFilesIs == \A P, Q : AllFiles(P, Q) = FilesOf(P, Q, Names(P, Q))
  BY Zenon DEF AllFiles, FilesOf, SegmentPaths

LEMMA MaxSeqIs == MaxSeq \in Nat
  BY SegmentStoreAssumption

LEMMA LinesAre ==
  ASSUME NEW P, NEW Q, Tidy(P, Q)
  PROVE  /\ Names(P, Q) \subseteq 1..MaxSeq
         /\ \A n \in Names(P, Q) : Named(LinesOf(P, Q, n), n) /\ Formed(LinesOf(P, Q, n)) /\ LinesOf(P, Q, n) \in Seq(Line)
         /\ \A n, m \in Names(P, Q) : n < m => Below(LinesOf(P, Q, n), m)
<1>1. Names(P, Q) \subseteq 1..MaxSeq
  BY Zenon DEF Tidy, Names
<1>2. \A n \in Names(P, Q) : Named(LinesOf(P, Q, n), n)
  BY Zenon DEF Tidy, Names, LinesOf
<1>3. \A n \in Names(P, Q) : Formed(LinesOf(P, Q, n)) /\ LinesOf(P, Q, n) \in Seq(Line)
  BY <1>2, Zenon DEF Named, Formed
<1>4. ASSUME NEW n \in Names(P, Q), NEW m \in Names(P, Q), n < m PROVE Below(LinesOf(P, Q, n), m)
  <2>1. CASE n \in DOMAIN P
    BY <1>4, <2>1, Zenon DEF Tidy, LinesOf
  <2>2. CASE n \notin DOMAIN P
    <3>1. n \in DOMAIN Q
      BY <2>2 DEF Names
    <3> QED BY <1>4, <2>2, <3>1, Zenon DEF Tidy, LinesOf
  <2> QED BY <2>1, <2>2
<1> QED BY <1>1, <1>2, <1>3, <1>4, Zenon

LEMMA FilesAre ==
  ASSUME NEW P, NEW Q, NEW S, S \subseteq 1..MaxSeq, \A n \in S : LinesOf(P, Q, n) \in Seq(Line)
  PROVE  /\ FilesOf(P, Q, S) \in Seq(Seq(Line)) /\ Len(FilesOf(P, Q, S)) = Len(Ascending(S))
         /\ \A i \in 1..Len(Ascending(S)) : FilesOf(P, Q, S)[i] = LinesOf(P, Q, Ascending(S)[i]) /\ Ascending(S)[i] \in S
<1>A. PICK A : A = Ascending(S)
  OBVIOUS
<1>1. A \in Seq(S)
  BY MaxSeqIs, AscendingIs, <1>A DEF Ascends
<1>n. PICK n \in Nat : n = Len(A)
  BY <1>1
<1>2. DOMAIN A = 1..n /\ \A i \in 1..n : A[i] \in S
  BY <1>1, <1>n
<1> DEFINE file(i) == LinesOf(P, Q, A[i])
<1>3. \A i \in 1..n : file(i) \in Seq(Line)
  BY <1>2, Zenon
<1>F. PICK F : F = [i \in 1..n |-> file(i)]
  OBVIOUS
<1>4. FilesOf(P, Q, S) = F
  BY <1>2, <1>A, <1>F, Zenon DEF FilesOf
<1>5. \A i \in 1..n : F[i] = LinesOf(P, Q, A[i])
  BY <1>F, Zenon
<1> HIDE DEF file
<1>6. F \in Seq(Seq(Line)) /\ Len(F) = n
  BY <1>3, <1>F
<1> QED BY <1>2, <1>4, <1>5, <1>6, <1>A, <1>n, Zenon

SameFiles(P, Q, P2, Q2, S) == S \subseteq 1..MaxSeq /\ \A n \in S : LinesOf(P, Q, n) = LinesOf(P2, Q2, n)
LEMMA FilesAgree ==
  ASSUME NEW P, NEW Q, NEW P2, NEW Q2, NEW S, SameFiles(P, Q, P2, Q2, S)
  PROVE  FilesOf(P, Q, S) = FilesOf(P2, Q2, S)
<1>0. S \subseteq 1..MaxSeq
  BY DEF SameFiles
<1>A. PICK A : A = Ascending(S)
  OBVIOUS
<1>1. A \in Seq(S)
  BY <1>0, MaxSeqIs, AscendingIs, <1>A DEF Ascends
<1>2. \A i \in DOMAIN A : A[i] \in S
  BY <1>1
<1>3. \A i \in DOMAIN A : LinesOf(P, Q, A[i]) = LinesOf(P2, Q2, A[i])
  BY <1>2, Zenon DEF SameFiles
<1>4. [i \in DOMAIN A |-> LinesOf(P, Q, A[i])] = [i \in DOMAIN A |-> LinesOf(P2, Q2, A[i])]
  BY <1>3, Zenon
<1> QED BY <1>4, <1>A DEF FilesOf

\* The last file.
LEMMA FilesLast ==
  ASSUME NEW P, NEW Q, NEW S, S \subseteq 1..MaxSeq, NEW k \in 1..MaxSeq, \A n \in S : n < k,
         \A n \in S \cup {k} : LinesOf(P, Q, n) \in Seq(Line)
  PROVE  FileMore(FilesOf(P, Q, S \cup {k}), FilesOf(P, Q, S), LinesOf(P, Q, k))
<1>T. PICK T : T = S \cup {k}
  OBVIOUS
<1>A. PICK A \in Seq(1..MaxSeq) : A = Ascending(S)
  BY MaxSeqIs, AscendingMore
<1>B. PICK B : B = Ascending(T)
  OBVIOUS
<1>0. B = Append(A, k)
  BY MaxSeqIs, AscendingMore, <1>A, <1>B, <1>T
<1>n. PICK n \in Nat : n = Len(A)
  OBVIOUS
<1>1. Len(B) = n + 1 /\ B[n + 1] = k /\ \A i \in 1..n : B[i] = A[i]
  BY <1>0, <1>n
<1>2. T \subseteq 1..MaxSeq /\ \A m \in T : LinesOf(P, Q, m) \in Seq(Line)
  BY <1>T, Zenon
<1>F. PICK F : F = FilesOf(P, Q, S)
  OBVIOUS
<1>M. PICK M : M = FilesOf(P, Q, T)
  OBVIOUS
<1>L. PICK L : L = LinesOf(P, Q, k)
  OBVIOUS
<1>3. F \in Seq(Seq(Line)) /\ Len(F) = n /\ \A i \in 1..n : F[i] = LinesOf(P, Q, A[i])
  BY FilesAre, <1>A, <1>F, <1>n, Zenon
<1>4. M \in Seq(Seq(Line)) /\ Len(M) = n + 1 /\ \A i \in 1..(n + 1) : M[i] = LinesOf(P, Q, B[i])
  BY FilesAre, <1>1, <1>2, <1>B, <1>M, Zenon
<1>5. L \in Seq(Line)
  BY <1>L, Zenon
<1>6. M[n + 1] = L /\ \A i \in 1..n : M[i] = F[i]
  <2>1. n + 1 \in 1..(n + 1) /\ \A i \in 1..n : i \in 1..(n + 1)
    OBVIOUS
  <2>2. M[n + 1] = L
    BY <1>1, <1>4, <1>L, <2>1, Zenon
  <2>3. ASSUME NEW i \in 1..n PROVE M[i] = F[i]
    <3>1. i \in 1..(n + 1)
      BY <2>1
    <3>2. M[i] = LinesOf(P, Q, B[i])
      BY <1>4, <3>1
    <3>3. F[i] = LinesOf(P, Q, A[i])
      BY <1>3
    <3>4. B[i] = A[i]
      BY <1>1
    <3> QED BY <3>2, <3>3, <3>4, Zenon
  <2> QED BY <2>2, <2>3
<1>7. M = Append(F, L)
  <2>W. PICK W \in Seq(Seq(Line)) : W = Append(F, L)
    <3>1. Append(F, L) \in Seq(Seq(Line))
      BY <1>3, <1>5
    <3> QED BY <3>1
  <2>1. Len(W) = n + 1 /\ W[n + 1] = L /\ \A i \in 1..n : W[i] = F[i]
    BY <1>3, <1>5, <2>W, SMTT(30)
  <2>2. \A i \in 1..(n + 1) : M[i] = W[i]
    BY <1>6, <2>1
  <2>3. M = W
    BY <1>4, <2>1, <2>2
  <2> QED BY <2>3, <2>W
<1>8. FileMore(M, F, L)
  <2>1. FileMore(Append(F, L), F, L)
    BY <1>3, <1>5, FileMoreIs
  <2> QED BY <1>7, <2>1, Zenon
<1> QED BY <1>8, <1>F, <1>L, <1>M, <1>T, Zenon

LEMMA TidyChained ==
  ASSUME NEW P, NEW Q, Tidy(P, Q)
  PROVE  Chained(AllFiles(P, Q))
<1>S. PICK S : S = Names(P, Q)
  OBVIOUS
<1>0. /\ S \subseteq 1..MaxSeq
      /\ \A n \in S : Named(LinesOf(P, Q, n), n) /\ Formed(LinesOf(P, Q, n)) /\ LinesOf(P, Q, n) \in Seq(Line)
      /\ \A n, m \in S : n < m => Below(LinesOf(P, Q, n), m)
  BY LinesAre, <1>S
<1>A. PICK A : A = Ascending(S)
  OBVIOUS
<1>F. PICK F : F = FilesOf(P, Q, S)
  OBVIOUS
<1>1. F \in Seq(Seq(Line)) /\ Len(F) = Len(A) /\ \A i \in 1..Len(A) : F[i] = LinesOf(P, Q, A[i]) /\ A[i] \in S
  BY <1>0, <1>A, <1>F, FilesAre, Zenon
<1>2. Ascends(S, A)
  BY <1>0, <1>A, MaxSeqIs, AscendingIs
<1>3. \A i \in 1..Len(F) : Formed(F[i])
  BY <1>0, <1>1, Zenon
<1>4. ASSUME NEW i \in 1..Len(F), NEW j \in 1..Len(F), i < j
      PROVE  Below(F[i], IF F[j] = <<>> THEN Last(F[i]).seq + 1 ELSE F[j][1].seq)
  <2>x. PICK x \in Seq(Line), y \in Seq(Line) : x = F[i] /\ y = F[j]
    BY <1>1
  <2>1. A[i] \in S /\ A[j] \in S /\ A[i] < A[j] /\ x = LinesOf(P, Q, A[i]) /\ y = LinesOf(P, Q, A[j])
    <3>1. i \in 1..Len(A) /\ j \in 1..Len(A)
      BY <1>1
    <3>2. A[i] < A[j]
      BY <1>0, <1>2, <1>4, <3>1, MaxSeqIs, AscendsUp
    <3> QED BY <1>1, <2>x, <3>1, <3>2, Zenon
  <2>2. Below(x, A[j]) /\ Named(y, A[j])
    BY <1>0, <2>1, Zenon
  <2>3. CASE y = <<>>
    <3>1. x # <<>> => Last(x).seq \in Nat
      <4>1. x # <<>> => Last(x) \in Line
        BY DEF Last
      <4> QED BY <4>1, LineIs
    <3>2. x # <<>> => Last(x).seq < Last(x).seq + 1
      <4>k. ASSUME NEW k \in Nat PROVE k < k + 1
        OBVIOUS
      <4> QED BY <3>1, <4>k
    <3>3. Below(x, Last(x).seq + 1)
      BY <3>2 DEF Below
    <3> QED BY <2>3, <2>x, <3>3, Zenon
  <2>4. CASE y # <<>>
    <3>1. y[1].seq = A[j]
      BY <2>2, <2>4 DEF Named
    <3> QED BY <2>2, <2>4, <2>x, <3>1, Zenon
  <2> QED BY <2>3, <2>4
<1>5. Chained(F)
  BY <1>1, <1>3, <1>4 DEF Chained
<1> QED BY <1>5, <1>F, <1>S, AllFilesIs

LogOf(P, Q) == CommitsForward(AllFiles(P, Q))

\* The log depends on nothing but the commits in each segment.
LEMMA LogSame ==
  ASSUME NEW P, NEW Q, NEW P2, NEW Q2, Tidy(P, Q), Tidy(P2, Q2), Names(P, Q) = Names(P2, Q2),
         \A n \in Names(P, Q) : Whole(LinesOf(P, Q, n)) = Whole(LinesOf(P2, Q2, n))
  PROVE  LogOf(P, Q) = LogOf(P2, Q2)
<1>S. PICK S : S = Names(P, Q)
  OBVIOUS
<1>0. S \subseteq 1..MaxSeq /\ \A n \in S : LinesOf(P, Q, n) \in Seq(Line) /\ LinesOf(P2, Q2, n) \in Seq(Line)
  BY LinesAre, <1>S
<1>A. PICK A : A = Ascending(S)
  OBVIOUS
<1>F. PICK F, H : F = FilesOf(P, Q, S) /\ H = FilesOf(P2, Q2, S)
  OBVIOUS
<1>1. Len(F) = Len(A) /\ \A i \in 1..Len(A) : F[i] = LinesOf(P, Q, A[i]) /\ A[i] \in S
  BY <1>0, <1>A, <1>F, FilesAre, Zenon
<1>2. Len(H) = Len(A) /\ \A i \in 1..Len(A) : H[i] = LinesOf(P2, Q2, A[i])
  BY <1>0, <1>A, <1>F, FilesAre, Zenon
<1>3. SameWholes(F, H)
  BY <1>1, <1>2, <1>S, Zenon DEF SameWholes
<1>4. AllFiles(P, Q) = F /\ AllFiles(P2, Q2) = H
  BY <1>F, <1>S, AllFilesIs
<1>5. Chained(F) /\ Chained(H)
  BY <1>4, TidyChained
<1> QED BY <1>3, <1>4, <1>5, ChainSame DEF LogOf

\* The last segment's commits end the log.
LEMMA LogLast ==
  ASSUME NEW P, NEW Q, Tidy(P, Q), NEW S, NEW k, Names(P, Q) = S \cup {k}, \A n \in S : n < k
  PROVE  LogOf(P, Q) = CommitsForward(FilesOf(P, Q, S)) \o Whole(LinesOf(P, Q, k))
         /\ CommitsForward(FilesOf(P, Q, S)) \in Seq(Batches) /\ Formed(LinesOf(P, Q, k))
         /\ Chained(FilesOf(P, Q, S))
<1>0. Names(P, Q) \subseteq 1..MaxSeq /\ \A n \in Names(P, Q) : LinesOf(P, Q, n) \in Seq(Line)
  BY LinesAre
<1>1. S \subseteq 1..MaxSeq /\ k \in 1..MaxSeq /\ \A n \in S \cup {k} : LinesOf(P, Q, n) \in Seq(Line)
  BY <1>0, Zenon
<1>2. FileMore(FilesOf(P, Q, S \cup {k}), FilesOf(P, Q, S), LinesOf(P, Q, k))
  BY <1>1, FilesLast
<1>M. PICK M : M = AllFiles(P, Q)
  OBVIOUS
<1>3. FileMore(M, FilesOf(P, Q, S), LinesOf(P, Q, k))
  BY <1>2, <1>M, AllFilesIs
<1>4. Chained(M)
  BY <1>M, TidyChained
<1>5. CommitsForward(M) = CommitsForward(FilesOf(P, Q, S)) \o Whole(LinesOf(P, Q, k)) /\ CommitsForward(FilesOf(P, Q, S)) \in Seq(Batches)
  BY <1>3, <1>4, ChainMore
<1>6. Formed(LinesOf(P, Q, k)) /\ Chained(FilesOf(P, Q, S))
  BY <1>3, <1>4, ChainedFront
<1> QED BY <1>5, <1>6, <1>M DEF LogOf

\* The event numbers of a file go up one by one.
LEMMA SeqsRise ==
  ASSUME NEW lines, Formed(lines), NEW i \in 1..Len(lines)
  PROVE  lines[i].seq = lines[1].seq + (i - 1) /\ lines[1].seq \in Nat
<1>0. lines \in Seq(Line) /\ 1 \in 1..Len(lines)
  BY DEF Formed
<1>s. PICK s \in Nat : s = lines[1].seq
  <2>1. lines[1] \in Line
    BY <1>0
  <2> QED BY <2>1, LineIs
<1> DEFINE G == {k \in Nat : k < Len(lines) => lines[k + 1].seq = s + k}
<1>1. 0 \in G
  BY <1>s
<1>2. ASSUME NEW k \in Nat, k \in G PROVE k + 1 \in G
  <2> SUFFICES ASSUME k + 1 < Len(lines) PROVE lines[(k + 1) + 1].seq = s + (k + 1)
    OBVIOUS
  <2>1. lines[k + 1].seq = s + k
    BY <1>2, <1>0
  <2>j. PICK j \in Nat : j = (k + 1) + 1
    OBVIOUS
  <2>2. j \in 1..Len(lines) /\ j > 1 /\ j - 1 = k + 1
    BY <2>j, <1>0
  <2>3. lines[j].seq = lines[j - 1].seq + 1
    BY <2>2 DEF Formed
  <2>4. lines[j].seq = (s + k) + 1
    BY <2>1, <2>2, <2>3
  <2> QED BY <2>4, <2>j
<1> HIDE DEF G
<1>3. \A k \in Nat : k \in G
  BY <1>1, <1>2, File!Induct
<1>4. i - 1 \in Nat /\ i - 1 < Len(lines) /\ (i - 1) + 1 = i
  BY <1>0
<1>5. lines[(i - 1) + 1].seq = s + (i - 1)
  BY <1>3, <1>4 DEF G
<1> QED BY <1>4, <1>5, <1>s

LEMMA LastIsLate ==
  ASSUME NEW lines, Formed(lines), lines # <<>>
  PROVE  Last(lines).seq \in Nat /\ lines[1].seq \in Nat /\ lines[1].seq <= Last(lines).seq
<1>n. PICK n \in Nat : n = Len(lines) - 1
  <2>1. Len(lines) \in Nat /\ Len(lines) # 0
    BY DEF Formed
  <2> QED BY <2>1
<1>1. n + 1 \in 1..Len(lines) /\ Last(lines) = lines[n + 1]
  BY <1>n DEF Formed, Last
<1>2. lines[n + 1].seq = lines[1].seq + ((n + 1) - 1) /\ lines[1].seq \in Nat
  BY <1>1, SeqsRise
<1>s. PICK s \in Nat : s = lines[1].seq
  BY <1>2
<1>3. lines[n + 1].seq = s + n
  BY <1>2, <1>s
<1> QED BY <1>1, <1>3, <1>s

\* The latest segment is a plain one, and the active one.
LEMMA ActiveIs ==
  ASSUME NEW P, NEW Q, Tidy(P, Q)
  PROVE  /\ Active(P) \in Nat /\ Latest(P, Q) = Active(P) /\ Active(P) \notin DOMAIN Q
         /\ \A n \in Names(P, Q) : n <= Active(P)
         /\ DOMAIN P # {} => Active(P) \in DOMAIN P /\ Active(P) > 0
         /\ DOMAIN P = {} => Names(P, Q) = {} /\ Active(P) = 0 /\ P = <<>>
<1>0. DOMAIN P \subseteq 1..MaxSeq /\ DOMAIN Q \subseteq 1..MaxSeq /\ P = [n \in DOMAIN P |-> P[n]]
      /\ \A n \in DOMAIN Q : \E m \in DOMAIN P : n < m
  BY Zenon DEF Tidy
<1>a. PICK a \in Nat : a = Active(P)
  BY <1>0, MaxSeqIs, MaxIs DEF Active
<1>1. a \in DOMAIN P \cup {0} /\ \A n \in DOMAIN P : n <= a
  BY <1>0, <1>a, MaxSeqIs, MaxIs DEF Active
<1>2. ASSUME NEW n \in DOMAIN Q PROVE n < a
  <2>1. PICK m \in DOMAIN P : n < m
    BY <1>0
  <2>2. m <= a /\ n \in Nat /\ m \in Nat
    BY <1>0, <1>1
  <2> QED BY <2>1, <2>2
<1>3. Names(P, Q) \subseteq 1..MaxSeq
  BY <1>0, Zenon DEF Names
<1>4. \A n \in Names(P, Q) : n <= a
  <2>1. ASSUME NEW n \in DOMAIN Q PROVE n <= a
    <3>1. n \in Nat /\ n < a
      BY <1>0, <1>2
    <3> QED BY <3>1
  <2> QED BY <1>1, <2>1 DEF Names
<1>l. PICK l \in Nat : l = Latest(P, Q)
  BY <1>3, MaxSeqIs, MaxIs DEF Latest
<1>5. l \in Names(P, Q) \cup {0} /\ \A n \in Names(P, Q) : n <= l
  BY <1>3, <1>l, MaxSeqIs, MaxIs DEF Latest
<1>6. l = a
  <2>1. l <= a
    BY <1>4, <1>5
  <2>2. a <= l
    <3>1. CASE a \in DOMAIN P
      BY <1>5, <3>1 DEF Names
    <3>2. CASE a = 0
      BY <3>2
    <3> QED BY <1>1, <3>1, <3>2
  <2> QED BY <2>1, <2>2
<1>7. a \notin DOMAIN Q
  <2>1. ~(a < a)
    OBVIOUS
  <2> QED BY <1>2, <2>1
<1>8. ASSUME DOMAIN P # {} PROVE a \in DOMAIN P /\ a > 0
  <2>1. PICK n : n \in DOMAIN P
    BY <1>8
  <2>2. n \in Nat /\ n > 0 /\ n <= a
    BY <1>0, <1>1, <2>1
  <2>3. a > 0
    BY <2>2
  <2> QED BY <1>1, <2>3
<1>9. ASSUME DOMAIN P = {} PROVE Names(P, Q) = {} /\ a = 0 /\ P = <<>>
  <2>1. DOMAIN Q = {}
    BY <1>0, <1>9
  <2>2. Names(P, Q) = {}
    BY <1>9, <2>1 DEF Names
  <2>3. a = 0
    BY <1>1, <1>9
  <2>4. <<>> = [n \in {} |-> P[n]]
    OBVIOUS
  <2> QED BY <1>0, <1>9, <2>2, <2>3, <2>4
<1> QED BY <1>4, <1>6, <1>7, <1>8, <1>9, <1>a, <1>l

\* Only the unfinished end of a file changes.
SameLines(P, P2) ==
  /\ DOMAIN P2 = DOMAIN P /\ P2 = [n \in DOMAIN P2 |-> P2[n]]
  /\ \A n \in DOMAIN P : P2[n] \in [lines : Seq(Line), torn : BOOLEAN] /\ P2[n].lines = P[n].lines
LEMMA TidyLines ==
  ASSUME NEW P, NEW Q, NEW P2, Tidy(P, Q), SameLines(P, P2)
  PROVE  Tidy(P2, Q) /\ LogOf(P2, Q) = LogOf(P, Q) /\ Names(P2, Q) = Names(P, Q) /\ Active(P2) = Active(P)
<1>1. Names(P2, Q) = Names(P, Q) /\ Active(P2) = Active(P)
  BY Zenon DEF SameLines, Names, Active
<1>2. Tidy(P2, Q)
  BY <1>1, Zenon DEF Tidy, SameLines
<1>3. \A n : LinesOf(P2, Q, n) = LinesOf(P, Q, n)
  BY Zenon DEF SameLines, LinesOf
<1>4. LogOf(P2, Q) = LogOf(P, Q)
  BY <1>1, <1>2, <1>3, LogSame
<1> QED BY <1>1, <1>2, <1>4

LEMMA TailCut ==
  ASSUME NEW P, NEW Q, Tidy(P, Q)
  PROVE  SameLines(P, WithoutTail(P))
<1>0. P = [n \in DOMAIN P |-> P[n]] /\ \A n \in DOMAIN P : P[n] \in [lines : Seq(Line), torn : BOOLEAN]
  BY Zenon DEF Tidy
<1>1. CASE P = <<>>
  BY <1>0, <1>1, Zenon DEF WithoutTail, SameLines
<1>2. CASE P # <<>>
  <2>a. PICK a : a = Active(P)
    OBVIOUS
  <2>W. PICK W : W = WithoutTail(P)
    OBVIOUS
  <2>1. W = [P EXCEPT ![a].torn = FALSE]
    BY <1>2, <2>a, <2>W DEF WithoutTail
  <2>2. DOMAIN W = DOMAIN P /\ W = [n \in DOMAIN W |-> W[n]]
    BY <1>0, <2>1
  <2>3. ASSUME NEW n \in DOMAIN P PROVE W[n] \in [lines : Seq(Line), torn : BOOLEAN] /\ W[n].lines = P[n].lines
    <3>1. CASE n # a
      BY <1>0, <2>1, <3>1
    <3>2. CASE n = a
      <4>1. W[n] = [P[n] EXCEPT !.torn = FALSE] /\ P[n] \in [lines : Seq(Line), torn : BOOLEAN]
        BY <1>0, <2>1, <3>2
      <4> QED BY <4>1
    <3> QED BY <3>1, <3>2
  <2> QED BY <2>2, <2>3, <2>W DEF SameLines
<1> QED BY <1>1, <1>2

LEMMA TailTorn ==
  ASSUME NEW P, NEW Q, Tidy(P, Q), NEW a
  PROVE  SameLines(P, [P EXCEPT ![a].torn = TRUE])
<1>0. P = [n \in DOMAIN P |-> P[n]] /\ \A n \in DOMAIN P : P[n] \in [lines : Seq(Line), torn : BOOLEAN]
  BY Zenon DEF Tidy
<1>W. PICK W : W = [P EXCEPT ![a].torn = TRUE]
  OBVIOUS
<1>2. DOMAIN W = DOMAIN P /\ W = [n \in DOMAIN W |-> W[n]]
  BY <1>0, <1>W
<1>3. ASSUME NEW n \in DOMAIN P PROVE W[n] \in [lines : Seq(Line), torn : BOOLEAN] /\ W[n].lines = P[n].lines
  <2>1. CASE n # a
    BY <1>0, <1>W, <2>1
  <2>2. CASE n = a
    <3>1. W[n] = [P[n] EXCEPT !.torn = TRUE] /\ P[n] \in [lines : Seq(Line), torn : BOOLEAN]
      BY <1>0, <1>W, <2>2
    <3> QED BY <3>1
  <2> QED BY <2>1, <2>2
<1> QED BY <1>2, <1>3, <1>W DEF SameLines

\* A segment that is new comes last, and nothing is in it.
EmptyFile == [lines |-> NoLines, torn |-> FALSE]
LEMMA EmptyIs == EmptyFile \in [lines : Seq(Line), torn : BOOLEAN] /\ EmptyFile.lines = <<>> /\ Formed(<<>>)
                 /\ Whole(<<>>) = <<>>
<1>1. EmptyFile \in [lines : Seq(Line), torn : BOOLEAN] /\ EmptyFile.lines = <<>>
  BY DEF EmptyFile, NoLines
<1>2. Formed(<<>>)
  BY DEF Formed
<1> QED BY <1>1, <1>2, WholeNone

IsOpened(W, F, k, e) ==
  /\ DOMAIN W = DOMAIN F \cup {k} /\ W = [n \in DOMAIN W |-> W[n]]
  /\ \A n \in DOMAIN F : W[n] = F[n]
  /\ k \notin DOMAIN F => W[k] = e
LEMMA OpenedIs == \A F, k, e : IsOpened(Opened(F, k, e), F, k, e)
  BY DEF Opened, IsOpened

LEMMA TidyNew ==
  ASSUME NEW P, NEW Q, Tidy(P, Q), NEW k \in 1..MaxSeq, \A n \in Names(P, Q) : n < k /\ Below(LinesOf(P, Q, n), k)
  PROVE  Tidy(Opened(P, k, EmptyFile), Q) /\ LogOf(Opened(P, k, EmptyFile), Q) = LogOf(P, Q)
         /\ Active(Opened(P, k, EmptyFile)) = k
<1>W. PICK W : W = Opened(P, k, EmptyFile)
  OBVIOUS
<1>0. k \notin Names(P, Q) /\ k \notin DOMAIN P /\ k \notin DOMAIN Q /\ k \in Nat /\ \A n \in Names(P, Q) : ~(k < n)
  <2>1. Names(P, Q) \subseteq Nat
    <3>1. 1..MaxSeq \subseteq Nat
      BY MaxSeqIs
    <3> QED BY <3>1, LinesAre
  <2>2. ASSUME NEW n \in Names(P, Q) PROVE n # k /\ ~(k < n)
    <3>1. n \in Nat /\ n < k /\ k \in Nat
      BY <2>1, MaxSeqIs
    <3> QED BY <3>1
  <2>3. k \in Nat
    BY MaxSeqIs
  <2> QED BY <2>2, <2>3 DEF Names
<1>1. DOMAIN W = DOMAIN P \cup {k} /\ W = [n \in DOMAIN W |-> W[n]] /\ (\A n \in DOMAIN P : W[n] = P[n]) /\ W[k] = EmptyFile
  <2>1. IsOpened(W, P, k, EmptyFile)
    BY <1>W, OpenedIs, Zenon
  <2> QED BY <1>0, <2>1, Zenon DEF IsOpened
<1>2. Names(W, Q) = Names(P, Q) \cup {k}
  BY <1>1, Zenon DEF Names
<1>3. /\ DOMAIN W \subseteq 1..MaxSeq /\ DOMAIN Q \subseteq 1..MaxSeq
      /\ \A n \in DOMAIN W : W[n] \in [lines : Seq(Line), torn : BOOLEAN] /\ Named(W[n].lines, n)
  <2>1. Named(EmptyFile.lines, k)
    BY EmptyIs DEF Named
  <2>2. DOMAIN P \subseteq 1..MaxSeq /\ DOMAIN Q \subseteq 1..MaxSeq
        /\ \A n \in DOMAIN P : P[n] \in [lines : Seq(Line), torn : BOOLEAN] /\ Named(P[n].lines, n)
    BY Zenon DEF Tidy
  <2> QED BY <1>1, <2>1, <2>2, EmptyIs, Zenon
<1>4. /\ \A n \in DOMAIN Q : Named(Q[n], n)
      /\ \A n \in DOMAIN Q : \E m \in DOMAIN W : n < m
      /\ \A n \in DOMAIN W \cap DOMAIN Q : Whole(Q[n]) = Whole(W[n].lines)
  BY <1>0, <1>1, Zenon DEF Tidy
<1>5. ASSUME NEW n \in DOMAIN W, NEW m \in Names(W, Q), n < m PROVE Below(W[n].lines, m)
  <2>1. CASE n = k
    BY <1>1, <2>1, EmptyIs DEF Below
  <2>2. CASE n \in DOMAIN P /\ m = k
    <3>1. n \in Names(P, Q) /\ LinesOf(P, Q, n) = W[n].lines
      BY <1>1, <2>2, Zenon DEF Names, LinesOf
    <3> QED BY <2>2, <3>1, Zenon
  <2>3. CASE n \in DOMAIN P /\ m \in Names(P, Q)
    BY <1>1, <1>5, <2>3, Zenon DEF Tidy
  <2> QED BY <1>1, <1>2, <2>1, <2>2, <2>3, Zenon
<1>6. ASSUME NEW n \in DOMAIN Q, NEW m \in Names(W, Q), n < m PROVE Below(Q[n], m)
  <2>1. CASE m = k
    <3>1. n \in Names(P, Q)
      BY DEF Names
    <3>2. CASE n \notin DOMAIN P
      BY <2>1, <3>1, <3>2, Zenon DEF LinesOf
    <3>3. CASE n \in DOMAIN P
      <4>1. PICK a \in DOMAIN P : n < a
        BY Zenon DEF Tidy
      <4>2. a \in Names(P, Q)
        BY DEF Names
      <4>3. Below(Q[n], a)
        BY <4>1, <4>2, Zenon DEF Tidy
      <4>4. a < k /\ a \in Nat
        <5>1. a \in 1..MaxSeq
          BY DEF Tidy
        <5> QED BY <4>2, <5>1, MaxSeqIs
      <4>5. Q[n] # <<>> => Last(Q[n]).seq \in Nat
        <5>1. Formed(Q[n])
          BY Zenon DEF Tidy, Named
        <5> QED BY <5>1, LastIsLate
      <4>6. Q[n] # <<>> => Last(Q[n]).seq < k
        <5>1. \A x \in Nat : x < a => x < k
          BY <4>4, <1>0
        <5> QED BY <4>3, <4>5, <5>1 DEF Below
      <4> QED BY <2>1, <4>6 DEF Below
    <3> QED BY <3>2, <3>3
  <2>2. CASE m \in Names(P, Q)
    BY <1>6, <2>2, Zenon DEF Tidy
  <2> QED BY <1>2, <2>1, <2>2, Zenon
<1>7. Tidy(W, Q)
  BY <1>1, <1>3, <1>4, <1>5, <1>6, Zenon DEF Tidy
<1>8. LogOf(W, Q) = LogOf(P, Q)
  <2>S. PICK S : S = Names(P, Q)
    OBVIOUS
  <2>1. S \subseteq 1..MaxSeq /\ \A n \in S : LinesOf(P, Q, n) = LinesOf(W, Q, n)
    <3>1. S \subseteq 1..MaxSeq
      BY <2>S, LinesAre
    <3>2. ASSUME NEW n \in S PROVE LinesOf(P, Q, n) = LinesOf(W, Q, n)
      <4>1. n # k
        BY <1>0, <2>S
      <4> QED BY <1>1, <4>1, Zenon DEF LinesOf
    <3> QED BY <3>1, <3>2
  <2>2. FilesOf(P, Q, S) = FilesOf(W, Q, S)
    <3>1. SameFiles(P, Q, W, Q, S)
      BY <2>1 DEF SameFiles
    <3> QED BY <3>1, FilesAgree
  <2>3. LinesOf(W, Q, k) = <<>>
    BY <1>1, EmptyIs, Zenon DEF LinesOf
  <2>4. LogOf(W, Q) = CommitsForward(FilesOf(W, Q, S)) \o Whole(LinesOf(W, Q, k)) /\ CommitsForward(FilesOf(W, Q, S)) \in Seq(Batches)
    <3>1. Names(W, Q) = S \cup {k} /\ \A n \in S : n < k
      BY <1>2, <2>S
    <3> QED BY <1>7, <3>1, LogLast
  <2>5. LogOf(P, Q) = CommitsForward(FilesOf(P, Q, S))
    BY <2>S, AllFilesIs DEF LogOf
  <2>c. PICK c \in Seq(Batches) : c = CommitsForward(FilesOf(W, Q, S))
    BY <2>4
  <2>6. c \o <<>> = c
    OBVIOUS
  <2> QED BY <2>2, <2>3, <2>4, <2>5, <2>6, <2>c, EmptyIs, Zenon
<1>9. Active(W) = k
  <2>1. Active(W) \in Nat /\ (\A n \in Names(W, Q) : n <= Active(W)) /\ Active(W) \in DOMAIN W
    BY <1>1, <1>7, ActiveIs
  <2>a. PICK a \in Nat : a = Active(W)
    BY <2>1
  <2>2. k <= a /\ a \in Names(P, Q) \cup {k}
    BY <1>1, <1>2, <2>1, <2>a, Zenon DEF Names
  <2>3. a \in Names(P, Q) => a < k
    OBVIOUS
  <2>4. a = k
    BY <1>0, <2>2, <2>3
  <2> QED BY <2>4, <2>a
<1> QED BY <1>7, <1>8, <1>9, <1>W

\* A segment that is there is opened as it is.
LEMMA OpenedSame ==
  ASSUME NEW P, NEW Q, Tidy(P, Q), NEW k \in DOMAIN P, NEW e
  PROVE  Opened(P, k, e) = P
<1>W. PICK W : W = Opened(P, k, e)
  OBVIOUS
<1>1. DOMAIN W = DOMAIN P \cup {k} /\ W = [n \in DOMAIN W |-> W[n]] /\ (\A n \in DOMAIN P : W[n] = P[n])
  <2>1. IsOpened(W, P, k, e)
    BY <1>W, OpenedIs, Zenon
  <2> QED BY <2>1, Zenon DEF IsOpened
<1>2. DOMAIN W = DOMAIN P
  BY <1>1
<1>3. P = [n \in DOMAIN P |-> P[n]]
  BY Zenon DEF Tidy
<1>4. W = P
  BY <1>1, <1>2, <1>3
<1> QED BY <1>4, <1>W

\* A line is written to the last segment.
IsWritten(P2, P, a, m) ==
  /\ DOMAIN P2 = DOMAIN P /\ P2 = [n \in DOMAIN P2 |-> P2[n]]
  /\ P2[a] = [lines |-> m, torn |-> FALSE]
  /\ \A n \in DOMAIN P : n # a => P2[n] = P[n]
LEMMA WrittenIs ==
  ASSUME NEW P, NEW Q, Tidy(P, Q), NEW a \in DOMAIN P, NEW m
  PROVE  IsWritten([P EXCEPT ![a] = [lines |-> m, torn |-> FALSE]], P, a, m)
<1>0. P = [n \in DOMAIN P |-> P[n]]
  BY Zenon DEF Tidy
<1>e. PICK e : e = [lines |-> m, torn |-> FALSE]
  OBVIOUS
<1>W. PICK W : W = [P EXCEPT ![a] = e]
  OBVIOUS
<1>1. DOMAIN W = DOMAIN P /\ W = [n \in DOMAIN W |-> W[n]] /\ W[a] = e /\ \A n \in DOMAIN P : n # a => W[n] = P[n]
  BY <1>0, <1>W
<1> QED BY <1>1, <1>W, <1>e, Zenon DEF IsWritten

LEMMA LongerNamed ==
  ASSUME NEW m, NEW lines, NEW x, Longer(m, lines, x), NEW a, Named(lines, a), lines = <<>> => x.seq = a
  PROVE  Named(m, a) /\ m \in Seq(Line) /\ m # <<>>
<1>0. lines \in Seq(Line) /\ x \in Line /\ m = Append(lines, x) /\ Formed(m) /\ m \in Seq(Line)
  BY DEF Longer
<1>1. lines = <<>> => m[1] = x
  BY <1>0
<1>2. lines # <<>> => m[1] = lines[1]
  BY <1>0
<1>3. m # <<>>
  BY <1>0
<1>4. m[1].seq = a
  BY <1>1, <1>2 DEF Named
<1> QED BY <1>0, <1>3, <1>4, Zenon DEF Named

LEMMA TidyWrite ==
  ASSUME NEW P, NEW Q, Tidy(P, Q), NEW a \in DOMAIN P, a = Active(P), NEW P2, NEW m, IsWritten(P2, P, a, m),
         NEW x, Longer(m, P[a].lines, x), P[a].lines = <<>> => x.seq = a
  PROVE  Tidy(P2, Q) /\ Active(P2) = a /\ LogOf(P, Q) \in Seq(Batches)
         /\ LogOf(P2, Q) = IF Ends(x) THEN Append(LogOf(P, Q), Batched(m)) ELSE LogOf(P, Q)
<1>1. Names(P2, Q) = Names(P, Q) /\ Active(P2) = a
  BY Zenon DEF IsWritten, Names, Active
<1>2. P2[a] = [lines |-> m, torn |-> FALSE] /\ P2[a].lines = m /\ a \in DOMAIN P2 /\ DOMAIN P2 = DOMAIN P
      /\ \A n \in DOMAIN P : n # a => P2[n] = P[n]
  BY DEF IsWritten
<1>3. a \in Nat /\ a \notin DOMAIN Q /\ a \in Names(P, Q) /\ (\A n \in Names(P, Q) : n \in Nat /\ ~(a < n))
  <2>1. Names(P, Q) \subseteq Nat
    <3>1. 1..MaxSeq \subseteq Nat
      BY MaxSeqIs
    <3> QED BY <3>1, LinesAre
  <2>2. a \in Names(P, Q)
    BY DEF Names
  <2>3. a \notin DOMAIN Q /\ \A n \in Names(P, Q) : n <= a
    BY ActiveIs
  <2>4. ASSUME NEW n \in Names(P, Q) PROVE n \in Nat /\ ~(a < n)
    <3>1. n \in Nat /\ a \in Nat /\ n <= a
      BY <2>1, <2>2, <2>3
    <3> QED BY <3>1
  <2> QED BY <2>1, <2>2, <2>3, <2>4
<1>4. Named(m, a) /\ m \in Seq(Line)
  <2>1. Named(P[a].lines, a)
    BY Zenon DEF Tidy
  <2> QED BY <2>1, LongerNamed
<1>5. Tidy(P2, Q)
  <2>1. \A n \in DOMAIN P2 : P2[n] \in [lines : Seq(Line), torn : BOOLEAN] /\ Named(P2[n].lines, n)
    <3>1. P2[a] \in [lines : Seq(Line), torn : BOOLEAN] /\ Named(P2[a].lines, a)
      BY <1>2, <1>4
    <3>2. ASSUME NEW n \in DOMAIN P, n # a PROVE P2[n] \in [lines : Seq(Line), torn : BOOLEAN] /\ Named(P2[n].lines, n)
      BY <1>2, <3>2, Zenon DEF Tidy
    <3> QED BY <1>2, <3>1, <3>2, Zenon
  <2>2. ASSUME NEW n \in DOMAIN P2, NEW k \in Names(P2, Q), n < k PROVE Below(P2[n].lines, k)
    <3>1. n # a /\ n \in DOMAIN P /\ k \in Names(P, Q)
      BY <1>1, <1>2, <1>3, <2>2, Zenon
    <3>2. Below(P[n].lines, k)
      BY <2>2, <3>1, Zenon DEF Tidy
    <3> QED BY <1>2, <3>1, <3>2, Zenon
  <2>3. \A n \in DOMAIN P2 \cap DOMAIN Q : Whole(Q[n]) = Whole(P2[n].lines)
    BY <1>2, <1>3, Zenon DEF Tidy
  <2>4. P2 = [n \in DOMAIN P2 |-> P2[n]]
    BY Zenon DEF IsWritten
  <2> QED BY <1>1, <1>2, <2>1, <2>2, <2>3, <2>4, Zenon DEF Tidy
<1>S. PICK S : S = Names(P, Q) \ {a}
  OBVIOUS
<1>6. Names(P, Q) = S \cup {a} /\ (\A n \in S : n < a) /\ S \subseteq 1..MaxSeq
  <2>1. ASSUME NEW n \in S PROVE n < a
    <3>1. n \in Nat /\ ~(a < n) /\ n # a
      BY <1>3, <1>S
    <3> QED BY <1>3, <3>1
  <2>2. Names(P, Q) \subseteq 1..MaxSeq
    BY LinesAre
  <2> QED BY <1>3, <1>S, <2>1, <2>2
<1>7. FilesOf(P, Q, S) = FilesOf(P2, Q, S)
  <2>1. ASSUME NEW n \in S PROVE LinesOf(P, Q, n) = LinesOf(P2, Q, n)
    <3>1. n # a
      BY <1>S
    <3> QED BY <1>2, <3>1, Zenon DEF LinesOf
  <2>2. SameFiles(P, Q, P2, Q, S)
    BY <1>6, <2>1 DEF SameFiles
  <2> QED BY <2>2, FilesAgree
<1>8. LogOf(P, Q) = CommitsForward(FilesOf(P, Q, S)) \o Whole(LinesOf(P, Q, a)) /\ CommitsForward(FilesOf(P, Q, S)) \in Seq(Batches)
  BY <1>6, LogLast
<1>9. LogOf(P2, Q) = CommitsForward(FilesOf(P2, Q, S)) \o Whole(LinesOf(P2, Q, a))
  BY <1>1, <1>5, <1>6, LogLast
<1>10. LinesOf(P, Q, a) = P[a].lines /\ LinesOf(P2, Q, a) = m
  BY <1>2, Zenon DEF LinesOf
<1>c. PICK c \in Seq(Batches) : c = CommitsForward(FilesOf(P, Q, S))
  BY <1>8
<1>w. PICK w \in Seq(Batches) : w = Whole(P[a].lines)
  <2>1. Whole(P[a].lines) \in Seq(Batches)
    BY WholeMore
  <2> QED BY <2>1
<1>11. Whole(m) = Added(w, m) /\ Last(m) = x /\ Batched(m) \in Batches
  BY <1>w, WholeMore, BatchedIs DEF Batches
<1>12. LogOf(P, Q) = c \o w /\ LogOf(P2, Q) = c \o Added(w, m)
  BY <1>7, <1>8, <1>9, <1>10, <1>11, <1>c, <1>w, Zenon
<1>13. c \o w \in Seq(Batches)
  OBVIOUS
<1>14. CASE Ends(x)
  <2>b. PICK b \in Batches : b = Batched(m)
    BY <1>11
  <2>1. c \o Append(w, b) = Append(c \o w, b)
    OBVIOUS
  <2> QED BY <1>1, <1>5, <1>11, <1>12, <1>13, <1>14, <2>1, <2>b, Zenon DEF Added
<1>15. CASE ~Ends(x)
  BY <1>1, <1>5, <1>11, <1>12, <1>13, <1>15, Zenon DEF Added
<1> QED BY <1>14, <1>15

\* What a compressed segment holds.
Packs(c, lines, s) ==
  /\ Named(c, s) /\ Whole(c) = Whole(lines)
  /\ \A m \in Nat : Below(lines, m) => Below(c, m)
LEMMA PrefixPacks ==
  ASSUME NEW lines, NEW s, Named(lines, s)
  PROVE  Packs(CompletePrefix(lines), lines, s)
<1>0. Formed(lines) /\ (lines # <<>> => lines[1].seq = s) /\ lines \in Seq(Line)
  BY DEF Named, Formed
<1>n. PICK n \in Nat : n = Len(lines)
  BY <1>0
<1>q. PICK q \in Nat : q <= n /\ CompletePrefix(lines) = Part(lines, 1, q) /\ Whole(Part(lines, 1, q)) = Whole(lines)
  BY <1>0, <1>n, PrefixIs
<1>c. PICK c : c = Part(lines, 1, q)
  OBVIOUS
<1>1. Formed(c) /\ c \in Seq(Line) /\ Len(c) = q /\ \A i \in 1..q : c[i] = lines[i]
  BY <1>0, <1>c, <1>n, <1>q, FrontFormed
<1>2. Named(c, s)
  <2> SUFFICES ASSUME c # <<>> PROVE c[1].seq = s
    BY <1>1 DEF Named
  <2>1. 1 \in 1..q /\ lines # <<>>
    BY <1>1, <1>n, <1>q
  <2> QED BY <1>0, <1>1, <2>1
<1>3. ASSUME NEW m \in Nat, Below(lines, m), c # <<>> PROVE Last(c).seq < m
  <2>1. q \in 1..n /\ n \in 1..n /\ lines # <<>> /\ Last(c) = c[q] /\ Last(lines) = lines[n]
    BY <1>0, <1>1, <1>3, <1>n, <1>q DEF Last
  <2>2. lines[q].seq = lines[1].seq + (q - 1) /\ lines[n].seq = lines[1].seq + (n - 1) /\ lines[1].seq \in Nat
    BY <1>0, <1>n, <2>1, SeqsRise
  <2>a. PICK a \in Nat : a = lines[1].seq
    BY <2>2
  <2>3. c[q] = lines[q]
    BY <1>1, <2>1
  <2>4. lines[n].seq < m
    BY <1>3, <2>1 DEF Below
  <2>5. a + (n - 1) < m
    BY <2>2, <2>4, <2>a
  <2>6. a + (q - 1) < m
    BY <1>q, <2>5
  <2> QED BY <2>1, <2>2, <2>3, <2>6, <2>a, Zenon
<1>4. Packs(c, lines, s)
  BY <1>2, <1>3, <1>q, <1>c DEF Packs, Below
<1> QED BY <1>4, <1>c, <1>q

LEMMA TidyPacked ==
  ASSUME NEW P, NEW Q, Tidy(P, Q), NEW s \in DOMAIN P, s < Active(P), NEW c, Packs(c, P[s].lines, s)
  PROVE  Tidy(P, Opened(Q, s, c)) /\ LogOf(P, Opened(Q, s, c)) = LogOf(P, Q)
         /\ DOMAIN Opened(Q, s, c) = DOMAIN Q \cup {s}
<1>W. PICK W : W = Opened(Q, s, c)
  OBVIOUS
<1>1. DOMAIN W = DOMAIN Q \cup {s} /\ (\A n \in DOMAIN Q : W[n] = Q[n]) /\ (s \notin DOMAIN Q => W[s] = c)
  <2>1. IsOpened(W, Q, s, c)
    BY <1>W, OpenedIs, Zenon
  <2> QED BY <2>1, Zenon DEF IsOpened
<1>2. Names(P, W) = Names(P, Q)
  BY <1>1 DEF Names
<1>3. \A n \in Names(P, Q) : n \in Nat
  <2>1. 1..MaxSeq \subseteq Nat
    BY MaxSeqIs
  <2> QED BY <2>1, LinesAre
<1>4. ASSUME NEW n \in DOMAIN W, n \notin DOMAIN Q
      PROVE  n = s /\ W[n] = c
  BY <1>1, <1>4
<1>5. \A n \in DOMAIN W : Named(W[n], n)
  <2>1. ASSUME NEW n \in DOMAIN W PROVE Named(W[n], n)
    <3>1. CASE n \in DOMAIN Q
      BY <1>1, <3>1, Zenon DEF Tidy
    <3>2. CASE n \notin DOMAIN Q
      BY <1>4, <3>2, Zenon DEF Packs
    <3> QED BY <3>1, <3>2
  <2> QED BY <2>1
<1>6. ASSUME NEW n \in DOMAIN W, NEW m \in Names(P, W), n < m PROVE Below(W[n], m)
  <2>1. CASE n \in DOMAIN Q
    BY <1>1, <1>2, <1>6, <2>1, Zenon DEF Tidy
  <2>2. CASE n \notin DOMAIN Q
    <3>1. n = s /\ W[n] = c /\ m \in Names(P, Q) /\ m \in Nat /\ s < m
      BY <1>2, <1>3, <1>4, <1>6, <2>2
    <3>2. Below(P[s].lines, m)
      BY <3>1, Zenon DEF Tidy
    <3> QED BY <3>1, <3>2, Zenon DEF Packs
  <2> QED BY <2>1, <2>2
<1>7. \A n \in DOMAIN W : \E m \in DOMAIN P : n < m
  <2>1. Active(P) \in DOMAIN P
    BY ActiveIs
  <2>2. \A n \in DOMAIN Q : \E m \in DOMAIN P : n < m
    BY Zenon DEF Tidy
  <2> QED BY <1>1, <2>1, <2>2
<1>8. ASSUME NEW n \in DOMAIN P \cap DOMAIN W PROVE Whole(W[n]) = Whole(P[n].lines)
  <2>1. CASE n \in DOMAIN Q
    BY <1>1, <2>1, Zenon DEF Tidy
  <2>2. CASE n \notin DOMAIN Q
    BY <1>4, <2>2, Zenon DEF Packs
  <2> QED BY <2>1, <2>2
<1>9. Tidy(P, W)
  <2>1. /\ P = [n \in DOMAIN P |-> P[n]] /\ DOMAIN P \subseteq 1..MaxSeq /\ DOMAIN Q \subseteq 1..MaxSeq
        /\ \A n \in DOMAIN P : P[n] \in [lines : Seq(Line), torn : BOOLEAN] /\ Named(P[n].lines, n)
        /\ \A n \in DOMAIN P, m \in Names(P, Q) : n < m => Below(P[n].lines, m)
    BY Zenon DEF Tidy
  <2>2. DOMAIN W \subseteq 1..MaxSeq
    BY <1>1, <2>1, Zenon
  <2> QED BY <1>2, <1>5, <1>6, <1>7, <1>8, <2>1, <2>2, Zenon DEF Tidy
<1>10. \A n \in Names(P, Q) : LinesOf(P, W, n) = LinesOf(P, Q, n)
  BY <1>1, Zenon DEF Names, LinesOf
<1>11. LogOf(P, W) = LogOf(P, Q)
  <2>1. \A n \in Names(P, Q) : Whole(LinesOf(P, Q, n)) = Whole(LinesOf(P, W, n))
    BY <1>10, Zenon
  <2> QED BY <1>2, <1>9, <2>1, LogSame
<1> QED BY <1>1, <1>9, <1>11, <1>W

\* A plain file that has been packed is removed.
LEMMA TidyRemoved ==
  ASSUME NEW P, NEW Q, Tidy(P, Q), NEW s \in DOMAIN P, s \in DOMAIN Q, NEW W, W = Restrict(P, DOMAIN P \ {s})
  PROVE  Tidy(W, Q) /\ LogOf(W, Q) = LogOf(P, Q) /\ Active(W) = Active(P)
         /\ DOMAIN W = DOMAIN P \ {s} /\ \A n \in DOMAIN W : W[n] = P[n]
<1>1. DOMAIN W = DOMAIN P \ {s} /\ W = [n \in DOMAIN W |-> W[n]] /\ (\A n \in DOMAIN W : n \in DOMAIN P /\ W[n] = P[n])
  BY DEF Restrict
<1>2. Names(W, Q) = Names(P, Q)
  BY <1>1 DEF Names
<1>3. /\ DOMAIN P \subseteq 1..MaxSeq /\ DOMAIN Q \subseteq 1..MaxSeq
      /\ \A n \in DOMAIN P : P[n] \in [lines : Seq(Line), torn : BOOLEAN] /\ Named(P[n].lines, n)
      /\ \A n \in DOMAIN Q : Named(Q[n], n)
      /\ \A n \in DOMAIN P, m \in Names(P, Q) : n < m => Below(P[n].lines, m)
      /\ \A n \in DOMAIN Q, m \in Names(P, Q) : n < m => Below(Q[n], m)
      /\ \A n \in DOMAIN P \cap DOMAIN Q : Whole(Q[n]) = Whole(P[n].lines)
  BY Zenon DEF Tidy
<1>a. PICK a : a = Active(P)
  OBVIOUS
<1>4. a \in Nat /\ a \in DOMAIN P /\ a \notin DOMAIN Q /\ (\A n \in Names(P, Q) : n <= a)
  BY <1>a, ActiveIs
<1>5. a \in DOMAIN W
  BY <1>1, <1>4
<1>6. ASSUME NEW n \in DOMAIN Q PROVE n < a
  <2>1. n \in Nat
    BY <1>3, MaxSeqIs
  <2>2. n <= a
    BY <1>4 DEF Names
  <2>3. n # a
    BY <1>4
  <2> QED BY <1>4, <2>1, <2>2, <2>3
<1>7. Tidy(W, Q)
  <2>1. DOMAIN W \subseteq 1..MaxSeq
    BY <1>1, <1>3, Zenon
  <2>2. \A n \in DOMAIN W : W[n] \in [lines : Seq(Line), torn : BOOLEAN] /\ Named(W[n].lines, n)
    BY <1>1, <1>3, Zenon
  <2>3. \A n \in DOMAIN W, m \in Names(W, Q) : n < m => Below(W[n].lines, m)
    BY <1>1, <1>2, <1>3, Zenon
  <2>4. \A n \in DOMAIN W \cap DOMAIN Q : Whole(Q[n]) = Whole(W[n].lines)
    BY <1>1, <1>3, Zenon
  <2>5. \A n \in DOMAIN Q : \E m \in DOMAIN W : n < m
    BY <1>5, <1>6
  <2> QED BY <1>1, <1>2, <1>3, <2>1, <2>2, <2>3, <2>4, <2>5, Zenon DEF Tidy
<1>8. ASSUME NEW n \in Names(P, Q) PROVE Whole(LinesOf(P, Q, n)) = Whole(LinesOf(W, Q, n))
  <2>1. CASE n = s
    BY <1>1, <1>3, <2>1, Zenon DEF LinesOf
  <2>2. CASE n # s /\ n \in DOMAIN P
    <3>1. n \in DOMAIN W
      BY <1>1, <2>2
    <3> QED BY <1>1, <2>2, <3>1, Zenon DEF LinesOf
  <2>3. CASE n \notin DOMAIN P
    <3>1. n \notin DOMAIN W
      BY <1>1, <2>3
    <3> QED BY <2>3, <3>1, Zenon DEF LinesOf
  <2> QED BY <2>1, <2>2, <2>3
<1>9. LogOf(P, Q) = LogOf(W, Q)
  BY <1>2, <1>7, <1>8, LogSame
<1>10. Active(W) = Active(P)
  <2>1. Latest(W, Q) = Active(W) /\ Latest(P, Q) = Active(P)
    BY <1>7, ActiveIs
  <2>2. Latest(W, Q) = Latest(P, Q)
    BY <1>2, Zenon DEF Latest
  <2> QED BY <2>1, <2>2
<1> QED BY <1>1, <1>7, <1>9, <1>10

\* What a batch adds to the history does not depend on the history.
LEMMA SeesAfter ==
  \A b \in Batches : \A r \in Seq(Nat) : See!Fold(r, b) \in Seq(Nat) /\ See!Fold(r, b) = r \o See!Fold(<<>>, b)
                                       /\ See!Fold(<<>>, b) \in Seq(Nat)
<1> DEFINE G == {b \in Batches : \A r \in Seq(Nat) : /\ See!Fold(r, b) \in Seq(Nat) /\ See!Fold(<<>>, b) \in Seq(Nat)
                                                     /\ See!Fold(r, b) = r \o See!Fold(<<>>, b)}
<1>1. <<>> \in G
  <2>1. \A r : See!Fold(r, <<>>) = r
    BY See!FoldNone
  <2>2. \A r \in Seq(Nat) : r = r \o <<>>
    OBVIOUS
  <2>3. <<>> \in Seq(Nat) /\ <<>> \in Batches
    BY DEF Batches
  <2> QED BY <2>1, <2>2, <2>3, Zenon
<1>2. ASSUME NEW b \in Seq(Line), NEW x \in Line, b \in G PROVE Append(b, x) \in G
  <2> SUFFICES ASSUME NEW r \in Seq(Nat)
               PROVE  /\ See!Fold(r, Append(b, x)) \in Seq(Nat) /\ See!Fold(<<>>, Append(b, x)) \in Seq(Nat)
                      /\ See!Fold(r, Append(b, x)) = r \o See!Fold(<<>>, Append(b, x))
    BY SMTT(30) DEF Batches
  <2>1. \A r2 : See!Fold(r2, Append(b, x)) = Seen(See!Fold(r2, b), x)
    BY See!FoldMore
  <2>e. PICK e \in Seq(Nat) : e = See!Fold(<<>>, b)
    <3>1. <<>> \in Seq(Nat)
      OBVIOUS
    <3> QED BY <1>2, <3>1
  <2>2. See!Fold(r, b) = r \o e
    BY <1>2, <2>e
  <2>n. PICK n \in Nat : n = x.seq
    BY LineIs
  <2>3. See!Fold(r, Append(b, x)) = IF Visible(x) THEN Append(r \o e, n) ELSE r \o e
    BY <2>1, <2>2, <2>n, Zenon DEF Seen
  <2>4. See!Fold(<<>>, Append(b, x)) = IF Visible(x) THEN Append(e, n) ELSE e
    BY <2>1, <2>e, <2>n, Zenon DEF Seen
  <2>5. r \o e \in Seq(Nat) /\ Append(r \o e, n) \in Seq(Nat) /\ Append(e, n) \in Seq(Nat) /\ r \o Append(e, n) = Append(r \o e, n)
    OBVIOUS
  <2> QED BY <2>3, <2>4, <2>5, Zenon
<1> HIDE DEF G
<1>3. \A b \in Seq(Line) : b \in G
  BY <1>1, <1>2, See!SeqInduct
<1> QED BY <1>3 DEF G, Batches

LEMMA RecordsMore ==
  ASSUME NEW C \in Seq(Batches), NEW b \in Batches
  PROVE  /\ Records(C) \in Seq(Nat) /\ Records(<<b>>) \in Seq(Nat)
         /\ Records(Append(C, b)) = Records(C) \o Records(<<b>>)
         /\ Records(Append(C, b)) = See!Fold(Records(C), b)
<1>0. <<>> \in Seq(Nat) /\ <<>> \in Seq(Batches)
  OBVIOUS
<1>1. \A D \in Seq(Batches) : Take!Fold(<<>>, D) \in Seq(Nat)
  <2>1. ASSUME NEW v \in Seq(Nat), NEW x \in Batches PROVE TakeStep(v, x) \in Seq(Nat)
    BY SeesAfter, SeeIs
  <2> QED BY <1>0, <2>1, Take!FoldKeeps
<1>2. Records(C) \in Seq(Nat)
  BY <1>1, TakeIs
<1>3. Records(Append(C, b)) = See!Fold(Records(C), b)
  <2>1. Take!Fold(<<>>, Append(C, b)) = TakeStep(Take!Fold(<<>>, C), b)
    BY Take!FoldMore
  <2> QED BY <2>1, TakeIs, SeeIs, Zenon
<1>4. Records(<<b>>) = See!Fold(<<>>, b)
  <2>1. Take!Fold(<<>>, Append(<<>>, b)) = TakeStep(Take!Fold(<<>>, <<>>), b)
    BY <1>0, Take!FoldMore
  <2>2. Take!Fold(<<>>, <<>>) = <<>>
    BY Take!FoldNone
  <2>3. Append(<<>>, b) = <<b>>
    OBVIOUS
  <2> QED BY <2>1, <2>2, <2>3, TakeIs, SeeIs, Zenon
<1>5. See!Fold(Records(C), b) = Records(C) \o See!Fold(<<>>, b) /\ See!Fold(<<>>, b) \in Seq(Nat)
  BY <1>2, SeesAfter
<1> QED BY <1>2, <1>3, <1>4, <1>5, Zenon

LEMMA RecordsNone == Records(<<>>) = <<>>
  BY TakeIs, Take!FoldNone

LEMMA SoundMore ==
  ASSUME NEW C \in Seq(Batches), NEW b \in Batches
  PROVE  Sound(Append(C, b)) <=> (Sound(C) /\ SoundNext(C, b))
<1>0. Append(C, b) \in Seq(Batches)
  OBVIOUS
<1>D. PICK D \in Seq(Batches) : D = Append(C, b)
  BY <1>0
<1>n. PICK n \in Nat : n = Len(C)
  OBVIOUS
<1>1. Len(D) = n + 1 /\ D[n + 1] = b /\ \A i \in 1..n : D[i] = C[i]
  BY <1>D, <1>n
<1>2. \A i \in 1..n : Part(D, 1, i - 1) = Part(C, 1, i - 1)
  <2> TAKE i \in 1..n
  <2>1. i - 1 \in Nat /\ 1 <= (i - 1) + 1 /\ i - 1 <= Len(C)
    BY <1>n
  <2>2. Part(Append(C, b), 1, i - 1) = Part(C, 1, i - 1)
    BY <2>1, PartSame
  <2> QED BY <1>D, <2>2, Zenon
<1>3. Part(D, 1, n) = C
  <2>1. Part(Append(C, b), 1, n) = Part(C, 1, n)
    BY <1>n, PartSame
  <2>2. Part(C, 1, n) = C
    BY <1>n, PartAll
  <2> QED BY <1>D, <2>1, <2>2, Zenon
<1>4. 1..(n + 1) = 1..n \cup {n + 1} /\ (n + 1) - 1 = n
  OBVIOUS
<1>5. Sound(D) <=> /\ \A i \in 1..n : SoundNext(Part(D, 1, i - 1), D[i])
                   /\ SoundNext(Part(D, 1, n), D[n + 1])
  <2>1. Sound(D) <=> \A i \in 1..(n + 1) : SoundNext(Part(D, 1, i - 1), D[i])
    BY <1>1, Zenon DEF Sound
  <2>2. (\A i \in 1..(n + 1) : SoundNext(Part(D, 1, i - 1), D[i])) <=>
          /\ \A i \in 1..n : SoundNext(Part(D, 1, i - 1), D[i])
          /\ SoundNext(Part(D, 1, (n + 1) - 1), D[n + 1])
    BY <1>4, Zenon
  <2> QED BY <1>4, <2>1, <2>2, Zenon
<1>6. Sound(C) <=> \A i \in 1..n : SoundNext(Part(C, 1, i - 1), C[i])
  BY <1>n, Zenon DEF Sound
<1>7. Sound(D) <=> (Sound(C) /\ SoundNext(C, b))
  BY <1>1, <1>2, <1>3, <1>5, <1>6, Zenon
<1> QED BY <1>7, <1>D

LEMMA SoundNone == Sound(<<>>)
  BY DEF Sound

\* A batch that continues the log soundly is folded as it is seen.
LEMMA FoldBatch ==
  ASSUME NEW C \in Seq(Batches), NEW b \in Batches, SoundNext(C, b)
  PROVE  FoldStep(Records(C), b) = Records(Append(C, b))
<1>r. PICK r \in Seq(Nat) : r = Records(C)
  BY RecordsMore
<1>0. b \in Seq(Line)
  BY DEF Batches
<1>1. CASE Len(b) = 1 /\ IsSnapshot(b[1]) /\ b[1].state = r
  <2>0. b[1] \in Line
    <3>1. 1 \in 1..Len(b)
      BY <1>1
    <3> QED BY <1>0, <3>1
  <2>x. PICK x \in Line : x = b[1]
    BY <2>0
  <2>1. b = Append(<<>>, x)
    BY <1>0, <1>1, <2>x
  <2>2. Apply!Fold(r, Append(<<>>, x)) = ApplyEnvelope(Apply!Fold(r, <<>>), x)
        /\ See!Fold(r, Append(<<>>, x)) = Seen(See!Fold(r, <<>>), x)
    <3>1. <<>> \in Seq(Line)
      OBVIOUS
    <3> QED BY <3>1, Apply!FoldMore, See!FoldMore
  <2>3. Apply!Fold(r, <<>>) = r /\ See!Fold(r, <<>>) = r
    BY Apply!FoldNone, See!FoldNone
  <2>4. ApplyEnvelope(r, x) = r
    <3>1. x.state = r /\ x.kind \in {"snapshot", "unusable"}
      BY <1>1, <2>x DEF IsSnapshot
    <3>2. CASE x.kind = "snapshot"
      BY <3>1, <3>2, Zenon DEF ApplyEnvelope
    <3>3. CASE x.kind = "unusable"
      <4>1. x.kind # "snapshot"
        BY <3>3
      <4> QED BY <3>3, <4>1, Zenon DEF ApplyEnvelope
    <3> QED BY <3>1, <3>2, <3>3
  <2>5. Seen(r, x) = r
    BY <1>1, <2>x DEF Seen, Visible
  <2> QED BY <1>r, <2>1, <2>2, <2>3, <2>4, <2>5, RecordsMore, ApplyIs, Zenon
<1>2. CASE Len(b) > 0 /\ \A i \in 1..Len(b) : b[i].kind = IF i = 1 /\ r = <<>> THEN "created" ELSE "event"
  <2> DEFINE P(k) == Part(b, 1, k)
             G == {k \in Nat : k <= Len(b) => /\ Apply!Fold(r, P(k)) = See!Fold(r, P(k))
                                              /\ k > 0 => See!Fold(r, P(k)) # <<>>
                                              /\ See!Fold(r, P(k)) \in Seq(Nat) /\ P(k) \in Seq(Line)}
  <2>1. 0 \in G
    <3>1. P(0) = <<>>
      BY <1>0, PartNone
    <3>2. Apply!Fold(r, <<>>) = r /\ See!Fold(r, <<>>) = r
      BY Apply!FoldNone, See!FoldNone
    <3> HIDE DEF P
    <3>e. <<>> \in Seq(Line)
      OBVIOUS
    <3>3. Apply!Fold(r, P(0)) = See!Fold(r, P(0)) /\ See!Fold(r, P(0)) \in Seq(Nat) /\ P(0) \in Seq(Line)
      BY <3>1, <3>2, <3>e, Zenon
    <3> QED BY <3>3
  <2>2. ASSUME NEW k \in Nat, k \in G PROVE k + 1 \in G
    <3> SUFFICES ASSUME k + 1 <= Len(b)
                 PROVE  /\ Apply!Fold(r, P(k + 1)) = See!Fold(r, P(k + 1))
                        /\ See!Fold(r, P(k + 1)) # <<>> /\ See!Fold(r, P(k + 1)) \in Seq(Nat) /\ P(k + 1) \in Seq(Line)
      OBVIOUS
    <3>0. k <= Len(b) /\ k + 1 \in 1..Len(b) /\ 1 <= k + 1
      BY <1>0
    <3>x. PICK x \in Line : x = b[k + 1]
      BY <1>0, <3>0
    <3>p. PICK p \in Seq(Line) : p = P(k)
      BY <2>2, <3>0
    <3>1. P(k + 1) = Append(p, x)
      BY <1>0, <3>0, <3>x, <3>p, PartMore
    <3> HIDE DEF P
    <3>f. PICK f \in Seq(Nat) : f = See!Fold(r, p)
      BY <2>2, <3>0, <3>p
    <3>2. Apply!Fold(r, p) = f /\ (k > 0 => f # <<>>)
      BY <2>2, <3>0, <3>p, <3>f
    <3>3. k = 0 => f = r
      <4>1. k = 0 => p = <<>>
        BY <1>0, <3>p, PartNone DEF P
      <4> QED BY <4>1, <3>f, See!FoldNone
    <3>4. Apply!Fold(r, Append(p, x)) = ApplyEnvelope(f, x) /\ See!Fold(r, Append(p, x)) = Seen(f, x)
      BY <3>2, <3>f, Apply!FoldMore, See!FoldMore
    <3>n. PICK n \in Nat : n = x.seq
      BY LineIs
    <3>5. x.kind = IF k = 0 /\ r = <<>> THEN "created" ELSE "event"
      <4>1. b[k + 1].kind = IF k + 1 = 1 /\ r = <<>> THEN "created" ELSE "event"
        BY <1>2, <3>0
      <4>2. k + 1 = 1 <=> k = 0
        OBVIOUS
      <4> QED BY <3>x, <4>1, <4>2, Zenon
    <3>6. x.kind \in {"created", "event"} /\ x.kind # "snapshot" /\ x.kind # "unusable"
      BY <3>5
    <3>7. Seen(f, x) = Append(f, n)
      BY <3>6, <3>n DEF Seen, Visible, IsSnapshot
    <3>8. ApplyEnvelope(f, x) = Append(f, n)
      <4>1. CASE x.kind = "created"
        <5>1. k = 0 /\ r = <<>>
          BY <3>5, <4>1
        <5>2. ApplyEnvelope(f, x) = <<n>>
          BY <3>6, <3>n, <4>1, Zenon DEF ApplyEnvelope
        <5>3. Append(<<>>, n) = <<n>>
          OBVIOUS
        <5> QED BY <3>3, <5>1, <5>2, <5>3, Zenon
      <4>2. CASE x.kind = "event"
        <5>1. f # <<>>
          BY <3>2, <3>3, <3>5, <4>2
        <5>2. x.kind # "created"
          BY <4>2
        <5> QED BY <3>6, <3>n, <5>1, <5>2, Zenon DEF ApplyEnvelope
      <4> QED BY <3>6, <4>1, <4>2
    <3>9. Append(f, n) \in Seq(Nat) /\ Append(f, n) # <<>> /\ Append(p, x) \in Seq(Line)
      <4>1. Append(f, n) \in Seq(Nat) /\ Append(p, x) \in Seq(Line)
        OBVIOUS
      <4>2. Len(Append(f, n)) = Len(f) + 1 /\ Len(f) \in Nat
        OBVIOUS
      <4>3. Len(Append(f, n)) # 0
        BY <4>2
      <4>4. Len(<<>>) = 0
        OBVIOUS
      <4> QED BY <4>1, <4>3, <4>4, Zenon
    <3> QED BY <3>1, <3>4, <3>7, <3>8, <3>9, Zenon
  <2> HIDE DEF G, P
  <2>3. \A k \in Nat : k \in G
    BY <2>1, <2>2, File!Induct
  <2>4. Len(b) \in Nat /\ P(Len(b)) = b
    BY <1>0, PartAll DEF P
  <2>5. Apply!Fold(r, b) = See!Fold(r, b)
    <3>1. Len(b) \in G
      BY <2>3, <2>4
    <3> QED BY <2>4, <3>1 DEF G
  <2> QED BY <1>r, <2>5, RecordsMore, ApplyIs, Zenon
<1> QED BY <1>1, <1>2, <1>r DEF SoundNext

\* A sound log folds to its history.
LEMMA SoundFold == \A C \in Seq(Batches) : Sound(C) => FoldCommits(<<>>, C) = Records(C)
<1> DEFINE G == {C \in Seq(Batches) : Sound(C) => FoldCommits(<<>>, C) = Records(C)}
<1>1. <<>> \in G
  <2>1. FoldCommits(<<>>, <<>>) = <<>>
    BY RefoldIs, Refold!FoldNone
  <2> QED BY <2>1, RecordsNone
<1>2. ASSUME NEW C \in Seq(Batches), NEW b \in Batches, C \in G PROVE Append(C, b) \in G
  <2> SUFFICES ASSUME Sound(Append(C, b)) PROVE FoldCommits(<<>>, Append(C, b)) = Records(Append(C, b))
    OBVIOUS
  <2>1. Sound(C) /\ SoundNext(C, b)
    BY SoundMore
  <2>2. FoldCommits(<<>>, Append(C, b)) = FoldStep(FoldCommits(<<>>, C), b)
    <3>1. Refold!Fold(<<>>, Append(C, b)) = FoldStep(Refold!Fold(<<>>, C), b)
      BY Refold!FoldMore
    <3> QED BY <3>1, RefoldIs, Zenon
  <2>3. FoldStep(Records(C), b) = Records(Append(C, b))
    BY <2>1, FoldBatch
  <2> QED BY <1>2, <2>1, <2>2, <2>3, Zenon
<1> HIDE DEF G
<1>3. \A C \in Seq(Batches) : C \in G
  BY <1>1, <1>2, File!SeqInduct
<1> QED BY <1>3 DEF G

\* The folds of a recovery: commits are put into windows, windows are visited.
WindowStep(acc, commit) ==
  IF Len(commit) = 1 /\ IsSnapshot(commit[1])
  THEN [windows |-> Append(acc.windows,
          [snapshot |-> commit, commits |-> acc.commits]), commits |-> <<>>]
  ELSE [acc EXCEPT !.commits = <<commit>> \o @]
VisitStep(atStart, acc, w) ==
  IF acc.found \/ acc.stopped THEN acc
  ELSE IF w.snapshot # NoLines /\ w.snapshot[1].kind = "unusable"
  THEN [acc EXCEPT !.newer = w.commits \o @]
  ELSE IF w.snapshot = NoLines /\ ~atStart THEN [acc EXCEPT !.stopped = TRUE]
  ELSE [acc EXCEPT !.found = TRUE,
          !.state = FoldCommits(IF w.snapshot = NoLines THEN <<>> ELSE w.snapshot[1].state,
                                w.commits \o acc.newer)]
VisitFirst(acc, w) == VisitStep(TRUE, acc, w)
VisitLater(acc, w) == VisitStep(FALSE, acc, w)
Group == INSTANCE FoldFacts WITH Op <- WindowStep
First == INSTANCE FoldFacts WITH Op <- VisitFirst
Later == INSTANCE FoldFacts WITH Op <- VisitLater

Grouped(commits) == Group!Fold([windows |-> <<>>, commits |-> <<>>], commits)
Unvisited == [found |-> FALSE, stopped |-> FALSE, newer |-> <<>>, state |-> <<>>]
Visited(atStart, windows) == IF atStart THEN First!Fold(Unvisited, windows) ELSE Later!Fold(Unvisited, windows)
Window == [snapshot : Seq(Line), commits : Seq(Batches)]
AllWindows(a) == IF a.commits = <<>> THEN a.windows
                 ELSE Append(a.windows, [snapshot |-> NoLines, commits |-> a.commits])

LEMMA WindowsIs == \A lines : Windows(lines) = AllWindows(Grouped(CommitsReverse(lines)))
  BY Zenon DEF Windows, FoldLines, Group!Fold, Group!Chains, WindowStep, AllWindows, Grouped
LEMMA FirstIs == \A lines : FromWindows(lines, TRUE) = First!Fold(Unvisited, Windows(lines))
  BY Zenon DEF FromWindows, FoldLines, First!Fold, First!Chains, VisitFirst, VisitStep, Unvisited
LEMMA LaterIs == \A lines : FromWindows(lines, FALSE) = Later!Fold(Unvisited, Windows(lines))
  BY Zenon DEF FromWindows, FoldLines, Later!Fold, Later!Chains, VisitLater, VisitStep, Unvisited
LEMMA NearIs == \A lines : \A s \in BOOLEAN : FromWindows(lines, s) = Visited(s, AllWindows(Grouped(CommitsReverse(lines))))
<1> TAKE lines
<1>1. FromWindows(lines, TRUE) = Visited(TRUE, AllWindows(Grouped(CommitsReverse(lines))))
  BY FirstIs, WindowsIs, Zenon DEF Visited
<1>2. FromWindows(lines, FALSE) = Visited(FALSE, AllWindows(Grouped(CommitsReverse(lines))))
  BY LaterIs, WindowsIs, Zenon DEF Visited
<1> QED BY <1>1, <1>2

LEMMA VisitedNone == \A s \in BOOLEAN : Visited(s, <<>>) = Unvisited
  BY First!FoldNone, Later!FoldNone DEF Visited
LEMMA VisitedMore ==
  ASSUME NEW s \in BOOLEAN, NEW ws \in Seq(Window), NEW w \in Window
  PROVE  Visited(s, Append(ws, w)) = VisitStep(s, Visited(s, ws), w)
<1>1. First!Fold(Unvisited, Append(ws, w)) = VisitStep(TRUE, First!Fold(Unvisited, ws), w)
  BY First!FoldMore DEF VisitFirst
<1>2. Later!Fold(Unvisited, Append(ws, w)) = VisitStep(FALSE, Later!Fold(Unvisited, ws), w)
  BY Later!FoldMore DEF VisitLater
<1>3. CASE s = TRUE
  BY <1>1, <1>3, Zenon DEF Visited
<1>4. CASE s = FALSE
  BY <1>2, <1>4, Zenon DEF Visited
<1> QED BY <1>3, <1>4

\* What a visit does to its accumulator.
Yes == TRUE
No == FALSE
Seek(f, st, n, r) == [found |-> f, stopped |-> st, newer |-> n, state |-> r]
LEMMA SeekIs == \A f, st, n, r : /\ Seek(f, st, n, r).found = f /\ Seek(f, st, n, r).stopped = st
                                 /\ Seek(f, st, n, r).newer = n /\ Seek(f, st, n, r).state = r
  BY DEF Seek
FoundAt(acc, r) == [acc EXCEPT !.found = TRUE, !.state = r]
AddAt(acc, m) == [acc EXCEPT !.newer = m \o @]
StopAt(acc) == [acc EXCEPT !.stopped = TRUE]
LEMMA SeekMoves ==
  ASSUME NEW f, NEW st, NEW n, NEW r, NEW q, NEW m
  PROVE  /\ AddAt(Seek(f, st, n, r), m) = Seek(f, st, m \o n, r)
         /\ StopAt(Seek(f, st, n, r)) = Seek(f, Yes, n, r)
         /\ FoundAt(Seek(f, st, n, r), q) = Seek(Yes, st, n, q)
<1>e. PICK e : e = m \o n
  OBVIOUS
<1>s. PICK s : s = Seek(f, st, n, r)
  OBVIOUS
<1>1. s.newer = n /\ DOMAIN s = {"found", "stopped", "newer", "state"}
  BY <1>s DEF Seek
<1>2. [Seek(f, st, n, r) EXCEPT !.newer = e] = Seek(f, st, e, r)
  BY DEF Seek
<1>t. PICK t : t = TRUE
  OBVIOUS
<1>3. [Seek(f, st, n, r) EXCEPT !.stopped = t] = Seek(f, t, n, r)
  BY DEF Seek
<1>4. [Seek(f, st, n, r) EXCEPT !.found = t] = Seek(t, st, n, r)
  BY DEF Seek
<1>5. [Seek(t, st, n, r) EXCEPT !.state = q] = Seek(t, st, n, q)
  BY DEF Seek
<1>r. PICK x : x = s
  OBVIOUS
<1>6. [x EXCEPT !.found = t, !.state = q] = [[x EXCEPT !.found = t] EXCEPT !.state = q]
  BY <1>1, <1>r
<1>7. [x EXCEPT !.newer = m \o @] = [x EXCEPT !.newer = e]
  <2>1. x.newer = n
    BY <1>1, <1>r
  <2> QED BY <1>e, <2>1, Zenon
<1> QED BY <1>2, <1>3, <1>4, <1>5, <1>6, <1>7, <1>e, <1>r, <1>s, <1>t, Zenon DEF FoundAt, AddAt, StopAt, Yes

\* A window is taken over, ends the search or is passed over.
LEMMA VisitFound ==
  ASSUME NEW s, NEW n, NEW r, NEW w
  PROVE  VisitStep(s, Seek(Yes, No, n, r), w) = Seek(Yes, No, n, r)
<1>a. PICK acc : acc = Seek(Yes, No, n, r)
  OBVIOUS
<1>1. acc.found = Yes
  BY <1>a, SeekIs
<1>2. VisitStep(s, acc, w) = acc
  BY <1>1, Zenon DEF VisitStep, Yes
<1> QED BY <1>2, <1>a, Zenon

VisitsOn(s, n, r, x, c) ==
  LET v == VisitStep(s, Seek(No, No, n, r), [snapshot |-> x, commits |-> c])
  IN /\ x # NoLines /\ x[1].kind = "unusable" => v = Seek(No, No, c \o n, r)
     /\ x # NoLines /\ x[1].kind # "unusable" => v = Seek(Yes, No, n, FoldCommits(x[1].state, c \o n))
     /\ x = NoLines /\ s => v = Seek(Yes, No, n, FoldCommits(<<>>, c \o n))
     /\ x = NoLines /\ ~s => v = Seek(No, Yes, n, r)
LEMMA VisitIs ==
  ASSUME NEW s \in BOOLEAN, NEW n, NEW r, NEW x, NEW c
  PROVE  VisitsOn(s, n, r, x, c)
<1>a. PICK acc : acc = Seek(No, No, n, r)
  OBVIOUS
<1>w. PICK w : w = [snapshot |-> x, commits |-> c]
  OBVIOUS
<1>1. acc.found = No /\ acc.stopped = No /\ acc.newer = n
  BY <1>a, SeekIs
<1>2. w.snapshot = x /\ w.commits = c
  BY <1>w
<1>3. AddAt(acc, c) = Seek(No, No, c \o n, r) /\ StopAt(acc) = Seek(No, Yes, n, r) /\ \A q : FoundAt(acc, q) = Seek(Yes, No, n, q)
  <2>1. ASSUME NEW q PROVE /\ AddAt(Seek(No, No, n, r), c) = Seek(No, No, c \o n, r) /\ StopAt(Seek(No, No, n, r)) = Seek(No, Yes, n, r)
                           /\ FoundAt(Seek(No, No, n, r), q) = Seek(Yes, No, n, q)
    BY SeekMoves
  <2> QED BY <1>a, <2>1, Zenon
<1>4. ~acc.found /\ ~acc.stopped
  BY <1>1, Zenon DEF No
<1>5. VisitStep(s, acc, w) = IF x # NoLines /\ x[1].kind = "unusable" THEN AddAt(acc, c)
                             ELSE IF x = NoLines /\ ~s THEN StopAt(acc)
                             ELSE FoundAt(acc, FoldCommits(IF x = NoLines THEN <<>> ELSE x[1].state, c \o n))
  BY <1>1, <1>2, <1>4, Zenon DEF VisitStep, AddAt, StopAt, FoundAt
<1>6. x # NoLines /\ x[1].kind = "unusable" => VisitStep(s, acc, w) = Seek(No, No, c \o n, r)
  BY <1>3, <1>5, Zenon
<1>7. x # NoLines /\ x[1].kind # "unusable" => VisitStep(s, acc, w) = Seek(Yes, No, n, FoldCommits(x[1].state, c \o n))
  BY <1>3, <1>5, Zenon
<1>8. x = NoLines /\ s => VisitStep(s, acc, w) = Seek(Yes, No, n, FoldCommits(<<>>, c \o n))
  BY <1>3, <1>5, Zenon
<1>9. x = NoLines /\ ~s => VisitStep(s, acc, w) = Seek(No, Yes, n, r)
  <2>1. x = NoLines => ~(x # NoLines /\ x[1].kind = "unusable")
    OBVIOUS
  <2> QED BY <1>3, <1>5, <2>1, Zenon
<1> QED BY <1>6, <1>7, <1>8, <1>9, <1>a, <1>w, Zenon DEF VisitsOn

LEMMA FoldFirst ==
  ASSUME NEW q, NEW x \in Batches, NEW R \in Seq(Batches)
  PROVE  FoldCommits(q, <<x>> \o R) = FoldCommits(FoldStep(q, x), R)
<1>0. <<>> \in Seq(Batches) /\ <<x>> \in Seq(Batches) /\ Append(<<>>, x) = <<x>>
  OBVIOUS
<1>1. Refold!Fold(q, <<x>> \o R) = Refold!Fold(Refold!Fold(q, <<x>>), R)
  <2>y. PICK y \in Seq(Batches) : y = <<x>>
    BY <1>0
  <2>1. Refold!Fold(q, y \o R) = Refold!Fold(Refold!Fold(q, y), R)
    BY Refold!FoldJoin
  <2> QED BY <2>1, <2>y, Zenon
<1>2. Refold!Fold(q, Append(<<>>, x)) = FoldStep(Refold!Fold(q, <<>>), x)
  BY <1>0, Refold!FoldMore
<1>3. Refold!Fold(q, <<>>) = q
  BY Refold!FoldNone
<1> QED BY <1>0, <1>1, <1>2, <1>3, RefoldIs, Zenon

LEMMA FoldBoth ==
  ASSUME NEW q, NEW A \in Seq(Batches), NEW R \in Seq(Batches)
  PROVE  FoldCommits(q, A \o R) = FoldCommits(FoldCommits(q, A), R)
<1>1. Refold!Fold(q, A \o R) = Refold!Fold(Refold!Fold(q, A), R)
  BY Refold!FoldJoin
<1> QED BY <1>1, RefoldIs, Zenon

LEMMA ReverseFirst ==
  ASSUME NEW T \in Seq(Batches), NEW x \in Batches
  PROVE  Reverse(Append(T, x)) = <<x>> \o Reverse(T) /\ Reverse(T) \in Seq(Batches)
<1>0. Reverse(T) \in Seq(Batches) /\ Reverse(Append(T, x)) \in Seq(Batches)
  <2>1. Append(T, x) \in Seq(Batches)
    OBVIOUS
  <2> QED BY <2>1, ReverseIs
<1>1. Append(<<>>, x) \o Reverse(T) = <<>> \o Reverse(Append(T, x))
  <2>1. <<>> \in Seq(Batches)
    OBVIOUS
  <2> QED BY <2>1, ReverseMore
<1>2. \A R \in Seq(Batches) : <<>> \o R = R
  OBVIOUS
<1>3. Append(<<>>, x) = <<x>>
  OBVIOUS
<1> QED BY <1>0, <1>1, <1>2, <1>3, Zenon

LEMMA SoundPart == \A A \in Seq(Batches) : \A R \in Seq(Batches) : Sound(A \o R) => Sound(A)
<1> SUFFICES ASSUME NEW A \in Seq(Batches) PROVE \A R \in Seq(Batches) : Sound(A \o R) => Sound(A)
  OBVIOUS
<1> DEFINE G == {R \in Seq(Batches) : Sound(A \o R) => Sound(A)}
<1>1. <<>> \in G
  <2>1. A \o <<>> = A
    OBVIOUS
  <2>2. <<>> \in Seq(Batches)
    OBVIOUS
  <2> QED BY <2>1, <2>2, Zenon
<1>2. ASSUME NEW R \in Seq(Batches), NEW b \in Batches, R \in G PROVE Append(R, b) \in G
  <2> SUFFICES ASSUME Sound(A \o Append(R, b)) PROVE Sound(A)
    OBVIOUS
  <2>1. A \o Append(R, b) = Append(A \o R, b) /\ A \o R \in Seq(Batches)
    OBVIOUS
  <2>2. Sound(A \o R)
    BY <2>1, SoundMore
  <2> QED BY <1>2, <2>2
<1> HIDE DEF G
<1>3. \A R \in Seq(Batches) : R \in G
  BY <1>1, <1>2, File!SeqInduct
<1> QED BY <1>3 DEF G

\* A batch of one snapshot.
Lone(x) == Len(x) = 1 /\ IsSnapshot(x[1])
LEMMA LoneFold ==
  ASSUME NEW x \in Batches, Lone(x)
  PROVE  /\ x # NoLines /\ x[1].kind \in {"snapshot", "unusable"}
         /\ \A q : FoldStep(q, x) = IF x[1].kind = "unusable" THEN q ELSE x[1].state
<1>0. x \in Seq(Line) /\ Len(x) = 1 /\ x[1].kind \in {"snapshot", "unusable"}
  BY DEF Batches, Lone, IsSnapshot
<1>1. 1 \in 1..Len(x)
  BY <1>0
<1>2. x[1] \in Line
  <2>1. x \in Seq(Line)
    BY DEF Batches
  <2> QED BY <1>1, <2>1
<1>y. PICK y \in Line : y = x[1]
  BY <1>2
<1>3. x = Append(<<>>, y) /\ <<>> \in Seq(Line)
  BY <1>0, <1>y
<1>4. ASSUME NEW q PROVE FoldStep(q, x) = IF x[1].kind = "unusable" THEN q ELSE x[1].state
  <2>1. Apply!Fold(q, Append(<<>>, y)) = ApplyEnvelope(Apply!Fold(q, <<>>), y)
    BY <1>3, Apply!FoldMore
  <2>2. Apply!Fold(q, <<>>) = q
    BY Apply!FoldNone
  <2>3. FoldStep(q, x) = ApplyEnvelope(q, y)
    BY <1>3, <2>1, <2>2, ApplyIs, Zenon
  <2>4. CASE y.kind = "unusable"
    <3>1. y.kind # "snapshot"
      BY <2>4
    <3>2. ApplyEnvelope(q, y) = q
      BY <2>4, <3>1, Zenon DEF ApplyEnvelope
    <3> QED BY <1>y, <2>3, <2>4, <3>2, Zenon
  <2>5. CASE y.kind = "snapshot"
    <3>1. y.kind # "unusable"
      BY <2>5
    <3>2. ApplyEnvelope(q, y) = y.state
      BY <2>5, Zenon DEF ApplyEnvelope
    <3> QED BY <1>y, <2>3, <3>1, <3>2, Zenon
  <2> QED BY <1>0, <1>y, <2>4, <2>5
<1>5. x # NoLines
  <2>1. Len(x) # 0
    BY <1>0
  <2>2. Len(<<>>) = 0
    OBVIOUS
  <2> QED BY <2>1, <2>2, Zenon DEF NoLines
<1> QED BY <1>0, <1>4, <1>5

LEMMA SoundLone ==
  ASSUME NEW C \in Seq(Batches), NEW x \in Batches, SoundNext(C, x), Lone(x)
  PROVE  x[1].state = Records(C)
<1>1. CASE Len(x) = 1 /\ IsSnapshot(x[1]) /\ x[1].state = Records(C)
  BY <1>1
<1>2. CASE Len(x) > 0 /\ \A i \in 1..Len(x) : x[i].kind = IF i = 1 /\ Records(C) = <<>> THEN "created" ELSE "event"
  <2>1. 1 \in 1..Len(x)
    BY DEF Lone
  <2>2. x[1].kind \in {"created", "event"}
    BY <1>2, <2>1
  <2>3. x[1].kind \in {"snapshot", "unusable"}
    BY LoneFold
  <2> QED BY <2>2, <2>3
<1> QED BY <1>1, <1>2 DEF SoundNext

\* The windows so far.
Gathered(ws, cs) == [windows |-> ws, commits |-> cs]
LEMMA GroupStep ==
  ASSUME NEW ws, NEW cs, NEW x
  PROVE  WindowStep(Gathered(ws, cs), x) = IF Lone(x) THEN Gathered(Append(ws, [snapshot |-> x, commits |-> cs]), <<>>)
                                           ELSE Gathered(ws, <<x>> \o cs)
<1>a. PICK acc : acc = Gathered(ws, cs)
  OBVIOUS
<1>1. acc.windows = ws /\ acc.commits = cs
  BY <1>a DEF Gathered
<1>e. PICK e : e = <<x>> \o cs
  OBVIOUS
<1>2. [Gathered(ws, cs) EXCEPT !.commits = e] = Gathered(ws, e)
  BY DEF Gathered
<1>3. [acc EXCEPT !.commits = <<x>> \o @] = Gathered(ws, e)
  <2>1. [acc EXCEPT !.commits = <<x>> \o @] = [acc EXCEPT !.commits = e]
    BY <1>1, <1>e, Zenon
  <2> QED BY <1>2, <1>a, <2>1, Zenon
<1>4. CASE Lone(x)
  <2>1. WindowStep(acc, x) = [windows |-> Append(acc.windows, [snapshot |-> x, commits |-> acc.commits]), commits |-> <<>>]
    BY <1>4, Zenon DEF WindowStep, Lone
  <2> QED BY <1>1, <1>4, <1>a, <2>1, Zenon DEF Gathered
<1>5. CASE ~Lone(x)
  <2>1. WindowStep(acc, x) = [acc EXCEPT !.commits = <<x>> \o @]
    BY <1>5, Zenon DEF WindowStep, Lone
  <2> QED BY <1>3, <1>5, <1>a, <1>e, <2>1, Zenon
<1> QED BY <1>4, <1>5

LEMMA GroupMore ==
  ASSUME NEW T \in Seq(Batches), NEW x \in Batches
  PROVE  Grouped(Append(T, x)) = WindowStep(Grouped(T), x)
  BY Group!FoldMore DEF Grouped

\* What the windows of the newest commits T of a log L are good for.
RecoverAt(s, L, T, ws, cs, n, r) ==
  /\ ws \in Seq(Window) /\ cs \in Seq(Batches) /\ n \in Seq(Batches)
  /\ Grouped(T) = Gathered(ws, cs)
  /\ \/ Visited(s, ws) = Seek(Yes, No, n, r) /\ r = FoldCommits(<<>>, L)
     \/ Visited(s, ws) = Seek(No, No, n, r) /\ \A q : FoldCommits(q, cs \o n) = FoldCommits(q, Reverse(T))
Recovers(s, L, T) == \E ws, cs, n, r : RecoverAt(s, L, T, ws, cs, n, r)

LEMMA RecoverNone == ASSUME NEW s \in BOOLEAN, NEW L PROVE Recovers(s, L, <<>>)
<1>1. Grouped(<<>>) = Gathered(<<>>, <<>>)
  BY Group!FoldNone DEF Grouped, Gathered
<1>2. Visited(s, <<>>) = Seek(No, No, <<>>, <<>>)
  BY VisitedNone, Zenon DEF Unvisited, Seek, No
<1>3. <<>> \in Seq(Window) /\ <<>> \in Seq(Batches) /\ <<>> \o <<>> = <<>> /\ Reverse(<<>>) = <<>>
  <2>1. <<>> \in Seq(Batches) /\ <<>> \in Seq(Window) /\ <<>> \o <<>> = <<>> /\ Len(<<>>) = 0
    OBVIOUS
  <2>2. Reverse(<<>>) \in Seq(Batches) /\ Len(Reverse(<<>>)) = Len(<<>>)
    BY <2>1, ReverseIs
  <2>3. \A R \in Seq(Batches) : Len(R) = 0 => R = <<>>
    OBVIOUS
  <2> QED BY <2>1, <2>2, <2>3, Zenon
<1>4. RecoverAt(s, L, <<>>, <<>>, <<>>, <<>>, <<>>)
  BY <1>1, <1>2, <1>3, Zenon DEF RecoverAt
<1> QED BY <1>4 DEF Recovers

LEMMA RecoverStep ==
  ASSUME NEW s \in BOOLEAN, NEW X \in Seq(Batches), NEW T \in Seq(Batches), NEW x \in Batches, NEW L,
         L = X \o Reverse(Append(T, x)), SoundNext(X, x), Sound(X), Recovers(s, L, T)
  PROVE  Recovers(s, L, Append(T, x))
<1>p. PICK ws, cs, n, r : RecoverAt(s, L, T, ws, cs, n, r)
  BY DEF Recovers
<1>0. ws \in Seq(Window) /\ cs \in Seq(Batches) /\ n \in Seq(Batches) /\ Grouped(T) = Gathered(ws, cs)
  BY <1>p, Zenon DEF RecoverAt
<1>T. PICK U : U = Append(T, x)
  OBVIOUS
<1>R. PICK R \in Seq(Batches) : R = Reverse(T)
  BY ReverseFirst
<1>1. Reverse(U) = <<x>> \o R /\ U \in Seq(Batches)
  <2>1. Append(T, x) \in Seq(Batches)
    OBVIOUS
  <2> QED BY <1>R, <1>T, <2>1, ReverseFirst, Zenon
<1>2. ASSUME NEW q PROVE FoldCommits(q, Reverse(U)) = FoldCommits(FoldStep(q, x), R)
  BY <1>1, FoldFirst, Zenon
<1>3. Grouped(U) = WindowStep(Gathered(ws, cs), x)
  BY <1>0, <1>T, GroupMore, Zenon
<1>4. CASE ~Lone(x)
  <2>1. Grouped(U) = Gathered(ws, <<x>> \o cs)
    BY <1>3, <1>4, GroupStep, Zenon
  <2>2. <<x>> \o cs \in Seq(Batches) /\ (<<x>> \o cs) \o n = <<x>> \o (cs \o n) /\ cs \o n \in Seq(Batches)
    BY <1>0
  <2>3. CASE Visited(s, ws) = Seek(Yes, No, n, r) /\ r = FoldCommits(<<>>, L)
    <3>1. RecoverAt(s, L, U, ws, <<x>> \o cs, n, r)
      BY <1>0, <2>1, <2>2, <2>3, Zenon DEF RecoverAt
    <3> QED BY <1>T, <3>1 DEF Recovers
  <2>4. CASE Visited(s, ws) = Seek(No, No, n, r) /\ \A q : FoldCommits(q, cs \o n) = FoldCommits(q, Reverse(T))
    <3>1. ASSUME NEW q PROVE FoldCommits(q, (<<x>> \o cs) \o n) = FoldCommits(q, Reverse(U))
      <4>1. FoldCommits(q, <<x>> \o (cs \o n)) = FoldCommits(FoldStep(q, x), cs \o n)
        BY <2>2, FoldFirst
      <4> QED BY <1>2, <1>R, <2>2, <2>4, <4>1, Zenon
    <3>2. RecoverAt(s, L, U, ws, <<x>> \o cs, n, r)
      BY <1>0, <2>1, <2>2, <2>4, <3>1, Zenon DEF RecoverAt
    <3> QED BY <1>T, <3>2 DEF Recovers
  <2> QED BY <1>p, <2>3, <2>4, Zenon DEF RecoverAt
<1>5. CASE Lone(x)
  <2>w. PICK w : w = [snapshot |-> x, commits |-> cs]
    OBVIOUS
  <2>1. w \in Window
    BY <1>0, <2>w DEF Window, Batches
  <2>V. PICK V \in Seq(Window) : V = Append(ws, w)
    <3>1. Append(ws, w) \in Seq(Window)
      BY <1>0, <2>1
    <3> QED BY <3>1
  <2>2. Grouped(U) = Gathered(V, <<>>)
    BY <1>3, <1>5, <2>V, <2>w, GroupStep, Zenon
  <2>3. Visited(s, V) = VisitStep(s, Visited(s, ws), w)
    BY <1>0, <2>1, <2>V, VisitedMore
  <2>4. <<>> \in Seq(Batches) /\ cs \o n \in Seq(Batches) /\ <<>> \o (cs \o n) = cs \o n
    BY <1>0
  <2>5. x # NoLines /\ x[1].kind \in {"snapshot", "unusable"}
        /\ \A q : FoldStep(q, x) = IF x[1].kind = "unusable" THEN q ELSE x[1].state
    BY <1>5, LoneFold
  <2>6. CASE Visited(s, ws) = Seek(Yes, No, n, r) /\ r = FoldCommits(<<>>, L)
    <3>v. VisitStep(s, Seek(Yes, No, n, r), w) = Seek(Yes, No, n, r)
      BY VisitFound
    <3>1. Visited(s, V) = Seek(Yes, No, n, r)
      BY <2>3, <2>6, <3>v, Zenon
    <3>2. RecoverAt(s, L, U, V, <<>>, n, r)
      BY <1>0, <2>2, <2>4, <2>6, <3>1, Zenon DEF RecoverAt
    <3> QED BY <1>T, <3>2 DEF Recovers
  <2>7. CASE Visited(s, ws) = Seek(No, No, n, r) /\ \A q : FoldCommits(q, cs \o n) = FoldCommits(q, Reverse(T))
    <3>0. VisitsOn(s, n, r, x, cs)
      BY VisitIs
    <3>1. CASE x[1].kind = "unusable"
      <4>1. Visited(s, V) = Seek(No, No, cs \o n, r)
        BY <2>3, <2>5, <2>7, <2>w, <3>0, <3>1, Zenon DEF VisitsOn
      <4>2. ASSUME NEW q PROVE FoldCommits(q, <<>> \o (cs \o n)) = FoldCommits(q, Reverse(U))
        <5>1. FoldStep(q, x) = q
          BY <2>5, <3>1, Zenon
        <5> QED BY <1>2, <1>R, <2>4, <2>7, <5>1, Zenon
      <4>3. RecoverAt(s, L, U, V, <<>>, cs \o n, r)
        BY <2>2, <2>4, <4>1, <4>2, Zenon DEF RecoverAt
      <4> QED BY <1>T, <4>3 DEF Recovers
    <3>2. CASE x[1].kind # "unusable"
      <4>v. PICK v : v = FoldCommits(x[1].state, cs \o n)
        OBVIOUS
      <4>1. Visited(s, V) = Seek(Yes, No, n, v)
        BY <2>3, <2>5, <2>7, <2>w, <3>0, <3>2, <4>v, Zenon DEF VisitsOn
      <4>2. x[1].state = FoldCommits(<<>>, X)
        BY <1>5, SoundLone, SoundFold, Zenon
      <4>3. FoldStep(FoldCommits(<<>>, X), x) = FoldCommits(<<>>, X)
        BY <2>5, <3>2, <4>2, Zenon
      <4>4. FoldCommits(<<>>, X \o Reverse(U)) = FoldCommits(FoldCommits(<<>>, X), Reverse(U))
        <5>1. Reverse(U) \in Seq(Batches)
          BY <1>1, ReverseIs
        <5> QED BY <5>1, FoldBoth
      <4>5. v = FoldCommits(<<>>, L)
        BY <1>2, <1>R, <1>T, <2>7, <4>2, <4>3, <4>4, <4>v, Zenon
      <4>6. RecoverAt(s, L, U, V, <<>>, n, v)
        BY <1>0, <2>2, <2>4, <4>1, <4>5, Zenon DEF RecoverAt
      <4> QED BY <1>T, <4>6 DEF Recovers
    <3> QED BY <3>1, <3>2
  <2> QED BY <1>p, <2>6, <2>7, Zenon DEF RecoverAt
<1> QED BY <1>4, <1>5

\* The windows of the newest commits tell the state, or leave it to the rest of the log.
LEMMA RecoverAll ==
  ASSUME NEW s \in BOOLEAN
  PROVE  \A T \in Seq(Batches) : \A X \in Seq(Batches) : Sound(X \o Reverse(T)) => Recovers(s, X \o Reverse(T), T)
<1> DEFINE G == {T \in Seq(Batches) : \A X \in Seq(Batches) : Sound(X \o Reverse(T)) => Recovers(s, X \o Reverse(T), T)}
<1>1. <<>> \in G
  <2>1. <<>> \in Seq(Batches)
    OBVIOUS
  <2> QED BY <2>1, RecoverNone, Zenon
<1>2. ASSUME NEW T \in Seq(Batches), NEW x \in Batches, T \in G PROVE Append(T, x) \in G
  <2> SUFFICES ASSUME NEW X \in Seq(Batches), Sound(X \o Reverse(Append(T, x)))
               PROVE  Recovers(s, X \o Reverse(Append(T, x)), Append(T, x))
    OBVIOUS
  <2>L. PICK L : L = X \o Reverse(Append(T, x))
    OBVIOUS
  <2>1. Append(X, x) \o Reverse(T) = L /\ Append(X, x) \in Seq(Batches) /\ Reverse(T) \in Seq(Batches)
    <3>1. Append(X, x) \o Reverse(T) = X \o Reverse(Append(T, x))
      BY ReverseMore
    <3>2. Append(X, x) \in Seq(Batches)
      OBVIOUS
    <3>3. Reverse(T) \in Seq(Batches)
      BY ReverseIs
    <3> QED BY <2>L, <3>1, <3>2, <3>3
  <2>2. Sound(Append(X, x) \o Reverse(T))
    BY <2>1, <2>L, Zenon
  <2>3. Recovers(s, Append(X, x) \o Reverse(T), T)
    BY <1>2, <2>1, <2>2, Zenon
  <2>4. Sound(X) /\ SoundNext(X, x)
    <3>1. Sound(Append(X, x))
      BY <2>1, <2>2, SoundPart
    <3> QED BY <3>1, SoundMore
  <2>5. Recovers(s, L, T)
    BY <2>1, <2>3, Zenon
  <2>6. Recovers(s, L, Append(T, x))
    BY <2>4, <2>5, <2>L, RecoverStep
  <2> QED BY <2>6, <2>L, Zenon
<1> HIDE DEF G
<1>3. \A T \in Seq(Batches) : T \in G
  BY <1>1, <1>2, File!SeqInduct
<1> QED BY <1>3 DEF G

\* What is found is the state v.
Tells(F, v) == F.found => F.state = v
LEMMA TellsIs == \A b, n, r : Tells(Seek(Yes, b, n, r), r) /\ \A v : Tells(Seek(No, b, n, r), v)
<1>1. ASSUME NEW b, NEW n, NEW r PROVE Tells(Seek(Yes, b, n, r), r)
  BY SeekIs DEF Tells
<1>2. ASSUME NEW b, NEW n, NEW r, NEW v PROVE Tells(Seek(No, b, n, r), v)
  <2>1. Seek(No, b, n, r).found = No
    BY SeekIs
  <2>2. ~Seek(No, b, n, r).found
    BY <2>1, Zenon DEF No
  <2> QED BY <2>2, Zenon DEF Tells
<1> QED BY <1>1, <1>2

\* Reading back from a file of the log recovers what the whole log folds to, or nothing.
LEMMA NearExact ==
  ASSUME NEW s \in BOOLEAN, NEW lines, Formed(lines), NEW X \in Seq(Batches), Sound(X \o Whole(lines)), s => X = <<>>
  PROVE  Tells(FromWindows(lines, s), FoldCommits(<<>>, X \o Whole(lines)))
<1>T. PICK T \in Seq(Batches) : T = CommitsReverse(lines)
  BY FileBack
<1>L. PICK L : L = X \o Whole(lines)
  OBVIOUS
<1>1. Reverse(T) = Whole(lines) /\ L = X \o Reverse(T) /\ Whole(lines) \in Seq(Batches)
  <2>1. Reverse(T) = Whole(lines)
    BY <1>T, FileBack
  <2>2. Whole(lines) \in Seq(Batches)
    BY FileAhead
  <2> QED BY <1>L, <2>1, <2>2, Zenon
<1>2. Recovers(s, L, T)
  <2>1. Sound(X \o Reverse(T))
    BY <1>1, Zenon
  <2>2. Recovers(s, X \o Reverse(T), T)
    BY <2>1, RecoverAll
  <2> QED BY <1>1, <2>2, Zenon
<1>p. PICK ws, cs, n, r : RecoverAt(s, L, T, ws, cs, n, r)
  BY <1>2 DEF Recovers
<1>0. ws \in Seq(Window) /\ cs \in Seq(Batches) /\ n \in Seq(Batches) /\ Grouped(T) = Gathered(ws, cs)
  BY <1>p, Zenon DEF RecoverAt
<1>W. PICK W : W = IF cs = <<>> THEN ws ELSE Append(ws, [snapshot |-> NoLines, commits |-> cs])
  OBVIOUS
<1>3. AllWindows(Grouped(T)) = W
  <2>1. Gathered(ws, cs).commits = cs /\ Gathered(ws, cs).windows = ws
    BY DEF Gathered
  <2> QED BY <1>0, <1>W, <2>1, Zenon DEF AllWindows
<1>F. PICK F : F = FromWindows(lines, s)
  OBVIOUS
<1>4. F = Visited(s, W)
  BY <1>3, <1>F, <1>T, NearIs, Zenon
<1>7. CASE cs = <<>>
  <2>1. F = Visited(s, ws)
    BY <1>4, <1>7, <1>W, Zenon
  <2>2. CASE Visited(s, ws) = Seek(Yes, No, n, r) /\ r = FoldCommits(<<>>, L)
    BY TellsIs, <1>F, <1>L, <2>1, <2>2, Zenon
  <2>3. CASE Visited(s, ws) = Seek(No, No, n, r)
    BY TellsIs, <1>F, <2>1, <2>3, Zenon
  <2> QED BY <1>p, <2>2, <2>3, Zenon DEF RecoverAt
<1>8. CASE cs # <<>>
  <2>w. PICK w : w = [snapshot |-> NoLines, commits |-> cs]
    OBVIOUS
  <2>1. w \in Window
    <3>1. NoLines \in Seq(Line)
      BY DEF NoLines
    <3> QED BY <1>0, <2>w, <3>1 DEF Window
  <2>2. F = VisitStep(s, Visited(s, ws), w)
    <3>1. Visited(s, Append(ws, w)) = VisitStep(s, Visited(s, ws), w)
      BY <1>0, <2>1, VisitedMore
    <3> QED BY <1>4, <1>8, <1>W, <2>w, <3>1, Zenon
  <2>3. CASE Visited(s, ws) = Seek(Yes, No, n, r) /\ r = FoldCommits(<<>>, L)
    <3>1. F = Seek(Yes, No, n, r)
      BY <2>2, <2>3, VisitFound, ZenonT(40)
    <3> QED BY TellsIs, <1>F, <1>L, <2>3, <3>1, Zenon
  <2>4. CASE Visited(s, ws) = Seek(No, No, n, r) /\ \A q : FoldCommits(q, cs \o n) = FoldCommits(q, Reverse(T))
    <3>0. VisitsOn(s, n, r, NoLines, cs)
      BY VisitIs
    <3>1. CASE s
      <4>1. F = Seek(Yes, No, n, FoldCommits(<<>>, cs \o n))
        BY <2>2, <2>4, <2>w, <3>0, <3>1, Zenon DEF VisitsOn
      <4>2. X \o Whole(lines) = Whole(lines)
        BY <1>1, <3>1
      <4>3. FoldCommits(<<>>, cs \o n) = FoldCommits(<<>>, L)
        BY <1>1, <1>L, <2>4, <4>2, Zenon
      <4> QED BY TellsIs, <1>F, <1>L, <4>1, <4>3, Zenon
    <3>2. CASE ~s
      <4>1. F = Seek(No, Yes, n, r)
        BY <2>2, <2>4, <2>w, <3>0, <3>2, Zenon DEF VisitsOn
      <4> QED BY TellsIs, <1>F, <4>1, Zenon
    <3> QED BY <3>1, <3>2
  <2> QED BY <1>p, <2>3, <2>4, Zenon DEF RecoverAt
<1> QED BY <1>7, <1>8

\* A recovery folds the events of the log, from whichever origin it starts.
LEMMA RecoveredExact ==
  ASSUME NEW P, NEW Q, Tidy(P, Q), Sound(LogOf(P, Q))
  PROVE  Recovered(P, Q) = Records(LogOf(P, Q)) /\ LogOf(P, Q) \in Seq(Batches)
<1>a. PICK a : a = Active(P)
  OBVIOUS
<1>0. /\ a \in Nat /\ Latest(P, Q) = a /\ (\A n \in Names(P, Q) : n <= a)
      /\ (DOMAIN P # {} => a \in DOMAIN P) /\ (DOMAIN P = {} => Names(P, Q) = {} /\ a = 0)
  BY <1>a, ActiveIs
<1>1. CASE DOMAIN P = {}
  <2>1. AllFiles(P, Q) = <<>>
    <3>1. FilesOf(P, Q, Names(P, Q)) \in Seq(Seq(Line)) /\ Len(FilesOf(P, Q, Names(P, Q))) = Len(Ascending(Names(P, Q)))
      BY LinesAre, FilesAre
    <3>2. Ascends({}, Ascending({}))
      <4>1. {} \subseteq 1..MaxSeq
        OBVIOUS
      <4> QED BY <4>1, MaxSeqIs, AscendingIs
    <3>3. Len(Ascending({})) = 0
      <4>1. Len(Ascending({})) = Cardinality({})
        BY <3>2 DEF Ascends
      <4> QED BY <4>1, FS_EmptySet
    <3>4. Names(P, Q) = {}
      BY <1>0, <1>1
    <3>5. \A F \in Seq(Seq(Line)) : Len(F) = 0 => F = <<>>
      OBVIOUS
    <3> QED BY <3>1, <3>3, <3>4, <3>5, AllFilesIs, Zenon
  <2>2. LogOf(P, Q) = <<>>
    BY <2>1, ChainNone, Zenon DEF LogOf
  <2>3. Recovered(P, Q) = <<>>
    BY <1>1, Zenon DEF Recovered
  <2>4. <<>> \in Seq(Batches)
    OBVIOUS
  <2> QED BY <2>2, <2>3, <2>4, RecordsNone, Zenon
<1>2. CASE DOMAIN P # {}
  <2>0. a \in DOMAIN P /\ a \in Names(P, Q)
    BY <1>0, <1>2 DEF Names
  <2>S. PICK S : S = Names(P, Q) \ {a}
    OBVIOUS
  <2>n. Names(P, Q) \subseteq 1..MaxSeq /\ Names(P, Q) \subseteq Nat
    <3>1. 1..MaxSeq \subseteq Nat
      BY MaxSeqIs
    <3> QED BY <3>1, LinesAre
  <2>1. Names(P, Q) = S \cup {a} /\ \A n \in S : n < a
    <3>1. ASSUME NEW n \in S PROVE n < a
      <4>1. n \in Nat /\ n <= a /\ n # a
        BY <1>0, <2>S, <2>n
      <4> QED BY <1>0, <4>1
    <3> QED BY <2>0, <2>S, <3>1
  <2>l. PICK lines : lines = LinesOf(P, Q, a)
    OBVIOUS
  <2>X. PICK X : X = CommitsForward(FilesOf(P, Q, S))
    OBVIOUS
  <2>2. LogOf(P, Q) = X \o Whole(lines) /\ X \in Seq(Batches) /\ Formed(lines)
    BY <2>1, <2>X, <2>l, LogLast
  <2>3. a = 1 => X = <<>>
    <3> SUFFICES ASSUME a = 1 PROVE X = <<>>
      OBVIOUS
    <3>1. S = {}
      <4>1. ASSUME NEW n \in S PROVE FALSE
        <5>1. n \in 1..MaxSeq /\ n < 1
          BY <2>1, <2>S, <2>n
        <5> QED BY <5>1, MaxSeqIs
      <4> QED BY <4>1
    <3>2. {} \subseteq 1..MaxSeq
      OBVIOUS
    <3>3. Ascends({}, Ascending({}))
      BY <3>2, MaxSeqIs, AscendingIs
    <3>4. Len(Ascending({})) = 0
      <4>1. Len(Ascending({})) = Cardinality({})
        BY <3>3 DEF Ascends
      <4> QED BY <4>1, FS_EmptySet
    <3>5. FilesOf(P, Q, {}) \in Seq(Seq(Line)) /\ Len(FilesOf(P, Q, {})) = Len(Ascending({}))
      BY <3>2, FilesAre
    <3>6. \A F \in Seq(Seq(Line)) : Len(F) = 0 => F = <<>>
      OBVIOUS
    <3>7. FilesOf(P, Q, {}) = <<>>
      BY <3>4, <3>5, <3>6, Zenon
    <3> QED BY <2>X, <3>1, <3>7, ChainNone, Zenon
  <2>s. PICK s \in BOOLEAN : s <=> (a = 1)
    OBVIOUS
  <2>F. PICK F : F = FromWindows(lines, s)
    OBVIOUS
  <2>4. F.found => F.state = FoldCommits(<<>>, LogOf(P, Q))
    <3>1. Sound(X \o Whole(lines)) /\ (s => X = <<>>)
      BY <2>2, <2>3, <2>s, Zenon
    <3>2. Tells(FromWindows(lines, s), FoldCommits(<<>>, X \o Whole(lines)))
      BY <2>2, <3>1, NearExact
    <3> QED BY <2>2, <2>F, <3>2, Zenon DEF Tells
  <2>5. X \o Whole(lines) \in Seq(Batches)
    <3>1. Whole(lines) \in Seq(Batches)
      BY <2>2, FileAhead
    <3> QED BY <2>2, <3>1
  <2>6. FoldCommits(<<>>, LogOf(P, Q)) = Records(LogOf(P, Q)) /\ LogOf(P, Q) \in Seq(Batches)
    <3>1. LogOf(P, Q) \in Seq(Batches)
      BY <2>2, <2>5, Zenon
    <3> QED BY <3>1, SoundFold
  <2>7. Recovered(P, Q) = IF F.found THEN F.state ELSE FoldCommits(<<>>, CommitsForward(AllFiles(P, Q)))
    <3>1. FromWindows(LinesOf(P, Q, Latest(P, Q)), Latest(P, Q) = 1) = F
      <4>1. s = (Latest(P, Q) = 1)
        BY <1>0, <2>s, Zenon
      <4> QED BY <1>0, <2>F, <2>l, <4>1, Zenon
    <3> QED BY <1>0, <2>0, <3>1, Zenon DEF Recovered
  <2> QED BY <2>4, <2>6, <2>7, Zenon DEF LogOf
<1> QED BY <1>1, <1>2

\* What the writer, its job and its memory are at every moment, given the plain files P and
\* the log L; what the compressor is about.
Appending(P, L, j, w) ==
  w = "busy" =>
    /\ j = [name |-> j.name, lines |-> j.lines, done |-> j.done]
    /\ j.name = Active(P) /\ j.name \in DOMAIN P
    /\ OneBatch(j.lines) /\ j.done \in 0..Len(j.lines)
    /\ Grows(P[j.name].lines, j.lines, j.done, j.name)
    /\ j.done < Len(j.lines) => SoundNext(L, j.lines)
Remembers(P, w, c) ==
  /\ c \in Nat
  /\ w = "ready" /\ c # 0 =>
       Active(P) \in DOMAIN P /\ P[Active(P)].lines # <<>> /\ Last(P[Active(P)].lines).seq = c
  /\ w \in {"unsure", "lost"} => c = 0
Folded(L, w, j, st, wr) ==
  /\ w \in {"ready", "busy", "unsure", "lost"} /\ (w # "busy" => j = NoJob)
  /\ st \in Seq(Nat) /\ wr \in Seq(Nat)
  /\ Sound(L) /\ Records(L) = wr
  /\ w = "ready" => st = wr
  /\ w = "busy" => IF j.done < Len(j.lines) THEN st = wr ELSE wr = st \o Records(<<j.lines>>)
  /\ w \in {"unsure", "lost"} => st = <<>>
  /\ w = "lost" => wr = <<>>
Compressing(P, Q, c) ==
  /\ c \in [pc : {"wait", "list", "check", "packed", "renamed"}, active : Nat, todo : SUBSET Nat]
  /\ c.todo \subseteq DOMAIN P
  /\ c.pc \in {"packed", "renamed"} => c.todo # {} /\ Min(c.todo) < Active(P)
  /\ c.pc = "renamed" => Min(c.todo) \in DOMAIN Q
SInv ==
  /\ Tidy(plain, packed)
  /\ Appending(plain, LogOf(plain, packed), job, writer)
  /\ Remembers(plain, writer, cache)
  /\ Folded(LogOf(plain, packed), writer, job, state, written)
  /\ Compressing(plain, packed, comp)

\* The lines of a new batch.
LEMMA BatchIs ==
  ASSUME NEW base \in Nat, NEW count \in Nat, 1 <= count, base + count <= MaxSeq, NEW kind \in LineKinds, NEW st \in Seq(Nat)
  PROVE  /\ OneBatch(Batch(base, count, kind, st)) /\ Len(Batch(base, count, kind, st)) = count
         /\ Batch(base, count, kind, st)[1].seq = base + 1
         /\ \A i \in 1..count : /\ Batch(base, count, kind, st)[i].kind = IF kind = "created" /\ i > 1 THEN "event" ELSE kind
                                /\ Batch(base, count, kind, st)[i].state = IF kind \in {"snapshot", "unusable"} THEN st ELSE <<>>
<1> DEFINE knd(i) == IF kind = "created" /\ i > 1 THEN "event" ELSE kind
           ste == IF kind \in {"snapshot", "unusable"} THEN st ELSE <<>>
           line(i) == [seq |-> base + i, index |-> i - 1, count |-> count, kind |-> knd(i), state |-> ste]
<1>b. PICK b : b = [i \in 1..count |-> line(i)]
  OBVIOUS
<1>1. Batch(base, count, kind, st) = b
  BY <1>b, Zenon DEF Batch
<1>2. \A i \in 1..count : b[i] = line(i)
  BY <1>b
<1>3. ste \in Seq(Nat)
  OBVIOUS
<1>4. \A i \in 1..count : knd(i) \in LineKinds
  BY DEF LineKinds
<1>5. ASSUME NEW i \in 1..count PROVE line(i) \in Line /\ line(i).seq = base + i /\ line(i).index = i - 1 /\ line(i).count = count
                                      /\ line(i).kind = knd(i) /\ line(i).state = ste
  <2>k. PICK k \in LineKinds : k = knd(i)
    BY <1>4
  <2>s. PICK s \in Seq(Nat) : s = ste
    BY <1>3
  <2>n. PICK n \in Nat : n = base + i
    OBVIOUS
  <2>m. PICK m \in Nat : m = i - 1
    OBVIOUS
  <2> HIDE DEF knd, ste
  <2>1. [seq |-> n, index |-> m, count |-> count, kind |-> k, state |-> s] \in Line
    BY DEF Line
  <2>2. line(i) = [seq |-> n, index |-> m, count |-> count, kind |-> k, state |-> s]
    BY <2>k, <2>m, <2>n, <2>s, Zenon
  <2>3. line(i).seq = base + i /\ line(i).index = i - 1 /\ line(i).count = count
        /\ line(i).kind = knd(i) /\ line(i).state = ste
    BY Zenon
  <2> QED BY <2>1, <2>2, <2>3, Zenon
<1> HIDE DEF line, knd, ste
<1>6. b \in Seq(Line) /\ Len(b) = count
  BY <1>5, <1>b
<1>7. ASSUME NEW i \in 1..count
      PROVE  b[i].index = i - 1 /\ b[i].count = count /\ b[i].seq = base + i /\ b[i].kind = knd(i) /\ b[i].state = ste
  BY <1>2, <1>5, Zenon
<1>8. ASSUME NEW i \in 1..count
      PROVE  b[i].seq \in 1..MaxSeq /\ (i > 1 => b[i].seq = b[i - 1].seq + 1)
  <2>1. b[i].seq = base + i
    BY <1>7
  <2>2. base + i \in 1..MaxSeq
    BY MaxSeqIs
  <2>3. ASSUME i > 1 PROVE b[i].seq = b[i - 1].seq + 1
    <3>1. i - 1 \in 1..count
      BY <2>3
    <3>2. b[i - 1].seq = base + (i - 1)
      BY <1>7, <3>1
    <3>3. base + i = (base + (i - 1)) + 1
      OBVIOUS
    <3> QED BY <2>1, <3>2, <3>3, Zenon
  <2> QED BY <2>1, <2>2, <2>3, Zenon
<1>9. OneBatch(b)
  <2>1. b # <<>>
    BY <1>6
  <2>2. \A i \in 1..Len(b) : /\ b[i].index = i - 1 /\ b[i].count = Len(b) /\ b[i].seq \in 1..MaxSeq
                             /\ i > 1 => b[i].seq = b[i - 1].seq + 1
    BY <1>6, <1>7, <1>8, Zenon
  <2> QED BY <1>6, <2>1, <2>2 DEF OneBatch
<1>10. 1 \in 1..count
  OBVIOUS
<1>11. b[1].seq = base + 1
  BY <1>7, <1>10
<1> QED BY <1>1, <1>6, <1>7, <1>9, <1>11, Zenon DEF knd, ste

LEMMA EventsSound ==
  ASSUME NEW base \in Nat, NEW count \in Nat, 1 <= count, base + count <= MaxSeq, NEW st \in Seq(Nat), NEW L, Records(L) = st,
         NEW kind, kind = IF st = <<>> THEN "created" ELSE "event"
  PROVE  SoundNext(L, Batch(base, count, kind, st)) /\ kind \in LineKinds
<1>1. kind \in LineKinds
  BY DEF LineKinds
<1>b. PICK b : b = Batch(base, count, kind, st)
  OBVIOUS
<1>2. Len(b) = count /\ \A i \in 1..count : b[i].kind = IF kind = "created" /\ i > 1 THEN "event" ELSE kind
  BY <1>1, <1>b, BatchIs
<1>3. ASSUME NEW i \in 1..count PROVE b[i].kind = IF i = 1 /\ Records(L) = <<>> THEN "created" ELSE "event"
  <2>0. b[i].kind = IF kind = "created" /\ i > 1 THEN "event" ELSE kind
    BY <1>2
  <2>1. i = 1 \/ i > 1
    OBVIOUS
  <2>2. i > 1 => i # 1
    OBVIOUS
  <2>3. i = 1 => ~(i > 1)
    OBVIOUS
  <2>4. "created" # "event"
    OBVIOUS
  <2> QED BY <2>0, <2>1, <2>2, <2>3, <2>4, Zenon
<1>4. Len(b) > 0
  BY <1>2
<1>5. SoundNext(L, b)
  BY <1>2, <1>3, <1>4, Zenon DEF SoundNext
<1> QED BY <1>1, <1>5, <1>b

LEMMA SnapshotSound ==
  ASSUME NEW base \in Nat, base + 1 <= MaxSeq, NEW st \in Seq(Nat), NEW L, Records(L) = st, NEW kind \in {"snapshot", "unusable"}
  PROVE  SoundNext(L, Batch(base, 1, kind, st)) /\ kind \in LineKinds
<1>1. kind \in LineKinds
  BY DEF LineKinds
<1>c. PICK c \in Nat : c = 1
  OBVIOUS
<1>0. 1 <= c /\ base + c <= MaxSeq /\ 1 \in 1..c
  BY <1>c
<1>b. PICK b : b = Batch(base, c, kind, st)
  OBVIOUS
<1>2. Len(b) = c /\ \A i \in 1..c : b[i].kind = (IF kind = "created" /\ i > 1 THEN "event" ELSE kind)
                                    /\ b[i].state = IF kind \in {"snapshot", "unusable"} THEN st ELSE <<>>
  BY <1>0, <1>1, <1>b, BatchIs
<1>4. b[1].kind = kind /\ b[1].state = st
  <2>1. kind # "created"
    OBVIOUS
  <2> QED BY <1>0, <1>2, <2>1, Zenon
<1>5. SoundNext(L, b)
  BY <1>2, <1>4, <1>c, Zenon DEF SoundNext, IsSnapshot
<1> QED BY <1>1, <1>5, <1>b, <1>c, Zenon

LEMMA ModesDiffer == "ready" # "busy" /\ "ready" # "unsure" /\ "ready" # "lost" /\ "busy" # "unsure" /\ "busy" # "lost" /\ "unsure" # "lost"
  OBVIOUS

LEMMA InitHolds == Init => SInv
<1> SUFFICES ASSUME Init PROVE SInv
  OBVIOUS
<1>1. plain = <<>> /\ packed = <<>> /\ cache = 0 /\ job = NoJob /\ writer = "ready" /\ state = <<>> /\ written = <<>> /\ comp = NoWork
  BY DEF Init
<1>e. PICK e : e = <<>>
  OBVIOUS
<1>2. DOMAIN e = {} /\ e = [n \in DOMAIN e |-> e[n]] /\ Names(e, e) = {}
  BY <1>e DEF Names
<1>3. Tidy(e, e)
  BY <1>2, Zenon DEF Tidy
<1>4. LogOf(e, e) = <<>>
  <2>1. FilesOf(e, e, {}) \in Seq(Seq(Line)) /\ Len(FilesOf(e, e, {})) = Len(Ascending({}))
    BY FilesAre
  <2>2. Ascends({}, Ascending({}))
    <3>1. {} \subseteq 1..MaxSeq
      OBVIOUS
    <3> QED BY <3>1, MaxSeqIs, AscendingIs
  <2>3. Len(Ascending({})) = 0
    <3>1. Len(Ascending({})) = Cardinality({})
      BY <2>2 DEF Ascends
    <3> QED BY <3>1, FS_EmptySet
  <2>4. \A F \in Seq(Seq(Line)) : Len(F) = 0 => F = <<>>
    OBVIOUS
  <2>5. AllFiles(e, e) = <<>>
    BY <1>2, <2>1, <2>3, <2>4, AllFilesIs, Zenon
  <2> QED BY <2>5, ChainNone, Zenon DEF LogOf
<1>5. Appending(e, <<>>, NoJob, "ready")
  BY ModesDiffer, Zenon DEF Appending
<1>6. Remembers(e, "ready", 0)
  BY DEF Remembers
<1>7. Folded(<<>>, "ready", NoJob, <<>>, <<>>)
  <2>1. <<>> \in Seq(Nat)
    OBVIOUS
  <2> QED BY <2>1, ModesDiffer, SoundNone, RecordsNone, Zenon DEF Folded
<1>8. Compressing(e, e, NoWork)
  BY <1>2 DEF Compressing, NoWork
<1> QED BY <1>1, <1>3, <1>4, <1>5, <1>6, <1>7, <1>8, <1>e, Zenon DEF SInv

\* Nothing of what the segments' proofs are about changes.
LEMMA IdleHolds ==
  ASSUME SInv, UNCHANGED <<plain, packed, cache, job, writer, state, written, comp>>
  PROVE  SInv'
  BY Zenon DEF SInv

LEMMA CompressingGrows ==
  ASSUME NEW P, NEW Q, NEW P2, NEW Q2, NEW c, Compressing(P, Q, c), Active(P) \in Nat, Active(P2) \in Nat, Active(P) <= Active(P2),
         DOMAIN P \subseteq DOMAIN P2, DOMAIN Q \subseteq DOMAIN Q2
  PROVE  Compressing(P2, Q2, c)
<1>1. c.todo \subseteq DOMAIN P2 /\ c.todo \subseteq Nat
  BY DEF Compressing
<1>2. ASSUME c.pc \in {"packed", "renamed"} PROVE c.todo # {} /\ Min(c.todo) < Active(P2)
  <2>1. c.todo # {} /\ Min(c.todo) < Active(P)
    BY <1>2 DEF Compressing
  <2>2. Min(c.todo) \in Nat
    BY <1>1, <2>1, MinIs
  <2>m. PICK m \in Nat, a \in Nat, a2 \in Nat : m = Min(c.todo) /\ a = Active(P) /\ a2 = Active(P2)
    BY <2>2
  <2>3. m < a /\ a <= a2
    BY <2>1, <2>m
  <2>4. m < a2
    BY <2>3
  <2> QED BY <2>1, <2>4, <2>m
<1>3. c.pc = "renamed" => Min(c.todo) \in DOMAIN Q2
  BY DEF Compressing
<1>4. c \in [pc : {"wait", "list", "check", "packed", "renamed"}, active : Nat, todo : SUBSET Nat]
  BY DEF Compressing
<1> QED BY <1>1, <1>2, <1>3, <1>4, Zenon DEF Compressing

\* Where the log continues.
LEMMA BaseIs ==
  ASSUME SInv, writer = "ready", CanContinue
  PROVE  /\ Base \in Nat
         /\ \/ Active(plain) \in DOMAIN plain /\ plain[Active(plain)].lines # <<>> /\ Base = Last(plain[Active(plain)].lines).seq
            \/ plain = <<>> /\ DOMAIN plain = {} /\ Names(plain, packed) = {}
<1>0. Tidy(plain, packed) /\ Remembers(plain, writer, cache)
  BY DEF SInv
<1>a. PICK a : a = Active(plain)
  OBVIOUS
<1>W. PICK W : W = WithoutTail(plain)
  OBVIOUS
<1>1. SameLines(plain, W)
  BY <1>0, <1>W, TailCut
<1>2. Tidy(W, packed) /\ Active(W) = a
  BY <1>0, <1>1, <1>a, TidyLines
<1>3. Latest(W, packed) = a
  BY <1>2, ActiveIs
<1>4. DOMAIN W = DOMAIN plain /\ \A n \in DOMAIN plain : W[n].lines = plain[n].lines
  BY <1>1 DEF SameLines
<1>5. CASE cache # 0
  <2>1. Base = cache
    BY <1>5 DEF Base
  <2> QED BY <1>0, <1>5, <2>1 DEF Remembers
<1>6. CASE cache = 0
  <2>1. Base = LastSequence(W, packed) /\ Continuable(W, packed)
    BY <1>6, <1>W DEF Base, CanContinue
  <2>2. CASE a = 0
    <3>1. DOMAIN plain = {} /\ plain = <<>> /\ Names(plain, packed) = {}
      <4>1. ~(a > 0)
        BY <2>2
      <4> QED BY <1>0, <1>a, <4>1, ActiveIs
    <3>2. Base = 0
      BY <1>3, <2>1, <2>2, Zenon DEF LastSequence
    <3> QED BY <3>1, <3>2
  <2>3. CASE a # 0
    <3>1. a \in DOMAIN W /\ W[a].lines # <<>>
      BY <1>3, <2>1, <2>3, Zenon DEF Continuable, NoLines
    <3>2. Base = Last(W[a].lines).seq
      BY <1>3, <2>1, <2>3, Zenon DEF LastSequence
    <3>3. a \in DOMAIN plain /\ plain[a].lines # <<>> /\ Base = Last(plain[a].lines).seq
      BY <1>4, <3>1, <3>2, Zenon
    <3>4. Formed(plain[a].lines)
      BY <1>0, <3>3, Zenon DEF Tidy, Named
    <3>5. Base \in Nat
      BY <3>3, <3>4, LastIsLate
    <3> QED BY <1>a, <3>3, <3>5
  <2> QED BY <2>2, <2>3
<1> QED BY <1>5, <1>6

\* The segment that an append opens.
LEMMA OpenIs ==
  ASSUME SInv, writer = "ready", CanContinue, NEW name, Base + 1 <= MaxSeq,
         \/ name = Base + 1
         \/ plain # <<>> /\ name = Active(plain),
         NEW P2, P2 = Opened(WithoutTail(plain), name, EmptyFile)
  PROVE  /\ Tidy(P2, packed) /\ LogOf(P2, packed) = LogOf(plain, packed)
         /\ name = Active(P2) /\ name \in DOMAIN P2 /\ DOMAIN plain \subseteq DOMAIN P2
         /\ Active(plain) \in Nat /\ Active(P2) \in Nat /\ Active(plain) <= Active(P2)
         /\ P2[name].lines = <<>> => name = Base + 1
         /\ P2[name].lines # <<>> => Last(P2[name].lines).seq = Base
<1>0. Tidy(plain, packed)
  BY DEF SInv
<1>a. PICK a \in Nat : a = Active(plain)
  BY <1>0, ActiveIs
<1>b. PICK b \in Nat : b = Base
  BY BaseIs
<1>W. PICK W : W = WithoutTail(plain)
  OBVIOUS
<1>1. SameLines(plain, W)
  BY <1>0, <1>W, TailCut
<1>2. Tidy(W, packed) /\ Active(W) = a /\ LogOf(W, packed) = LogOf(plain, packed) /\ Names(W, packed) = Names(plain, packed)
  BY <1>0, <1>1, <1>a, TidyLines
<1>4. DOMAIN W = DOMAIN plain /\ \A n \in DOMAIN plain : W[n].lines = plain[n].lines
  BY <1>1 DEF SameLines
<1>5. \/ a \in DOMAIN W /\ W[a].lines # <<>> /\ b = Last(W[a].lines).seq
      \/ plain = <<>> /\ DOMAIN W = {} /\ Names(W, packed) = {}
  BY <1>2, <1>4, <1>a, <1>b, BaseIs, Zenon
<1>P. P2 = Opened(W, name, EmptyFile)
  BY <1>W
<1>6. CASE name = b + 1
  <2>1. name \in 1..MaxSeq
    BY <1>6, <1>b, MaxSeqIs
  <2>2. \A n \in Names(W, packed) : n < name /\ Below(LinesOf(W, packed, n), name)
    <3>1. CASE a \in DOMAIN W /\ W[a].lines # <<>> /\ b = Last(W[a].lines).seq
      <4> SUFFICES ASSUME NEW n \in Names(W, packed) PROVE n < name /\ Below(LinesOf(W, packed, n), name)
        OBVIOUS
      <4>1. LinesOf(W, packed, a) = W[a].lines
        BY <3>1, Zenon DEF LinesOf
      <4>2. Formed(W[a].lines) /\ W[a].lines[1].seq = a
        BY <1>2, <3>1, Zenon DEF Tidy, Named
      <4>3. a <= b
        BY <3>1, <4>2, LastIsLate
      <4>4. n \in Nat /\ n <= a
        <5>1. Names(W, packed) \subseteq 1..MaxSeq
          BY <1>2, LinesAre
        <5>2. n \in Nat
          BY <5>1, MaxSeqIs
        <5> QED BY <1>2, <5>2, ActiveIs
      <4>5. n < name
        BY <1>6, <4>3, <4>4
      <4>6. CASE n = a
        <5>1. b < name
          BY <1>6
        <5> QED BY <3>1, <4>1, <4>5, <4>6, <5>1 DEF Below
      <4>7. CASE n # a
        <5>0. a \in Names(W, packed) /\ n < a
          BY <3>1, <4>4, <4>7 DEF Names
        <5>1. Below(LinesOf(W, packed, n), a)
          BY <1>2, <5>0, LinesAre
        <5>l. PICK l : l = LinesOf(W, packed, n)
          OBVIOUS
        <5>2. Formed(l)
          BY <1>2, <5>l, LinesAre
        <5>3. ASSUME l # <<>> PROVE Last(l).seq < name
          <6>k. PICK k \in Nat : k = Last(l).seq
            BY <5>2, <5>3, LastIsLate
          <6>1. k < a
            BY <5>1, <5>3, <5>l, <6>k DEF Below
          <6>2. k < name
            BY <1>6, <4>3, <6>1
          <6> QED BY <6>2, <6>k
        <5> QED BY <4>5, <5>3, <5>l DEF Below
      <4> QED BY <4>6, <4>7
    <3>2. CASE Names(W, packed) = {}
      BY <3>2
    <3> QED BY <1>5, <3>1, <3>2
  <2>3. Tidy(P2, packed) /\ LogOf(P2, packed) = LogOf(W, packed) /\ Active(P2) = name
    BY <1>2, <1>P, <2>1, <2>2, TidyNew
  <2>4. IsOpened(P2, W, name, EmptyFile)
    BY <1>P, OpenedIs, Zenon
  <2>5. name \notin DOMAIN W
    <3>1. \A n \in DOMAIN W : n < name
      BY <2>2 DEF Names
    <3>2. ~(name < name)
      BY <1>6
    <3> QED BY <3>1, <3>2
  <2>6. name \in DOMAIN P2 /\ P2[name] = EmptyFile /\ DOMAIN W \subseteq DOMAIN P2
    BY <2>4, <2>5, Zenon DEF IsOpened
  <2>7. P2[name].lines = <<>>
    BY <2>6, EmptyIs, Zenon
  <2>8. a <= name /\ name \in Nat
    <3>1. CASE a \in DOMAIN W
      <4>1. a < name
        BY <2>2, <3>1 DEF Names
      <4> QED BY <1>6, <4>1
    <3>2. CASE a = 0
      BY <1>6, <3>2
    <3>3. a \in DOMAIN W \/ a = 0
      <4>1. DOMAIN W = {} => a = 0
        BY <1>2, ActiveIs
      <4> QED BY <1>5, <4>1
    <3> QED BY <3>1, <3>2, <3>3
  <2> QED BY <1>2, <1>4, <1>6, <1>a, <1>b, <2>3, <2>6, <2>7, <2>8, Zenon
<1>7. CASE plain # <<>> /\ name = a
  <2>1. a \in DOMAIN W /\ W[a].lines # <<>> /\ b = Last(W[a].lines).seq
    BY <1>5, <1>7
  <2>2. P2 = W
    BY <1>2, <1>7, <1>P, <2>1, OpenedSame
  <2>3. a <= a
    OBVIOUS
  <2> QED BY <1>2, <1>4, <1>7, <1>a, <1>b, <2>1, <2>2, <2>3, Zenon
<1> QED BY <1>6, <1>7, <1>a, <1>b

\* What a new batch may be.
Fits(count, kind) ==
  \/ kind = IF state = <<>> THEN "created" ELSE "event"
  \/ count = 1 /\ kind \in {"snapshot", "unusable"}

LEMMA BeginHolds ==
  ASSUME SInv, NEW count \in Nat, 1 <= count, NEW kind, NEW cut \in BOOLEAN, Begin(count, kind, cut), Fits(count, kind)
  PROVE  SInv'
<1>0. Tidy(plain, packed) /\ Remembers(plain, writer, cache) /\ Folded(LogOf(plain, packed), writer, job, state, written)
      /\ Compressing(plain, packed, comp)
  BY DEF SInv
<1>n. PICK name : name = IF cut \/ plain = <<>> THEN Base + 1 ELSE Active(plain)
  OBVIOUS
<1>1. writer = "ready" /\ CanContinue /\ Base + count <= MaxSeq /\ plain' = Opened(WithoutTail(plain), name, EmptyFile)
      /\ job' = [name |-> name, lines |-> Batch(Base, count, kind, state), done |-> 0] /\ writer' = "busy"
      /\ packed' = packed /\ cache' = cache /\ state' = state /\ written' = written /\ comp' = comp
  BY <1>n, Zenon DEF Begin, EmptyFile
<1>b. PICK base \in Nat : base = Base
  BY <1>1, BaseIs
<1>2. base + 1 <= MaxSeq /\ base + count <= MaxSeq
  BY <1>1, <1>b, MaxSeqIs
<1>3. name = Base + 1 \/ (plain # <<>> /\ name = Active(plain))
  BY <1>n, Zenon
<1>P. PICK P2 : P2 = plain'
  OBVIOUS
<1>L. PICK L : L = LogOf(plain, packed)
  OBVIOUS
<1>4. /\ Tidy(P2, packed) /\ LogOf(P2, packed) = L
      /\ name = Active(P2) /\ name \in DOMAIN P2 /\ DOMAIN plain \subseteq DOMAIN P2
      /\ Active(plain) \in Nat /\ Active(P2) \in Nat /\ Active(plain) <= Active(P2)
      /\ P2[name].lines = <<>> => name = base + 1
      /\ P2[name].lines # <<>> => Last(P2[name].lines).seq = base
  <2>1. Base + 1 <= MaxSeq
    BY <1>2, <1>b
  <2>2. P2 = Opened(WithoutTail(plain), name, EmptyFile)
    BY <1>1, <1>P, Zenon
  <2>3. /\ Tidy(P2, packed) /\ LogOf(P2, packed) = LogOf(plain, packed)
        /\ name = Active(P2) /\ name \in DOMAIN P2 /\ DOMAIN plain \subseteq DOMAIN P2
        /\ Active(plain) \in Nat /\ Active(P2) \in Nat /\ Active(plain) <= Active(P2)
        /\ P2[name].lines = <<>> => name = Base + 1
        /\ P2[name].lines # <<>> => Last(P2[name].lines).seq = Base
    BY <1>1, <1>3, <2>1, <2>2, OpenIs
  <2> QED BY <1>L, <1>b, <2>3, Zenon
<1>s. PICK st \in Seq(Nat) : st = state
  BY <1>0 DEF Folded
<1>5. Records(L) = st /\ written = st /\ Sound(L)
  BY <1>0, <1>1, <1>L, <1>s, Zenon DEF Folded
<1>B. PICK b : b = Batch(base, count, kind, st)
  OBVIOUS
<1>6. SoundNext(L, b) /\ kind \in LineKinds
  <2>1. CASE kind = IF state = <<>> THEN "created" ELSE "event"
    BY <1>2, <1>5, <1>B, <1>s, <2>1, EventsSound
  <2>2. CASE count = 1 /\ kind \in {"snapshot", "unusable"}
    <3>1. SoundNext(L, Batch(base, 1, kind, st)) /\ kind \in LineKinds
      BY <1>2, <1>5, <2>2, SnapshotSound
    <3> QED BY <1>B, <2>2, <3>1, Zenon
  <2> QED BY <2>1, <2>2 DEF Fits
<1>7. OneBatch(b) /\ Len(b) = count /\ b[1].seq = base + 1
  BY <1>2, <1>6, <1>B, BatchIs
<1>j. PICK j : j = [name |-> name, lines |-> b, done |-> 0]
  OBVIOUS
<1>8. job' = j /\ j.name = name /\ j.lines = b /\ j.done = 0 /\ j = [name |-> j.name, lines |-> j.lines, done |-> j.done]
  <2>1. job' = j
    BY <1>1, <1>B, <1>b, <1>j, <1>s, Zenon
  <2>2. j.name = name /\ j.lines = b /\ j.done = 0
    BY <1>j
  <2> QED BY <1>j, <2>1, <2>2, Zenon
<1>9. Grows(P2[name].lines, b, 0, name)
  <2>1. CASE P2[name].lines = <<>>
    BY <1>4, <1>7, <2>1, Zenon DEF Grows
  <2>2. CASE P2[name].lines # <<>>
    BY <1>4, <1>7, <2>2, Zenon DEF Grows
  <2> QED BY <2>1, <2>2
<1>10. Appending(P2, L, j, "busy")
  <2>1. 0 \in 0..Len(b)
    BY <1>7
  <2> QED BY <1>4, <1>6, <1>7, <1>8, <1>9, <2>1, Zenon DEF Appending
<1>11. Remembers(P2, "busy", cache)
  BY <1>0, ModesDiffer, Zenon DEF Remembers
<1>12. Folded(L, "busy", j, st, st)
  <2>1. j.done < Len(j.lines)
    BY <1>7, <1>8
  <2> QED BY <1>5, <2>1, ModesDiffer, Zenon DEF Folded
<1>13. Compressing(P2, packed, comp)
  BY <1>0, <1>4, CompressingGrows
<1> QED BY <1>1, <1>4, <1>5, <1>8, <1>10, <1>11, <1>12, <1>13, <1>P, <1>s, Zenon DEF SInv

LEMMA AppendBatchHolds == ASSUME SInv, AppendBatch PROVE SInv'
<1>1. PICK count \in 1..MaxBatch : Begin(count, IF state = <<>> THEN "created" ELSE "event", FALSE)
  BY Zenon DEF AppendBatch
<1>2. count \in Nat /\ 1 <= count
  BY SegmentStoreAssumption
<1>3. Fits(count, IF state = <<>> THEN "created" ELSE "event")
  BY Zenon DEF Fits
<1>c. PICK cut \in BOOLEAN : cut = FALSE
  OBVIOUS
<1>k. PICK kind : kind = IF state = <<>> THEN "created" ELSE "event"
  OBVIOUS
<1>4. Begin(count, kind, cut) /\ Fits(count, kind)
  BY <1>1, <1>3, <1>c, <1>k, Zenon
<1> QED BY <1>2, <1>4, BeginHolds

LEMMA AppendSnapshotHolds == ASSUME SInv, AppendSnapshot PROVE SInv'
<1>1. PICK kind \in SnapshotKinds, cut \in BOOLEAN : Begin(1, kind, cut)
  BY Zenon DEF AppendSnapshot
<1>2. kind \in {"snapshot", "unusable"}
  BY SegmentStoreAssumption
<1>3. Fits(1, kind)
  BY <1>2, Zenon DEF Fits
<1>c. PICK count \in Nat : count = 1
  OBVIOUS
<1>4. Begin(count, kind, cut) /\ Fits(count, kind)
  BY <1>1, <1>3, <1>c, Zenon
<1>5. 1 <= count
  BY <1>c
<1> QED BY <1>4, <1>5, BeginHolds

\* A torn tail, or none, changes nothing of the log.
LEMMA LinesHold ==
  ASSUME SInv, SameLines(plain, plain'), packed' = packed, comp' = comp
  PROVE  /\ Tidy(plain', packed') /\ LogOf(plain', packed') = LogOf(plain, packed) /\ Compressing(plain', packed', comp')
         /\ \A j, w : Appending(plain, LogOf(plain, packed), j, w) => Appending(plain', LogOf(plain, packed), j, w)
         /\ \A w, c : Remembers(plain, w, c) => Remembers(plain', w, c)
<1>0. Tidy(plain, packed) /\ Compressing(plain, packed, comp)
  BY DEF SInv
<1>P. PICK P2 : P2 = plain'
  OBVIOUS
<1>1. SameLines(plain, P2)
  BY <1>P, Zenon
<1>2. Tidy(P2, packed) /\ LogOf(P2, packed) = LogOf(plain, packed) /\ Active(P2) = Active(plain)
  BY <1>0, <1>1, TidyLines
<1>3. DOMAIN P2 = DOMAIN plain /\ \A n \in DOMAIN plain : P2[n].lines = plain[n].lines
  BY <1>1 DEF SameLines
<1>4. Compressing(P2, packed, comp)
  BY <1>0, <1>2, <1>3, Zenon DEF Compressing
<1>5. \A j, w : Appending(plain, LogOf(plain, packed), j, w) => Appending(P2, LogOf(plain, packed), j, w)
  <2> SUFFICES ASSUME NEW j, NEW w, Appending(plain, LogOf(plain, packed), j, w), w = "busy"
               PROVE  /\ j = [name |-> j.name, lines |-> j.lines, done |-> j.done]
                      /\ j.name = Active(P2) /\ j.name \in DOMAIN P2
                      /\ OneBatch(j.lines) /\ j.done \in 0..Len(j.lines)
                      /\ Grows(P2[j.name].lines, j.lines, j.done, j.name)
                      /\ j.done < Len(j.lines) => SoundNext(LogOf(plain, packed), j.lines)
    BY Zenon DEF Appending
  <2>1. /\ j = [name |-> j.name, lines |-> j.lines, done |-> j.done]
        /\ j.name = Active(plain) /\ j.name \in DOMAIN plain
        /\ OneBatch(j.lines) /\ j.done \in 0..Len(j.lines)
        /\ Grows(plain[j.name].lines, j.lines, j.done, j.name)
        /\ j.done < Len(j.lines) => SoundNext(LogOf(plain, packed), j.lines)
    BY Zenon DEF Appending
  <2>2. P2[j.name].lines = plain[j.name].lines
    BY <1>3, <2>1, Zenon
  <2> QED BY <1>2, <1>3, <2>1, <2>2, Zenon
<1>6. \A w, c : Remembers(plain, w, c) => Remembers(P2, w, c)
  BY <1>2, <1>3, Zenon DEF Remembers
<1> QED BY <1>2, <1>4, <1>5, <1>6, <1>P, Zenon

LEMMA RefuseAppendHolds == ASSUME SInv, RefuseAppend PROVE SInv'
<1>0. Tidy(plain, packed) /\ Remembers(plain, writer, cache) /\ Folded(LogOf(plain, packed), writer, job, state, written)
  BY DEF SInv
<1>1. writer = "ready" /\ ~CanContinue /\ plain' = WithoutTail(plain) /\ writer' = "unsure" /\ state' = <<>>
      /\ packed' = packed /\ cache' = cache /\ job' = job /\ written' = written /\ comp' = comp
  BY Zenon DEF RefuseAppend
<1>2. SameLines(plain, plain')
  BY <1>0, <1>1, TailCut
<1>3. cache = 0
  BY <1>1, Zenon DEF CanContinue
<1>4. /\ Tidy(plain', packed') /\ LogOf(plain', packed') = LogOf(plain, packed) /\ Compressing(plain', packed', comp')
  BY <1>1, <1>2, LinesHold
<1>5. Appending(plain', LogOf(plain, packed), job, "unsure")
  BY ModesDiffer, Zenon DEF Appending
<1>6. Remembers(plain', "unsure", 0)
  BY ModesDiffer DEF Remembers
<1>7. Folded(LogOf(plain, packed), "unsure", job, <<>>, written)
  <2>1. <<>> \in Seq(Nat)
    OBVIOUS
  <2> QED BY <1>0, <1>1, <2>1, ModesDiffer, Zenon DEF Folded
<1> QED BY <1>1, <1>3, <1>4, <1>5, <1>6, <1>7, Zenon DEF SInv

LEMMA WritePartHolds == ASSUME SInv, WritePart PROVE SInv'
<1>0. Tidy(plain, packed) /\ Appending(plain, LogOf(plain, packed), job, writer) /\ Remembers(plain, writer, cache)
      /\ Folded(LogOf(plain, packed), writer, job, state, written)
  BY DEF SInv
<1>1. plain' = [plain EXCEPT ![job.name].torn = TRUE] /\ packed' = packed /\ cache' = cache /\ job' = job /\ writer' = writer
      /\ state' = state /\ written' = written /\ comp' = comp
  BY Zenon DEF WritePart, appending
<1>2. SameLines(plain, plain')
  BY <1>0, <1>1, TailTorn
<1>3. /\ Tidy(plain', packed') /\ LogOf(plain', packed') = LogOf(plain, packed) /\ Compressing(plain', packed', comp')
      /\ Appending(plain', LogOf(plain, packed), job, writer) /\ Remembers(plain', writer, cache)
  BY <1>0, <1>1, <1>2, LinesHold
<1> QED BY <1>0, <1>1, <1>3, Zenon DEF SInv

\* The next line of a batch continues the segment.
IsNext(m, x, lines, b, d) == x = b[d + 1] /\ m = Append(lines, x)
LEMMA NextLine ==
  ASSUME NEW lines, NEW n, Named(lines, n), NEW b, OneBatch(b), NEW d \in Nat, d < Len(b), Grows(lines, b, d, n), NEW m, NEW x,
         IsNext(m, x, lines, b, d)
  PROVE  /\ Longer(m, lines, x) /\ (lines = <<>> => x.seq = n)
         /\ Grows(m, b, d + 1, n) /\ Batched(m) = Part(b, 1, d + 1)
         /\ Ends(x) <=> d + 1 = Len(b)
<1>0. lines \in Seq(Line) /\ b \in Seq(Line) /\ d + 1 \in 1..Len(b)
  BY DEF Named, Formed, OneBatch
<1>N. x = b[d + 1] /\ m = Append(lines, x)
  BY DEF IsNext
<1>y. PICK y \in Line : y = x
  BY <1>0, <1>N
<1>c. PICK c \in Nat : c = Len(b)
  BY <1>0
<1>1. x.index = d /\ x.count = c /\ (d > 0 => x.seq = b[d].seq + 1)
  <2>1. \A i \in 1..Len(b) : /\ b[i].index = i - 1 /\ b[i].count = Len(b)
                             /\ i > 1 => b[i].seq = b[i - 1].seq + 1
    BY DEF OneBatch
  <2>k. PICK k \in 1..Len(b) : k = d + 1
    BY <1>0
  <2>2. b[k].index = k - 1 /\ b[k].count = Len(b) /\ (k > 1 => b[k].seq = b[k - 1].seq + 1)
    BY <2>1
  <2>3. k - 1 = d /\ (d > 0 => k > 1)
    BY <2>k
  <2> QED BY <1>N, <1>c, <2>2, <2>3, <2>k, Zenon
<1>2. d > 0 => /\ lines # <<>> /\ Last(lines) = b[d] /\ b[d].index = d - 1 /\ b[d].count = c /\ Batched(lines) = Part(b, 1, d)
  <2> SUFFICES ASSUME d > 0 PROVE /\ lines # <<>> /\ Last(lines) = b[d] /\ b[d].index = d - 1 /\ b[d].count = c /\ Batched(lines) = Part(b, 1, d)
    OBVIOUS
  <2>1. d # 0 /\ d \in 1..Len(b)
    BY <1>0
  <2>2. lines # <<>> /\ Last(lines) = b[d] /\ Batched(lines) = Part(b, 1, d)
    BY <2>1, Zenon DEF Grows
  <2>3. b[d].index = d - 1 /\ b[d].count = Len(b)
    BY <2>1 DEF OneBatch
  <2> QED BY <1>c, <2>2, <2>3
<1>3. lines # <<>> => x.seq = Last(lines).seq + 1
  <2>1. CASE d = 0
    <3>1. lines # <<>> => b[1].seq = Last(lines).seq + 1
      BY <2>1, Zenon DEF Grows
    <3>2. d + 1 = 1
      BY <2>1
    <3> QED BY <1>N, <3>1, <3>2, Zenon
  <2>2. CASE d > 0
    BY <1>N, <1>1, <1>2, <2>2, Zenon
  <2> QED BY <2>1, <2>2
<1>4. lines = <<>> => x.seq = n
  <2>1. lines = <<>> => d = 0
    BY <1>2
  <2>2. lines = <<>> => b[1].seq = n
    BY <2>1, Zenon DEF Grows
  <2>3. d = 0 => d + 1 = 1
    OBVIOUS
  <2> QED BY <1>N, <2>1, <2>2, <2>3, Zenon
<1>l. PICK l \in Nat : l = Len(lines)
  BY <1>0
<1>M. PICK M \in Seq(Line) : M = Append(lines, y)
  <2>1. Append(lines, y) \in Seq(Line)
    BY <1>0
  <2> QED BY <2>1
<1>5. M = m /\ Len(M) = l + 1 /\ M[l + 1] = y /\ \A i \in 1..l : M[i] = lines[i]
  BY <1>0, <1>M, <1>N, <1>l, <1>y
<1>6. l > 0 <=> lines # <<>>
  BY <1>0, <1>l
<1>7. l > 0 => Last(lines) = lines[l]
  BY <1>l DEF Last
<1>8. Formed(M)
  <2>1. ASSUME NEW i \in 1..l
        PROVE  /\ M[i].index < M[i].count
               /\ i > 1 => M[i].seq = M[i - 1].seq + 1
               /\ M[i].index > 0 => i > 1 /\ M[i].index = M[i - 1].index + 1 /\ M[i].count = M[i - 1].count
    <3>1. /\ lines[i].index < lines[i].count
          /\ i > 1 => lines[i].seq = lines[i - 1].seq + 1
          /\ lines[i].index > 0 => i > 1 /\ lines[i].index = lines[i - 1].index + 1 /\ lines[i].count = lines[i - 1].count
      BY <1>l DEF Named, Formed
    <3>2. i > 1 => i - 1 \in 1..l
      OBVIOUS
    <3> QED BY <1>5, <3>1, <3>2, Zenon
  <2>2. M[l + 1].index < M[l + 1].count
    <3>1. d < c
      BY <1>c
    <3> QED BY <1>1, <1>5, <1>y, <3>1, Zenon
  <2>3. l > 0 => M[l] = Last(lines)
    <3>1. l > 0 => l \in 1..l
      OBVIOUS
    <3> QED BY <1>5, <1>7, <3>1, Zenon
  <2>4. l > 0 => M[l + 1].seq = M[l].seq + 1
    BY <1>3, <1>5, <1>6, <1>y, <2>3, Zenon
  <2>5. M[l + 1].index > 0 => l > 0 /\ M[l + 1].index = M[l].index + 1 /\ M[l + 1].count = M[l].count
    <3> SUFFICES ASSUME d > 0 PROVE l > 0 /\ M[l + 1].index = M[l].index + 1 /\ M[l + 1].count = M[l].count
      BY <1>1, <1>5, <1>y, Zenon
    <3>1. l > 0 /\ M[l] = b[d] /\ b[d].index = d - 1 /\ b[d].count = c
      BY <1>2, <1>6, <2>3
    <3>2. d = (d - 1) + 1
      OBVIOUS
    <3> QED BY <1>1, <1>5, <1>y, <3>1, <3>2, Zenon
  <2>6. ASSUME NEW i \in 1..(l + 1)
        PROVE  /\ M[i].index < M[i].count
               /\ i > 1 => M[i].seq = M[i - 1].seq + 1
               /\ M[i].index > 0 => i > 1 /\ M[i].index = M[i - 1].index + 1 /\ M[i].count = M[i - 1].count
    <3>1. CASE i \in 1..l
      BY <2>1, <3>1
    <3>2. CASE i = l + 1
      <4>1. i - 1 = l /\ (i > 1 <=> l > 0)
        BY <3>2
      <4> QED BY <2>2, <2>4, <2>5, <3>2, <4>1, Zenon
    <3>3. i \in 1..l \/ i = l + 1
      OBVIOUS
    <3> QED BY <3>1, <3>2, <3>3
  <2> QED BY <1>5, <2>6 DEF Formed
<1>9. Longer(m, lines, x)
  <2>1. Longer(M, lines, y)
    BY <1>0, <1>8, <1>M DEF Longer
  <2> QED BY <1>5, <1>y, <2>1, Zenon
<1>10. Ends(x) <=> d + 1 = Len(b)
  BY <1>1, <1>c, Zenon DEF Ends
<1>11. Last(m) = x /\ (d = 0 => Batched(m) = <<x>>) /\ (d # 0 => Batched(m) = Append(Batched(lines), x))
  <2>1. Last(m) = x /\ (x.index = 0 => Batched(m) = <<x>>) /\ (x.index # 0 => Batched(m) = Append(Batched(lines), x))
    BY <1>9, BatchedIs
  <2> QED BY <1>1, <2>1, Zenon
<1>12. Batched(m) = Part(b, 1, d + 1)
  <2>1. CASE d = 0
    <3>1. 1 \in 1..Len(b) /\ d + 1 = 1
      BY <1>0, <2>1
    <3>2. Part(b, 1, 1) = <<b[1]>>
      BY <1>0, <3>1, PartOne
    <3> QED BY <1>11, <1>N, <2>1, <3>1, <3>2, Zenon
  <2>2. CASE d > 0
    <3>1. 1 <= d + 1 /\ d + 1 <= Len(b) /\ d # 0 /\ 1 \in Nat /\ 1 <= 1
      BY <1>0, <2>2
    <3>2. Part(b, 1, d + 1) = Append(Part(b, 1, d), b[d + 1])
      BY <1>0, <3>1, PartMore
    <3> QED BY <1>2, <1>11, <1>N, <2>2, <3>1, <3>2, Zenon
  <2> QED BY <2>1, <2>2
<1>13. Grows(m, b, d + 1, n)
  <2>1. d + 1 # 0
    OBVIOUS
  <2>2. m # <<>>
    <3>1. Len(M) # 0
      BY <1>5
    <3>2. Len(<<>>) = 0
      OBVIOUS
    <3>3. M = m
      BY <1>5
    <3> QED BY <3>1, <3>2, <3>3, Zenon
  <2> QED BY <1>11, <1>12, <1>N, <2>1, <2>2, Zenon DEF Grows
<1> QED BY <1>4, <1>9, <1>10, <1>12, <1>13

\* What writing a line does to the log; used for the invariant and for the refinement.
LEMMA WriteLineIs ==
  ASSUME SInv, WriteLine
  PROVE  /\ SInv'
         /\ job.done < Len(job.lines) /\ job'.lines = job.lines /\ job'.done = job.done + 1 /\ job'.done \in Nat
         /\ job'.done <= Len(job.lines) /\ Len(job.lines) \in Nat
<1>0. Tidy(plain, packed) /\ Appending(plain, LogOf(plain, packed), job, "busy") /\ Remembers(plain, "busy", cache)
      /\ Folded(LogOf(plain, packed), "busy", job, state, written) /\ Compressing(plain, packed, comp)
  BY Zenon DEF SInv, WriteLine
<1>1. /\ writer = "busy" /\ job.done < Len(job.lines) /\ job' = [job EXCEPT !.done = @ + 1]
      /\ plain' = [plain EXCEPT ![job.name] = [lines |-> Append(@.lines, job.lines[job.done + 1]), torn |-> FALSE]]
      /\ written' = IF job'.done = Len(job.lines) THEN written \o Records(<<job.lines>>) ELSE written
      /\ packed' = packed /\ cache' = cache /\ writer' = writer /\ state' = state /\ comp' = comp
  BY Zenon DEF WriteLine
<1>2. /\ job = [name |-> job.name, lines |-> job.lines, done |-> job.done]
      /\ job.name = Active(plain) /\ job.name \in DOMAIN plain
      /\ OneBatch(job.lines) /\ job.done \in 0..Len(job.lines)
      /\ Grows(plain[job.name].lines, job.lines, job.done, job.name)
      /\ job.done < Len(job.lines) => SoundNext(LogOf(plain, packed), job.lines)
  BY <1>0, Zenon DEF Appending
<1>n. PICK n, b : n = job.name /\ b = job.lines
  OBVIOUS
<1>c. PICK c \in Nat : c = Len(b)
  <2>1. Len(job.lines) \in Nat
    BY <1>2 DEF OneBatch
  <2> QED BY <1>n, <2>1
<1>d. PICK d \in Nat : d = job.done
  BY <1>2
<1>3. n = Active(plain) /\ n \in DOMAIN plain /\ OneBatch(b) /\ d < c /\ Grows(plain[n].lines, b, d, n) /\ SoundNext(LogOf(plain, packed), b)
  BY <1>1, <1>2, <1>c, <1>d, <1>n, Zenon
<1>j. PICK j : j = [name |-> n, lines |-> b, done |-> d + 1]
  OBVIOUS
<1>4. job' = j /\ j.name = n /\ j.lines = b /\ j.done = d + 1 /\ j = [name |-> j.name, lines |-> j.lines, done |-> j.done]
  <2>1. job = [name |-> n, lines |-> b, done |-> d]
    BY <1>2, <1>d, <1>n, Zenon
  <2>e. PICK e : e = d + 1
    OBVIOUS
  <2>2. [[name |-> n, lines |-> b, done |-> d] EXCEPT !.done = e] = [name |-> n, lines |-> b, done |-> e]
    OBVIOUS
  <2>3. job' = j
    BY <1>1, <1>d, <1>j, <2>1, <2>2, <2>e, Zenon
  <2>4. j.name = n /\ j.lines = b /\ j.done = d + 1
    BY <1>j
  <2> QED BY <1>j, <2>3, <2>4, Zenon
<1>x. PICK x : x = b[d + 1]
  OBVIOUS
<1>m. PICK m : m = Append(plain[n].lines, x)
  OBVIOUS
<1>P. PICK P2 : P2 = plain'
  OBVIOUS
<1>5. IsWritten(P2, plain, n, m)
  <2>1. P2 = [plain EXCEPT ![n] = [lines |-> m, torn |-> FALSE]]
    BY <1>1, <1>P, <1>d, <1>m, <1>n, <1>x, Zenon
  <2>2. IsWritten([plain EXCEPT ![n] = [lines |-> m, torn |-> FALSE]], plain, n, m)
    BY <1>0, <1>3, WrittenIs
  <2> QED BY <2>1, <2>2, Zenon
<1>6. Named(plain[n].lines, n)
  BY <1>0, <1>3, Zenon DEF Tidy
<1>7. /\ Longer(m, plain[n].lines, x) /\ (plain[n].lines = <<>> => x.seq = n)
      /\ Grows(m, b, d + 1, n) /\ Batched(m) = Part(b, 1, d + 1)
      /\ Ends(x) <=> d + 1 = Len(b)
  <2>1. d < Len(b)
    BY <1>3, <1>c
  <2>2. IsNext(m, x, plain[n].lines, b, d)
    BY <1>m, <1>x, Zenon DEF IsNext
  <2> QED BY <1>3, <1>6, <2>1, <2>2, NextLine
<1>L. PICK L : L = LogOf(plain, packed)
  OBVIOUS
<1>8. Tidy(P2, packed) /\ Active(P2) = n /\ L \in Seq(Batches)
      /\ LogOf(P2, packed) = IF Ends(x) THEN Append(L, Batched(m)) ELSE L
  BY <1>0, <1>3, <1>5, <1>7, <1>L, TidyWrite
<1>9. b \in Batches /\ Part(b, 1, c) = b
  <2>1. b \in Seq(Line)
    BY <1>3 DEF OneBatch
  <2> QED BY <1>c, <2>1, PartAll DEF Batches
<1>10. DOMAIN P2 = DOMAIN plain /\ P2[n].lines = m /\ n \in DOMAIN P2
  BY <1>3, <1>5 DEF IsWritten
<1>11. Compressing(P2, packed, comp)
  <2>1. Active(plain) \in Nat /\ Active(P2) = Active(plain)
    BY <1>0, <1>3, <1>8, ActiveIs
  <2>2. \A k \in Nat : k <= k
    OBVIOUS
  <2>3. Active(plain) <= Active(P2) /\ Active(P2) \in Nat
    BY <2>1, <2>2, Zenon
  <2> QED BY <1>0, <1>10, <2>1, <2>3, CompressingGrows
<1>12. Remembers(P2, "busy", cache)
  BY <1>0, ModesDiffer, Zenon DEF Remembers
<1>13. d + 1 \in 0..Len(b) /\ d + 1 \in Nat /\ d + 1 <= Len(b) /\ Len(b) \in Nat
  BY <1>3, <1>c
<1>f. state \in Seq(Nat) /\ written \in Seq(Nat) /\ Sound(L) /\ Records(L) = written /\ state = written
  <2>1. job.done < Len(job.lines)
    BY <1>1
  <2> QED BY <1>0, <1>L, <2>1, ModesDiffer, Zenon DEF Folded
<1>14. CASE d + 1 = Len(b)
  <2>1. Ends(x) /\ Batched(m) = b
    BY <1>7, <1>9, <1>14, <1>c, Zenon
  <2>2. LogOf(P2, packed) = Append(L, b)
    BY <1>8, <2>1, Zenon
  <2>3. Sound(Append(L, b))
    BY <1>3, <1>8, <1>9, <1>L, <1>f, SoundMore
  <2>4. Records(Append(L, b)) = written \o Records(<<b>>) /\ Records(<<b>>) \in Seq(Nat)
    BY <1>8, <1>9, <1>f, RecordsMore, Zenon
  <2>5. written' = written \o Records(<<b>>)
    BY <1>1, <1>4, <1>14, <1>n, Zenon
  <2>6. written \o Records(<<b>>) \in Seq(Nat)
    BY <1>f, <2>4
  <2>7. ~(j.done < Len(j.lines))
    BY <1>4, <1>14, <1>13
  <2>8. Folded(Append(L, b), "busy", j, state, written')
    BY <1>4, <1>f, <2>3, <2>4, <2>5, <2>6, <2>7, ModesDiffer, Zenon DEF Folded
  <2>9. Appending(P2, Append(L, b), j, "busy")
    BY <1>3, <1>4, <1>7, <1>8, <1>10, <1>13, <2>7, Zenon DEF Appending
  <2> QED BY <1>1, <1>4, <1>8, <1>11, <1>12, <1>13, <1>P, <1>n, <1>d, <2>2, <2>8, <2>9, Zenon DEF SInv
<1>15. CASE d + 1 # Len(b)
  <2>1. LogOf(P2, packed) = L
    BY <1>7, <1>8, <1>15, Zenon
  <2>2. written' = written
    BY <1>1, <1>4, <1>15, <1>n, Zenon
  <2>3. j.done < Len(j.lines)
    BY <1>4, <1>13, <1>15
  <2>4. Folded(L, "busy", j, state, written)
    BY <1>4, <1>f, <2>3, ModesDiffer, Zenon DEF Folded
  <2>5. Appending(P2, L, j, "busy")
    BY <1>3, <1>4, <1>7, <1>8, <1>10, <1>13, <1>L, Zenon DEF Appending
  <2> QED BY <1>1, <1>4, <1>8, <1>11, <1>12, <1>13, <1>P, <1>n, <1>d, <2>1, <2>2, <2>4, <2>5, Zenon DEF SInv
<1> QED BY <1>14, <1>15

LEMMA AcknowledgeHolds == ASSUME SInv, Acknowledge PROVE SInv' /\ state' = written
<1>0. Tidy(plain, packed) /\ Appending(plain, LogOf(plain, packed), job, "busy") /\ Remembers(plain, "busy", cache)
      /\ Folded(LogOf(plain, packed), "busy", job, state, written) /\ Compressing(plain, packed, comp)
  BY Zenon DEF SInv, Acknowledge
<1>1. /\ job.done = Len(job.lines) /\ cache' = Last(job.lines).seq /\ state' = state \o Records(<<job.lines>>) /\ writer' = "ready" /\ job' = NoJob
      /\ plain' = plain /\ packed' = packed /\ written' = written /\ comp' = comp
  BY Zenon DEF Acknowledge, disk
<1>2. /\ job.name = Active(plain) /\ job.name \in DOMAIN plain /\ OneBatch(job.lines)
      /\ Grows(plain[job.name].lines, job.lines, job.done, job.name)
  BY <1>0, Zenon DEF Appending
<1>n. PICK n, b : n = job.name /\ b = job.lines
  OBVIOUS
<1>c. PICK c \in Nat : c = Len(b) /\ c > 0
  <2>1. b \in Seq(Line) /\ b # <<>>
    BY <1>2, <1>n DEF OneBatch
  <2> QED BY <2>1
<1>3. plain[n].lines # <<>> /\ Last(plain[n].lines) = b[c]
  <2>1. Grows(plain[n].lines, b, c, n) /\ c # 0
    BY <1>1, <1>2, <1>c, <1>n
  <2> QED BY <2>1, Zenon DEF Grows
<1>4. Last(b) = b[c] /\ b[c].seq \in Nat
  <2>1. Last(b) = b[c]
    BY <1>c DEF Last
  <2>2. b[c] \in Line
    <3>1. b \in Seq(Line)
      BY <1>2, <1>n DEF OneBatch
    <3> QED BY <1>c, <3>1
  <2> QED BY <2>1, <2>2, LineIs
<1>5. cache' = b[c].seq
  BY <1>1, <1>4, <1>n, Zenon
<1>6. Remembers(plain, "ready", cache')
  <2>1. cache' \in Nat
    BY <1>4, <1>5
  <2>2. Active(plain) \in DOMAIN plain /\ plain[Active(plain)].lines # <<>> /\ Last(plain[Active(plain)].lines).seq = cache'
    BY <1>2, <1>3, <1>5, <1>n, Zenon
  <2> QED BY <2>1, <2>2, ModesDiffer, Zenon DEF Remembers
<1>7. state' = written
  <2>1. ~(job.done < Len(job.lines))
    BY <1>1, <1>c, <1>n
  <2> QED BY <1>0, <1>1, <2>1, ModesDiffer, Zenon DEF Folded
<1>8. Folded(LogOf(plain, packed), "ready", NoJob, written, written)
  BY <1>0, ModesDiffer, Zenon DEF Folded
<1>9. Appending(plain, LogOf(plain, packed), NoJob, "ready")
  BY ModesDiffer, Zenon DEF Appending
<1> QED BY <1>0, <1>1, <1>6, <1>7, <1>8, <1>9, Zenon DEF SInv

\* The writer loses track.
LEMMA LostHolds ==
  ASSUME SInv, plain' = plain, packed' = packed, written' = written, cache' = 0, job' = NoJob, writer' = "unsure", state' = <<>>,
         comp' = comp \/ comp' = NoWork
  PROVE  SInv'
<1>0. Tidy(plain, packed) /\ Folded(LogOf(plain, packed), writer, job, state, written) /\ Compressing(plain, packed, comp)
  BY DEF SInv
<1>1. Appending(plain, LogOf(plain, packed), NoJob, "unsure")
  BY ModesDiffer, Zenon DEF Appending
<1>2. Remembers(plain, "unsure", 0)
  BY ModesDiffer DEF Remembers
<1>3. Folded(LogOf(plain, packed), "unsure", NoJob, <<>>, written)
  <2>1. <<>> \in Seq(Nat)
    OBVIOUS
  <2> QED BY <1>0, <2>1, ModesDiffer, Zenon DEF Folded
<1>4. Compressing(plain, packed, NoWork)
  <2>1. NoWork.pc = "wait" /\ NoWork.todo = {} /\ NoWork \in [pc : {"wait", "list", "check", "packed", "renamed"}, active : Nat, todo : SUBSET Nat]
    BY DEF NoWork
  <2> QED BY <2>1 DEF Compressing
<1> QED BY <1>0, <1>1, <1>2, <1>3, <1>4, Zenon DEF SInv

LEMMA AppendFailsHolds == ASSUME SInv, AppendFails PROVE SInv'
<1>1. /\ plain' = plain /\ packed' = packed /\ written' = written /\ comp' = comp
      /\ cache' = 0 /\ job' = NoJob /\ writer' = "unsure" /\ state' = <<>>
  BY Zenon DEF AppendFails, disk
<1> QED BY <1>1, LostHolds

LEMMA KillHolds == ASSUME SInv, Kill PROVE SInv'
<1>1. /\ plain' = plain /\ packed' = packed /\ written' = written /\ comp' = NoWork
      /\ cache' = 0 /\ job' = NoJob /\ writer' = "unsure" /\ state' = <<>>
  BY Zenon DEF Kill, disk
<1> QED BY <1>1, LostHolds

LEMMA RecoverHolds == ASSUME SInv, Recover PROVE SInv' /\ state' = written /\ (writer' = "lost" => written = <<>>)
<1>0. Tidy(plain, packed) /\ Remembers(plain, "unsure", cache)
      /\ Folded(LogOf(plain, packed), "unsure", job, state, written) /\ Compressing(plain, packed, comp)
  BY Zenon DEF SInv, Recover
<1>1. /\ state' = Recovered(plain, packed) /\ writer' = (IF state' = <<>> THEN "lost" ELSE "ready")
      /\ plain' = plain /\ packed' = packed /\ cache' = cache /\ job' = job /\ written' = written /\ comp' = comp
  BY Zenon DEF Recover, disk
<1>2. Sound(LogOf(plain, packed)) /\ Records(LogOf(plain, packed)) = written /\ written \in Seq(Nat) /\ job = NoJob
  BY <1>0, ModesDiffer, Zenon DEF Folded
<1>3. Recovered(plain, packed) = Records(LogOf(plain, packed))
  BY <1>0, <1>2, RecoveredExact
<1>4. state' = written
  BY <1>1, <1>2, <1>3, Zenon
<1>5. cache = 0
  BY <1>0, Zenon DEF Remembers
<1>6. \A w : w # "busy" => Appending(plain, LogOf(plain, packed), NoJob, w)
  BY Zenon DEF Appending
<1>7. Remembers(plain, "ready", 0) /\ Remembers(plain, "lost", 0)
  BY DEF Remembers
<1>8. CASE written = <<>>
  <2>1. writer' = "lost"
    BY <1>1, <1>4, <1>8, Zenon
  <2>2. Folded(LogOf(plain, packed), "lost", NoJob, <<>>, <<>>)
    <3>1. <<>> \in Seq(Nat)
      OBVIOUS
    <3> QED BY <1>2, <1>8, <3>1, ModesDiffer, Zenon DEF Folded
  <2>3. Appending(plain, LogOf(plain, packed), NoJob, "lost")
    BY <1>6, ModesDiffer
  <2> QED BY <1>0, <1>1, <1>2, <1>4, <1>5, <1>7, <1>8, <2>1, <2>2, <2>3, Zenon DEF SInv
<1>9. CASE written # <<>>
  <2>1. writer' = "ready"
    BY <1>1, <1>4, <1>9, Zenon
  <2>2. Folded(LogOf(plain, packed), "ready", NoJob, written, written)
    BY <1>2, ModesDiffer, Zenon DEF Folded
  <2>3. Appending(plain, LogOf(plain, packed), NoJob, "ready")
    BY <1>6, ModesDiffer
  <2>4. writer' # "lost"
    BY <2>1, ModesDiffer
  <2> QED BY <1>0, <1>1, <1>2, <1>4, <1>5, <1>7, <2>1, <2>2, <2>3, <2>4, Zenon DEF SInv
<1> QED BY <1>8, <1>9

\* The compressor.
LEMMA WorkIs ==
  ASSUME NEW P, NEW Q, NEW p \in {"wait", "list", "check", "packed", "renamed"}, NEW a \in Nat, NEW t \in SUBSET Nat, t \subseteq DOMAIN P,
         p \in {"packed", "renamed"} => t # {} /\ Min(t) < Active(P), p = "renamed" => Min(t) \in DOMAIN Q
  PROVE  Compressing(P, Q, [pc |-> p, active |-> a, todo |-> t])
<1>c. PICK c : c = [pc |-> p, active |-> a, todo |-> t]
  OBVIOUS
<1>1. c.pc = p /\ c.active = a /\ c.todo = t /\ c \in [pc : {"wait", "list", "check", "packed", "renamed"}, active : Nat, todo : SUBSET Nat]
  BY <1>c
<1>2. Compressing(P, Q, c)
  BY <1>1, Zenon DEF Compressing
<1> QED BY <1>2, <1>c

\* The work as a record.
LEMMA WorkParts ==
  ASSUME NEW P, NEW Q, NEW c, Compressing(P, Q, c)
  PROVE  /\ c = [pc |-> c.pc, active |-> c.active, todo |-> c.todo]
         /\ c.pc \in {"wait", "list", "check", "packed", "renamed"} /\ c.active \in Nat /\ c.todo \in SUBSET Nat /\ c.todo \subseteq DOMAIN P
  BY DEF Compressing

Numbers == SUBSET Nat
Stages == {"wait", "list", "check", "packed", "renamed"}
Works == [pc : Stages, active : Nat, todo : Numbers]
Turned(c, q, u) == [c EXCEPT !.pc = q, !.todo = u]
LEMMA Restaged ==
  ASSUME NEW c \in Works, NEW q \in Stages, NEW u \in Numbers
  PROVE  Turned(c, q, u) \in Works /\ Turned(c, q, u).pc = q /\ Turned(c, q, u).todo = u
  BY DEF Works, Turned
LEMMA Repc ==
  ASSUME NEW c \in Works, NEW q \in {"wait", "list", "check", "packed", "renamed"}
  PROVE  [c EXCEPT !.pc = q] \in Works /\ [c EXCEPT !.pc = q].pc = q /\ [c EXCEPT !.pc = q].todo = c.todo
  BY DEF Works, Stages

\* What a work of these parts is.
LEMMA WorkOf ==
  ASSUME NEW P, NEW Q, NEW c \in Works, c.todo \subseteq DOMAIN P,
         c.pc \in {"packed", "renamed"} => c.todo # {} /\ Min(c.todo) < Active(P), c.pc = "renamed" => Min(c.todo) \in DOMAIN Q
  PROVE  Compressing(P, Q, c)
  BY Zenon DEF Compressing, Works, Stages, Numbers
LEMMA NextWork ==
  ASSUME NEW P, NEW Q, NEW c, Compressing(P, Q, c), NEW P2, NEW Q2, DOMAIN P \ {Min(c.todo)} \subseteq DOMAIN P2
  PROVE  Compressing(P2, Q2, [c EXCEPT !.pc = "check", !.todo = @ \ {Min(c.todo)}])
<1>1. c \in Works /\ c.todo \in Numbers /\ c.todo \subseteq DOMAIN P
  BY DEF Compressing, Works, Numbers, Stages
<1>u. PICK u \in Numbers : u = c.todo \ {Min(c.todo)}
  BY <1>1 DEF Numbers
<1>2. u \subseteq DOMAIN P2
  BY <1>1, <1>u
<1>y. PICK y \in Stages : y = "check"
  BY DEF Stages
<1>3. y \notin {"packed", "renamed"} /\ y # "renamed"
  BY <1>y
<1>r. PICK r : r = Turned(c, y, u)
  OBVIOUS
<1>4. r \in Works /\ r.pc = y /\ r.todo = u
  <2>1. c \in Works
    BY <1>1
  <2>2. Turned(c, y, u) \in Works /\ Turned(c, y, u).pc = y /\ Turned(c, y, u).todo = u
    BY <2>1, Restaged
  <2> QED BY <1>r, <2>2, Zenon
<1>5. Compressing(P2, Q2, r)
  BY <1>2, <1>3, <1>4, WorkOf
<1>6. [c EXCEPT !.pc = "check", !.todo = @ \ {Min(c.todo)}] = Turned(c, "check", c.todo \ {Min(c.todo)})
  BY DEF Turned
<1> QED BY <1>5, <1>6, <1>r, <1>u, <1>y, Zenon

LEMMA NextSourceIs == NextSource = [comp EXCEPT !.pc = "check", !.todo = @ \ {Min(comp.todo)}] /\ Source = Min(comp.todo)
  BY DEF NextSource, Source

\* Only the compressor's own state changes.
LEMMA WorkHolds ==
  ASSUME SInv, UNCHANGED <<plain, packed, cache, job, writer, state, written>>, Compressing(plain, packed, comp')
  PROVE  SInv'
  BY Zenon DEF SInv

\* A packed segment, not the last, is removed.
LEMMA RemovalHolds ==
  ASSUME SInv, UNCHANGED <<packed, cache, job, writer, state, written>>, Source \in comp.todo, Source # Active(plain), Source \in DOMAIN packed,
         plain' = Restrict(plain, DOMAIN plain \ {Source}), comp' = NextSource
  PROVE  SInv'
<1>0. Tidy(plain, packed) /\ Appending(plain, LogOf(plain, packed), job, writer) /\ Remembers(plain, writer, cache)
      /\ Folded(LogOf(plain, packed), writer, job, state, written) /\ Compressing(plain, packed, comp)
  BY Zenon DEF SInv
<1>s. PICK s : s = Source
  OBVIOUS
<1>W. PICK W : W = plain'
  OBVIOUS
<1>1. s \in DOMAIN plain /\ s \in DOMAIN packed /\ W = Restrict(plain, DOMAIN plain \ {s})
  BY <1>0, <1>W, <1>s, WorkParts
<1>2. Tidy(W, packed) /\ LogOf(W, packed) = LogOf(plain, packed) /\ Active(W) = Active(plain)
      /\ DOMAIN W = DOMAIN plain \ {s} /\ \A n \in DOMAIN W : W[n] = plain[n]
  BY <1>0, <1>1, TidyRemoved
<1>3. Active(plain) \in DOMAIN plain => Active(plain) \in DOMAIN W /\ W[Active(plain)] = plain[Active(plain)]
  BY <1>2, <1>s
<1>4. Appending(W, LogOf(plain, packed), job, writer)
  <2> SUFFICES ASSUME writer = "busy"
               PROVE  /\ job = [name |-> job.name, lines |-> job.lines, done |-> job.done]
                      /\ job.name = Active(W) /\ job.name \in DOMAIN W
                      /\ OneBatch(job.lines) /\ job.done \in 0..Len(job.lines)
                      /\ Grows(W[job.name].lines, job.lines, job.done, job.name)
                      /\ job.done < Len(job.lines) => SoundNext(LogOf(plain, packed), job.lines)
    BY Zenon DEF Appending
  <2>1. /\ job = [name |-> job.name, lines |-> job.lines, done |-> job.done]
        /\ job.name = Active(plain) /\ job.name \in DOMAIN plain
        /\ OneBatch(job.lines) /\ job.done \in 0..Len(job.lines)
        /\ Grows(plain[job.name].lines, job.lines, job.done, job.name)
        /\ job.done < Len(job.lines) => SoundNext(LogOf(plain, packed), job.lines)
    BY <1>0, Zenon DEF Appending
  <2> QED BY <1>2, <1>3, <2>1, Zenon
<1>5. Remembers(W, writer, cache)
  BY <1>0, <1>2, <1>3, Zenon DEF Remembers
<1>6. Compressing(W, packed, comp')
  <2>1. DOMAIN plain \ {Min(comp.todo)} \subseteq DOMAIN W
    BY <1>2, <1>s, NextSourceIs
  <2>2. Compressing(W, packed, [comp EXCEPT !.pc = "check", !.todo = @ \ {Min(comp.todo)}])
    BY <1>0, <2>1, NextWork
  <2> QED BY <2>2, NextSourceIs, Zenon
<1> QED BY <1>0, <1>2, <1>4, <1>5, <1>6, <1>W, Zenon DEF SInv

\* The segment whose turn it is.
LEMMA SourceIs == ASSUME SInv, comp.todo # {} PROVE Source \in comp.todo /\ Source \in Nat /\ Source \in DOMAIN plain
<1>1. comp.todo \in SUBSET Nat /\ comp.todo \subseteq DOMAIN plain
  BY WorkParts DEF SInv
<1>2. Min(comp.todo) \in comp.todo
  BY <1>1, MinIs
<1> QED BY <1>1, <1>2, NextSourceIs

LEMMA ScanActiveHolds == ASSUME SInv, ScanActive PROVE SInv'
<1>1. UNCHANGED <<plain, packed, cache, job, writer, state, written>> /\ comp' = [NoWork EXCEPT !.pc = "list", !.active = Active(plain)]
  BY Zenon DEF ScanActive, disk, appending
<1>a. PICK a \in Nat : a = Active(plain)
  BY ActiveIs DEF SInv
<1>2. comp' = [pc |-> "list", active |-> a, todo |-> {}]
  <2>1. comp' = [[pc |-> "wait", active |-> 0, todo |-> {}] EXCEPT !.pc = "list", !.active = a]
    BY <1>1, <1>a, Zenon DEF NoWork
  <2> QED BY <2>1
<1>y. PICK y \in {"wait", "list", "check", "packed", "renamed"} : y = "list"
  OBVIOUS
<1>t. PICK t \in SUBSET Nat : t = {}
  OBVIOUS
<1>3. y \notin {"packed", "renamed"} /\ y # "renamed" /\ t \subseteq DOMAIN plain
  BY <1>t, <1>y
<1>4. Compressing(plain, packed, [pc |-> y, active |-> a, todo |-> t])
  BY <1>3, WorkIs
<1>5. Compressing(plain, packed, comp')
  BY <1>2, <1>4, <1>t, <1>y, Zenon
<1> QED BY <1>1, <1>5, WorkHolds

LEMMA ListSealedHolds == ASSUME SInv, ListSealed PROVE SInv'
<1>1. UNCHANGED <<plain, packed, cache, job, writer, state, written>>
      /\ comp' = [comp EXCEPT !.pc = "check", !.todo = DOMAIN plain \ {comp.active}]
  BY Zenon DEF ListSealed, disk, appending
<1>0. Tidy(plain, packed) /\ Compressing(plain, packed, comp)
  BY DEF SInv
<1>2. comp \in Works
  BY <1>0 DEF Compressing, Works, Numbers, Stages
<1>3. DOMAIN plain \in SUBSET Nat
  <2>1. DOMAIN plain \subseteq 1..MaxSeq
    <3>1. Names(plain, packed) \subseteq 1..MaxSeq
      BY <1>0, LinesAre
    <3> QED BY <3>1 DEF Names
  <2> QED BY <2>1, MaxSeqIs
<1>t. PICK t \in SUBSET Nat : t = DOMAIN plain \ {comp.active}
  BY <1>3
<1>y. PICK y \in Stages : y = "check"
  BY DEF Stages
<1>r. PICK r : r = Turned(comp, y, t)
  OBVIOUS
<1>c. comp' = Turned(comp, "check", DOMAIN plain \ {comp.active})
  BY <1>1, Zenon DEF Turned
<1>4. r \in Works /\ r.pc = y /\ r.todo = t /\ comp' = r
  <2>1. t \in Numbers
    BY DEF Numbers
  <2>2. Turned(comp, y, t) \in Works /\ Turned(comp, y, t).pc = y /\ Turned(comp, y, t).todo = t
    BY <1>2, <2>1, Restaged
  <2> QED BY <1>c, <1>r, <1>t, <1>y, <2>2, Zenon
<1>5. y \notin {"packed", "renamed"} /\ y # "renamed" /\ t \subseteq DOMAIN plain
  BY <1>t, <1>y
<1>6. Compressing(plain, packed, r)
  BY <1>4, <1>5, WorkOf
<1>7. Compressing(plain, packed, comp')
  BY <1>4, <1>6, Zenon
<1> QED BY <1>1, <1>7, WorkHolds

LEMMA SkipSourceHolds == ASSUME SInv, SkipSource PROVE SInv'
<1>1. UNCHANGED <<plain, packed, cache, job, writer, state, written>> /\ comp' = NextSource
  BY Zenon DEF SkipSource, disk, appending
<1>2. Compressing(plain, packed, [comp EXCEPT !.pc = "check", !.todo = @ \ {Min(comp.todo)}])
  <2>1. DOMAIN plain \ {Min(comp.todo)} \subseteq DOMAIN plain
    OBVIOUS
  <2>2. Compressing(plain, packed, comp)
    BY DEF SInv
  <2> QED BY <2>1, <2>2, NextWork
<1>3. Compressing(plain, packed, comp')
  BY <1>1, <1>2, NextSourceIs, Zenon
<1> QED BY <1>1, <1>3, WorkHolds

LEMMA CompressionFailsHolds == ASSUME SInv, CompressionFails PROVE SInv'
<1>1. UNCHANGED <<plain, packed, cache, job, writer, state, written>> /\ comp' = NextSource
  BY Zenon DEF CompressionFails, appending
<1>2. Compressing(plain, packed, [comp EXCEPT !.pc = "check", !.todo = @ \ {Min(comp.todo)}])
  <2>1. DOMAIN plain \ {Min(comp.todo)} \subseteq DOMAIN plain
    OBVIOUS
  <2>2. Compressing(plain, packed, comp)
    BY DEF SInv
  <2> QED BY <2>1, <2>2, NextWork
<1>3. Compressing(plain, packed, comp')
  BY <1>1, <1>2, NextSourceIs, Zenon
<1> QED BY <1>1, <1>3, WorkHolds

LEMMA RestHolds == ASSUME SInv, Rest PROVE SInv'
<1>1. UNCHANGED <<plain, packed, cache, job, writer, state, written>> /\ comp' = NoWork
  BY Zenon DEF Rest, disk, appending
<1>2. Compressing(plain, packed, NoWork)
  <2>1. NoWork.pc = "wait" /\ NoWork.todo = {} /\ NoWork \in [pc : {"wait", "list", "check", "packed", "renamed"}, active : Nat, todo : SUBSET Nat]
    BY DEF NoWork
  <2> QED BY <2>1 DEF Compressing
<1> QED BY <1>1, <1>2, WorkHolds, Zenon

LEMMA RemoveLeftoverHolds == ASSUME SInv, RemoveLeftover PROVE SInv'
<1>1. /\ UNCHANGED <<packed, cache, job, writer, state, written>> /\ comp.todo # {} /\ Source # Active(plain) /\ Source \in DOMAIN packed
      /\ plain' = Restrict(plain, DOMAIN plain \ {Source}) /\ comp' = NextSource
  BY Zenon DEF RemoveLeftover, appending, StillActive
<1>2. Source \in comp.todo
  BY <1>1, SourceIs
<1> QED BY <1>1, <1>2, RemovalHolds

\* The segment being packed is not the last.
LEMMA SourceSealed ==
  ASSUME SInv, comp.pc \in {"packed", "renamed"}
  PROVE  /\ comp.todo # {} /\ Source \in comp.todo /\ Source < Active(plain) /\ Source # Active(plain) /\ Source \in DOMAIN plain
         /\ comp.pc = "renamed" => Source \in DOMAIN packed
<1>0. Tidy(plain, packed) /\ Compressing(plain, packed, comp)
  BY DEF SInv
<1>1. comp.todo # {} /\ Min(comp.todo) < Active(plain) /\ (comp.pc = "renamed" => Min(comp.todo) \in DOMAIN packed)
  BY <1>0 DEF Compressing
<1>2. Source \in comp.todo /\ Source \in Nat /\ Source \in DOMAIN plain
  BY <1>1, SourceIs
<1>3. Source < Active(plain)
  BY <1>1, NextSourceIs
<1>s. PICK s \in Nat, a \in Nat : s = Source /\ a = Active(plain)
  BY <1>0, <1>2, ActiveIs
<1>4. s # a
  <2>1. s < a
    BY <1>3, <1>s
  <2> QED BY <2>1
<1> QED BY <1>1, <1>2, <1>3, <1>4, <1>s, NextSourceIs, Zenon

LEMMA RemoveSourceHolds == ASSUME SInv, RemoveSource PROVE SInv'
<1>1. /\ UNCHANGED <<packed, cache, job, writer, state, written>> /\ comp.pc = "renamed"
      /\ plain' = Restrict(plain, DOMAIN plain \ {Source}) /\ comp' = NextSource
  BY Zenon DEF RemoveSource, appending
<1>2. Source \in comp.todo /\ Source # Active(plain) /\ Source \in DOMAIN packed
  BY <1>1, SourceSealed
<1> QED BY <1>1, <1>2, RemovalHolds

LEMMA PackHolds == ASSUME SInv, Pack PROVE SInv'
<1>1. /\ UNCHANGED <<plain, packed, cache, job, writer, state, written>> /\ comp.todo # {} /\ Source # Active(plain)
      /\ comp' = [comp EXCEPT !.pc = "packed"]
  BY Zenon DEF Pack, appending, StillActive
<1>0. Tidy(plain, packed) /\ Compressing(plain, packed, comp)
  BY DEF SInv
<1>2. comp \in Works /\ comp.todo \in SUBSET Nat /\ comp.todo \subseteq DOMAIN plain
  BY <1>0 DEF Compressing, Works, Numbers, Stages
<1>t. PICK t \in SUBSET Nat : t = comp.todo
  BY <1>2
<1>y. PICK y \in {"wait", "list", "check", "packed", "renamed"} : y = "packed"
  OBVIOUS
<1>r. PICK r : r = [comp EXCEPT !.pc = y]
  OBVIOUS
<1>3. r \in Works /\ r.pc = y /\ r.todo = t /\ comp' = r
  BY <1>1, <1>2, <1>r, <1>t, <1>y, Repc, Zenon
<1>4. t # {} /\ Min(t) < Active(plain) /\ t \subseteq DOMAIN plain
  <2>1. Source \in Nat /\ Source \in DOMAIN plain /\ Source = Min(t)
    BY <1>1, <1>t, SourceIs, NextSourceIs
  <2>s. PICK s \in Nat, b \in Nat : s = Source /\ b = Active(plain)
    BY <1>0, <2>1, ActiveIs
  <2>2. s <= b /\ s # b
    <3>1. s \in Names(plain, packed)
      BY <2>1, <2>s DEF Names
    <3>2. s <= b
      BY <1>0, <2>1, <2>s, <3>1, ActiveIs
    <3> QED BY <1>1, <2>s, <3>2
  <2>3. s < b
    BY <2>2
  <2> QED BY <1>1, <1>2, <1>t, <2>1, <2>3, <2>s, Zenon
<1>5. y # "renamed"
  BY <1>y
<1>6. Compressing(plain, packed, r)
  BY <1>3, <1>4, <1>5, WorkOf
<1>7. Compressing(plain, packed, comp')
  BY <1>3, <1>6, Zenon
<1> QED BY <1>1, <1>7, WorkHolds

LEMMA RenameHolds == ASSUME SInv, Rename PROVE SInv'
<1>1. /\ UNCHANGED <<plain, cache, job, writer, state, written>> /\ comp.pc = "packed"
      /\ packed' = Opened(packed, Source, CompletePrefix(plain[Source].lines)) /\ comp' = [comp EXCEPT !.pc = "renamed"]
  BY Zenon DEF Rename, appending
<1>0. Tidy(plain, packed) /\ Appending(plain, LogOf(plain, packed), job, writer) /\ Remembers(plain, writer, cache)
      /\ Folded(LogOf(plain, packed), writer, job, state, written) /\ Compressing(plain, packed, comp)
  BY Zenon DEF SInv
<1>2. comp.todo # {} /\ Source < Active(plain) /\ Source \in DOMAIN plain
  BY <1>1, SourceSealed
<1>s. PICK s : s = Source
  OBVIOUS
<1>Q. PICK Q2 : Q2 = packed'
  OBVIOUS
<1>3. Tidy(plain, Q2) /\ LogOf(plain, Q2) = LogOf(plain, packed) /\ DOMAIN Q2 = DOMAIN packed \cup {s}
  <2>1. Named(plain[s].lines, s)
    BY <1>0, <1>2, <1>s, Zenon DEF Tidy
  <2>2. Packs(CompletePrefix(plain[s].lines), plain[s].lines, s)
    BY <2>1, PrefixPacks
  <2>3. Q2 = Opened(packed, s, CompletePrefix(plain[s].lines))
    BY <1>1, <1>Q, <1>s, Zenon
  <2>4. s \in DOMAIN plain /\ s < Active(plain)
    BY <1>2, <1>s
  <2>c. PICK c : c = CompletePrefix(plain[s].lines)
    OBVIOUS
  <2>5. Packs(c, plain[s].lines, s)
    BY <2>2, <2>c
  <2>6. Tidy(plain, Opened(packed, s, c)) /\ LogOf(plain, Opened(packed, s, c)) = LogOf(plain, packed)
        /\ DOMAIN Opened(packed, s, c) = DOMAIN packed \cup {s}
    BY <1>0, <2>4, <2>5, TidyPacked
  <2> QED BY <2>3, <2>6, <2>c, Zenon
<1>4. comp \in Works /\ comp.todo \in SUBSET Nat /\ comp.todo \subseteq DOMAIN plain
  BY <1>0 DEF Compressing, Works, Numbers, Stages
<1>t. PICK t \in SUBSET Nat : t = comp.todo
  BY <1>4
<1>y. PICK y \in {"wait", "list", "check", "packed", "renamed"} : y = "renamed"
  OBVIOUS
<1>r. PICK r : r = [comp EXCEPT !.pc = y]
  OBVIOUS
<1>5. r \in Works /\ r.pc = y /\ r.todo = t /\ comp' = r
  BY <1>1, <1>4, <1>r, <1>t, <1>y, Repc, Zenon
<1>6. t # {} /\ Min(t) < Active(plain) /\ t \subseteq DOMAIN plain /\ Min(t) \in DOMAIN Q2
  <2>1. Source = Min(t)
    BY <1>t, NextSourceIs
  <2>2. s \in DOMAIN Q2
    BY <1>3
  <2> QED BY <1>2, <1>4, <1>s, <1>t, <2>1, <2>2, Zenon
<1>7. Compressing(plain, Q2, r)
  BY <1>5, <1>6, WorkOf
<1>8. Compressing(plain, Q2, comp')
  BY <1>5, <1>7, Zenon
<1> QED BY <1>0, <1>1, <1>3, <1>8, <1>Q, Zenon DEF SInv

\* The reader changes nothing but its own state.
LEMMA QueriesHold ==
  ASSUME SInv, Ask \/ MissSegment \/ ReadAfter \/ AnswerAfter \/ CountSegment \/ TakeSegment \/ AnswerBefore
  PROVE  SInv' /\ UNCHANGED <<plain, packed, cache, job, writer, state, written, comp>>
<1>1. UNCHANGED <<disk, appending, comp, faults>>
  BY Zenon DEF Ask, MissSegment, ReadAfter, AnswerAfter, CountSegment, TakeSegment, AnswerBefore
<1>2. UNCHANGED <<plain, packed, cache, job, writer, state, written, comp>>
  BY <1>1, Zenon DEF disk, appending
<1> QED BY <1>2, IdleHolds

\* The compressor leaves what the writer knows alone.
LEMMA WorkLeaves ==
  ASSUME ScanActive \/ ListSealed \/ SkipSource \/ RemoveLeftover \/ Pack \/ Rename \/ RemoveSource \/ CompressionFails \/ Rest
  PROVE  UNCHANGED appending
  BY Zenon DEF ScanActive, ListSealed, SkipSource, RemoveLeftover, Pack, Rename, RemoveSource, CompressionFails, Rest

LEMMA WorkKeeps ==
  ASSUME SInv, ScanActive \/ ListSealed \/ SkipSource \/ RemoveLeftover \/ Pack \/ Rename \/ RemoveSource \/ CompressionFails \/ Rest
  PROVE  SInv'
  BY ScanActiveHolds, ListSealedHolds, SkipSourceHolds, RemoveLeftoverHolds, PackHolds, RenameHolds, RemoveSourceHolds, CompressionFailsHolds,
     RestHolds

\* Every step of the writer, the compressor and the reader keeps the invariant.
LEMMA SegmentsStep == SInv /\ [Next]_vars => SInv'
<1> SUFFICES ASSUME SInv, [Next]_vars PROVE SInv'
  OBVIOUS
<1>1. CASE UNCHANGED vars
  <2>1. UNCHANGED <<plain, packed, cache, job, writer, state, written, comp>>
    BY <1>1, Zenon DEF vars
  <2> QED BY <2>1, IdleHolds
<1>2. CASE Ask \/ MissSegment \/ ReadAfter \/ AnswerAfter \/ CountSegment \/ TakeSegment \/ AnswerBefore
  BY <1>2, QueriesHold
<1>3. CASE ScanActive \/ ListSealed \/ SkipSource \/ RemoveLeftover \/ Pack \/ Rename \/ RemoveSource \/ CompressionFails \/ Rest
  BY <1>3, WorkKeeps
<1>4. CASE AppendBatch \/ AppendSnapshot \/ RefuseAppend \/ WritePart \/ WriteLine \/ Acknowledge \/ AppendFails \/ Recover \/ Kill
  BY <1>4, AppendBatchHolds, AppendSnapshotHolds, RefuseAppendHolds, WritePartHolds, WriteLineIs, AcknowledgeHolds, AppendFailsHolds, RecoverHolds,
     KillHolds, Zenon
<1> QED BY <1>1, <1>2, <1>3, <1>4, Zenon DEF Next

LEMMA HistoryIs == ASSUME SInv PROVE Log = LogOf(plain, packed) /\ History = written /\ (writer = "lost" => written = <<>>)
<1>1. Folded(LogOf(plain, packed), writer, job, state, written)
  BY DEF SInv
<1>2. Log = LogOf(plain, packed)
  BY Zenon DEF Log, LogOf
<1>3. Records(LogOf(plain, packed)) = written /\ (writer = "lost" => written = <<>>)
  BY <1>1, Zenon DEF Folded
<1> QED BY <1>2, <1>3, Zenon DEF History

LEMMA WholeFollows == SInv => LogWhole
<1> SUFFICES ASSUME SInv PROVE LogWhole
  OBVIOUS
<1>1. Tidy(plain, packed)
  BY DEF SInv
<1>2. ASSUME NEW n \in Names(plain, packed)
      PROVE  Reverse(CommitsReverse(LinesOf(plain, packed, n))) = CommitsForward(<<LinesOf(plain, packed, n)>>)
  <2>1. Formed(LinesOf(plain, packed, n))
    BY <1>1, LinesAre
  <2> QED BY <2>1, EndsMeet
<1>3. EndsAgree
  BY <1>2, Zenon DEF EndsAgree
<1>4. NothingLost
  BY HistoryIs, Zenon DEF NothingLost
<1> QED BY <1>3, <1>4 DEF LogWhole

\* Whatever crashes and I/O errors leave in the files, however appends and compression interleave,
\* each segment reads the same from both of its ends, and reading all of them gives exactly the
\* events of the batches that were written to their end (log.rs, both directions of CommitStream;
\* compression.rs).
THEOREM LogIsWhole == Spec => []LogWhole
<1>1. Spec => []SInv
  BY InitHolds, SegmentsStep, PTL DEF Spec
<1> QED BY <1>1, WholeFollows, PTL

\* The refinement of DurableLog: what of a batch is not in the log yet, and the writer's mode.
BatchLeft(j) == IF j.done < Len(j.lines) THEN Records(<<j.lines>>) ELSE <<>>
Mode(w) == IF w = "lost" THEN "unsure" ELSE w
LEMMA LeftNone == BatchLeft(NoJob) = <<>>
<1>1. NoJob.lines = <<>> /\ NoJob.done = 0
  BY DEF NoJob, NoLines
<1>2. ~(0 < Len(<<>>))
  OBVIOUS
<1> QED BY <1>1, <1>2, Zenon DEF BatchLeft
LEMMA ModeIs == Mode("ready") = "ready" /\ Mode("busy") = "busy" /\ Mode("unsure") = "unsure" /\ Mode("lost") = "unsure"
  BY ModesDiffer, Zenon DEF Mode

LEMMA BeginMaps ==
  ASSUME Mode(writer) = "ready", Mode(writer') = "busy", BatchLeft(job') \in Seq(1..MaxSeq), written' = written, state' = state
  PROVE  Persistent!Next
  BY Zenon DEF Persistent!Next, Persistent!Begin, Mode, BatchLeft
LEMMA CommitMaps ==
  ASSUME Mode(writer) = "busy", written' = written \o BatchLeft(job), BatchLeft(job') = <<>>, writer' = writer, state' = state
  PROVE  Persistent!Next
  BY Zenon DEF Persistent!Next, Persistent!Commit, Mode, BatchLeft
LEMMA AcknowledgeMaps ==
  ASSUME Mode(writer) = "busy", BatchLeft(job) = <<>>, Mode(writer') = "ready", BatchLeft(job') = <<>>, state' = written, written' = written
  PROVE  Persistent!Next
  BY Zenon DEF Persistent!Next, Persistent!Acknowledge, Mode, BatchLeft
LEMMA LoseTrackMaps ==
  ASSUME Mode(writer') = "unsure", BatchLeft(job') = <<>>, state' = <<>>, written' = written
  PROVE  Persistent!Next
  BY Zenon DEF Persistent!Next, Persistent!LoseTrack, Mode, BatchLeft
LEMMA RecoverMaps ==
  ASSUME Mode(writer) = "unsure", Mode(writer') = "ready", state' = written, BatchLeft(job') = BatchLeft(job), written' = written
  PROVE  Persistent!Next
  BY Zenon DEF Persistent!Next, Persistent!Recover, Mode, BatchLeft
LEMMA StutterMaps ==
  ASSUME Mode(writer') = Mode(writer), state' = state, BatchLeft(job') = BatchLeft(job), written' = written
  PROVE  UNCHANGED Persistent!vars
  BY Zenon DEF Persistent!vars, Mode, BatchLeft

\* The events of a batch.
LEMMA BatchEvents == ASSUME NEW b, OneBatch(b) PROVE Records(<<b>>) \in Seq(1..MaxSeq)
<1> DEFINE S == {x \in Line : x.seq \in 1..MaxSeq}
           V == Seq(1..MaxSeq)
<1>1. ASSUME NEW v \in V, NEW x \in S PROVE Seen(v, x) \in V
  <2>e. PICK e \in 1..MaxSeq : e = x.seq
    OBVIOUS
  <2>1. Append(v, e) \in V
    OBVIOUS
  <2> QED BY <2>1, <2>e, Zenon DEF Seen
<1>2. b \in Seq(S) /\ b \in Batches
  <2>1. b \in Seq(Line) /\ \A i \in 1..Len(b) : b[i].seq \in 1..MaxSeq
    BY DEF OneBatch
  <2>2. \A i \in 1..Len(b) : b[i] \in S
    BY <2>1
  <2> QED BY <2>1, <2>2 DEF Batches
<1>3. <<>> \in V
  OBVIOUS
<1> HIDE DEF S, V
<1>4. See!Fold(<<>>, b) \in V
  BY <1>1, <1>2, <1>3, See!FoldKeeps
<1>5. Records(<<b>>) = See!Fold(<<>>, b)
  <2>1. <<>> \in Seq(Batches) /\ <<b>> = Append(<<>>, b)
    BY <1>2
  <2>2. Records(Append(<<>>, b)) = See!Fold(Records(<<>>), b)
    BY <1>2, <2>1, RecordsMore
  <2> QED BY <2>1, <2>2, RecordsNone, Zenon
<1> QED BY <1>4, <1>5, Zenon DEF V

LEMMA IdleJob == ASSUME SInv, writer # "busy" PROVE job = NoJob
  BY Zenon DEF SInv, Folded

LEMMA AppendMaps == ASSUME SInv, SInv', AppendBatch \/ AppendSnapshot PROVE Persistent!Next
<1>1. PICK count, kind, cut : Begin(count, kind, cut)
  BY Zenon DEF AppendBatch, AppendSnapshot
<1>2. writer = "ready" /\ writer' = "busy" /\ written' = written /\ state' = state /\ job'.done = 0
  <2>1. \E name : job' = [name |-> name, lines |-> Batch(Base, count, kind, state), done |-> 0]
    BY <1>1, Zenon DEF Begin
  <2>2. job'.done = 0
    BY <2>1
  <2> QED BY <1>1, <2>2, Zenon DEF Begin
<1>j. PICK j : j = job'
  OBVIOUS
<1>3. OneBatch(j.lines)
  BY <1>2, <1>j, Zenon DEF SInv, Appending
<1>4. 0 < Len(j.lines)
  BY <1>3 DEF OneBatch
<1>5. BatchLeft(j) = Records(<<j.lines>>)
  BY <1>2, <1>4, <1>j, Zenon DEF BatchLeft
<1>6. BatchLeft(j) \in Seq(1..MaxSeq)
  BY <1>3, <1>5, BatchEvents
<1>7. Mode(writer) = "ready" /\ Mode(writer') = "busy"
  BY <1>2, ModeIs, Zenon
<1>8. BatchLeft(job') \in Seq(1..MaxSeq)
  BY <1>6, <1>j
<1> QED BY <1>2, <1>7, <1>8, BeginMaps

LEMMA WriteMaps == ASSUME SInv, WriteLine PROVE Persistent!Next \/ UNCHANGED Persistent!vars
<1>1. /\ job.done < Len(job.lines) /\ job'.lines = job.lines /\ job'.done = job.done + 1 /\ job'.done \in Nat
      /\ job'.done <= Len(job.lines) /\ Len(job.lines) \in Nat
  BY WriteLineIs
<1>2. /\ writer = "busy" /\ writer' = writer /\ state' = state
      /\ written' = IF job'.done = Len(job.lines) THEN written \o Records(<<job.lines>>) ELSE written
  BY Zenon DEF WriteLine
<1>3. BatchLeft(job) = Records(<<job.lines>>)
  BY <1>1, Zenon DEF BatchLeft
<1>4. CASE job'.done = Len(job.lines)
  <2>1. ~(job'.done < Len(job.lines))
    BY <1>1, <1>4
  <2>2. BatchLeft(job') = <<>>
    BY <1>1, <2>1, Zenon DEF BatchLeft
  <2>3. written' = written \o BatchLeft(job)
    BY <1>2, <1>3, <1>4, Zenon
  <2>4. Mode(writer) = "busy"
    BY <1>2, ModeIs, Zenon
  <2> QED BY <1>2, <2>2, <2>3, <2>4, CommitMaps
<1>5. CASE job'.done # Len(job.lines)
  <2>1. job'.done < Len(job.lines)
    BY <1>1, <1>5
  <2>2. BatchLeft(job') = BatchLeft(job)
    BY <1>1, <1>3, <2>1, Zenon DEF BatchLeft
  <2>3. written' = written /\ Mode(writer') = Mode(writer)
    BY <1>2, <1>5, Zenon
  <2> QED BY <1>2, <2>2, <2>3, StutterMaps
<1> QED BY <1>4, <1>5

LEMMA AcknowledgeKeeps == ASSUME SInv, Acknowledge PROVE Persistent!Next
<1>1. writer = "busy" /\ writer' = "ready" /\ job.done = Len(job.lines) /\ job' = NoJob /\ written' = written
  BY Zenon DEF Acknowledge
<1>2. state' = written
  BY AcknowledgeHolds
<1>3. ~(job.done < Len(job.lines))
  <2>1. job.done \in 0..Len(job.lines) /\ Len(job.lines) \in Nat
    BY <1>1 DEF SInv, Appending, OneBatch
  <2> QED BY <1>1, <2>1
<1>4. BatchLeft(job) = <<>> /\ BatchLeft(job') = <<>>
  BY <1>1, <1>3, LeftNone, Zenon DEF BatchLeft
<1>5. Mode(writer) = "busy" /\ Mode(writer') = "ready"
  BY <1>1, ModeIs, Zenon
<1> QED BY <1>1, <1>2, <1>4, <1>5, AcknowledgeMaps

LEMMA LoseMaps == ASSUME SInv, AppendFails \/ Kill \/ RefuseAppend PROVE Persistent!Next
<1>1. writer' = "unsure" /\ state' = <<>> /\ written' = written
  BY Zenon DEF AppendFails, Kill, RefuseAppend
<1>2. job' = NoJob
  <2>1. CASE RefuseAppend
    <3>1. writer = "ready" /\ job' = job
      BY <2>1, Zenon DEF RefuseAppend
    <3> QED BY <3>1, ModesDiffer, IdleJob, Zenon
  <2>2. CASE AppendFails \/ Kill
    BY <2>2, Zenon DEF AppendFails, Kill
  <2> QED BY <2>1, <2>2
<1>3. Mode(writer') = "unsure" /\ BatchLeft(job') = <<>>
  BY <1>1, <1>2, ModeIs, LeftNone, Zenon
<1> QED BY <1>1, <1>3, LoseTrackMaps

LEMMA RecoveryMaps == ASSUME SInv, Recover PROVE Persistent!Next \/ UNCHANGED Persistent!vars
<1>1. /\ writer = "unsure" /\ writer' = (IF state' = <<>> THEN "lost" ELSE "ready") /\ job' = job /\ written' = written
  BY Zenon DEF Recover
<1>2. state' = written /\ (writer' = "lost" => written = <<>>)
  BY RecoverHolds
<1>3. BatchLeft(job') = BatchLeft(job)
  BY <1>1, Zenon
<1>4. Mode(writer) = "unsure"
  BY <1>1, ModeIs, Zenon
<1>5. CASE writer' = "ready"
  <2>1. Mode(writer') = "ready"
    BY <1>5, ModeIs, Zenon
  <2> QED BY <1>1, <1>2, <1>3, <1>4, <2>1, RecoverMaps
<1>6. CASE writer' = "lost"
  <2>1. Mode(writer') = Mode(writer)
    BY <1>4, <1>6, ModeIs, Zenon
  <2>2. state = <<>>
    BY <1>1, Zenon DEF SInv, Folded
  <2>3. state' = state
    BY <1>2, <1>6, <2>2, Zenon
  <2> QED BY <1>1, <1>3, <2>1, <2>3, StutterMaps
<1> QED BY <1>1, <1>5, <1>6, Zenon

LEMMA IdleMaps == ASSUME UNCHANGED <<job, writer, state, written>> PROVE UNCHANGED Persistent!vars
<1>1. Mode(writer') = Mode(writer) /\ BatchLeft(job') = BatchLeft(job)
  BY Zenon
<1> QED BY <1>1, StutterMaps

\* Every step is a step of DurableLog, or changes nothing of it.
LEMMA PersistentStep == SInv /\ SInv' /\ [Next]_vars => [Persistent!Next]_(Persistent!vars)
<1> SUFFICES ASSUME SInv, SInv', [Next]_vars PROVE Persistent!Next \/ UNCHANGED Persistent!vars
  BY Zenon
<1>1. CASE UNCHANGED vars
  <2>1. UNCHANGED <<job, writer, state, written>>
    BY <1>1, Zenon DEF vars
  <2> QED BY <2>1, IdleMaps
<1>2. CASE Ask \/ MissSegment \/ ReadAfter \/ AnswerAfter \/ CountSegment \/ TakeSegment \/ AnswerBefore
  <2>1. UNCHANGED <<plain, packed, cache, job, writer, state, written, comp>>
    BY <1>2, QueriesHold
  <2>2. UNCHANGED <<job, writer, state, written>>
    BY <2>1, Zenon
  <2> QED BY <2>2, IdleMaps
<1>3. CASE ScanActive \/ ListSealed \/ SkipSource \/ RemoveLeftover \/ Pack \/ Rename \/ RemoveSource \/ CompressionFails \/ Rest
  <2>1. UNCHANGED <<job, writer, state, written>>
    BY <1>3, WorkLeaves, Zenon DEF appending
  <2> QED BY <2>1, IdleMaps
<1>4. CASE WritePart
  <2>1. UNCHANGED <<job, writer, state, written>>
    BY <1>4, Zenon DEF WritePart, appending
  <2> QED BY <2>1, IdleMaps
<1>5. CASE AppendBatch \/ AppendSnapshot
  BY <1>5, AppendMaps
<1>6. CASE RefuseAppend \/ AppendFails \/ Kill
  BY <1>6, LoseMaps
<1>7. CASE WriteLine
  BY <1>7, WriteMaps
<1>8. CASE Acknowledge
  BY <1>8, AcknowledgeKeeps
<1>9. CASE Recover
  BY <1>9, RecoveryMaps
<1> QED BY <1>1, <1>2, <1>3, <1>4, <1>5, <1>6, <1>7, <1>8, <1>9, Zenon DEF Next

LEMMA PersistentInit == Init => Persistent!Init
<1> SUFFICES ASSUME Init PROVE Persistent!Init
  OBVIOUS
<1>1. job = NoJob /\ writer = "ready" /\ state = <<>> /\ written = <<>>
  BY Zenon DEF Init
<1>2. Mode(writer) = "ready" /\ BatchLeft(job) = <<>>
  BY <1>1, ModeIs, LeftNone, Zenon
<1> QED BY <1>1, <1>2, Zenon DEF Persistent!Init, Mode, BatchLeft

\* The segments implement DurableLog: whatever is written, synced, packed, removed, cut or read, and
\* wherever a kill or an I/O error strikes, a batch enters the log as a whole or not at all, an
\* acknowledged event stays, and a recovery folds exactly the log (store.rs, log.rs, compression.rs).
THEOREM SegmentsAreDurable == Spec => DurableLogHolds
<1>1. Spec => []SInv
  BY InitHolds, SegmentsStep, PTL DEF Spec
<1>2. SInv /\ SInv' /\ [Next]_vars => [Persistent!Next]_(Persistent!vars)
  BY PersistentStep
<1>3. Spec => Persistent!Spec
  BY <1>1, <1>2, PersistentInit, PTL DEF Spec, Persistent!Spec
<1> QED BY <1>3 DEF DurableLogHolds
=============================================================================
