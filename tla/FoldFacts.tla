----------------------------- MODULE FoldFacts -----------------------------
(***************************************************************************)
(* Induction over the natural numbers and over sequences, and what a left  *)
(* fold computes, for any operator.  A module that folds with an operator  *)
(* of its own instantiates this one with it.                               *)
(***************************************************************************)
EXTENDS Naturals, Sequences, WellFoundedInduction, TLAPS

CONSTANT Op(_, _)

\* The fold of SegmentLog (FoldLines), with the operator as the module's constant.
Chains(f, base, seq, n) ==
  f = [i \in 0..n |-> IF i = 0 THEN base ELSE CHOOSE r \in {Op(acc, seq[i]) : acc \in {f[i - 1]}} : TRUE]
Fold(base, seq) == (CHOOSE f : Chains(f, base, seq, Len(seq)))[Len(seq)]

LEMMA Least == ASSUME NEW T, T \subseteq Nat, T # {} PROVE \E m \in T : \A n \in T : ~(n < m)
<1> DEFINE R == OpToRel(<, Nat)
<1>1. \A m, n \in Nat : <<m, n>> \in R <=> m < n
  BY DEF OpToRel
<1>2. IsWellFoundedOn(R, Nat)
  BY NatLessThanWellFounded
<1> HIDE DEF R
<1>3. PICK m \in T : \A n \in T : ~(<<n, m>> \in R)
  BY <1>2, WFMin
<1> QED BY <1>1, <1>3

\* A set of numbers with 0 and the successor of each of its numbers has all of them.
LEMMA Induct == ASSUME NEW G, 0 \in G, \A n \in Nat : n \in G => n + 1 \in G PROVE \A n \in Nat : n \in G
<1> SUFFICES ASSUME NEW b \in Nat, b \notin G PROVE FALSE
  OBVIOUS
<1> DEFINE T == {n \in Nat : n \notin G}
<1>1. PICK m \in T : \A n \in T : ~(n < m)
  <2>1. T \subseteq Nat /\ T # {}
    OBVIOUS
  <2> HIDE DEF T
  <2> QED BY <2>1, Least
<1>2. m # 0 /\ m \in Nat /\ m - 1 \in Nat /\ m - 1 < m
  OBVIOUS
<1>3. m - 1 \in G
  BY <1>1, <1>2
<1> QED BY <1>2, <1>3

LEMMA FrontIs ==
  ASSUME NEW S, NEW s \in Seq(S), NEW n \in Nat, Len(s) = n + 1
  PROVE  \E t \in Seq(S) : Len(t) = n /\ s = Append(t, s[n + 1]) /\ s[n + 1] \in S
<1> PICK t : t = [i \in 1..n |-> s[i]]
  OBVIOUS
<1>1. t \in Seq(S) /\ Len(t) = n
  OBVIOUS
<1>2. Append(t, s[n + 1]) \in Seq(S) /\ Len(Append(t, s[n + 1])) = n + 1
  BY <1>1
<1>3. \A i \in 1..(n + 1) : Append(t, s[n + 1])[i] = s[i]
  BY <1>1
<1>4. s = Append(t, s[n + 1])
  BY <1>2, <1>3
<1> QED BY <1>1, <1>4

\* A set with <<>> and, with a sequence, all that are longer by one element has all.
LEMMA SeqInduct ==
  ASSUME NEW S, NEW G, <<>> \in G, \A s \in Seq(S), x \in S : s \in G => Append(s, x) \in G
  PROVE  \A s \in Seq(S) : s \in G
<1> DEFINE N == {n \in Nat : \A s \in Seq(S) : Len(s) = n => s \in G}
<1>1. 0 \in N
  OBVIOUS
<1>2. ASSUME NEW n \in Nat, n \in N PROVE n + 1 \in N
  <2> SUFFICES ASSUME NEW s \in Seq(S), Len(s) = n + 1 PROVE s \in G
    OBVIOUS
  <2>1. PICK t \in Seq(S) : Len(t) = n /\ s = Append(t, s[n + 1]) /\ s[n + 1] \in S
    BY FrontIs
  <2> QED BY <1>2, <2>1
<1> HIDE DEF N
<1>3. \A n \in Nat : n \in N
  BY <1>1, <1>2, Induct
<1> QED BY <1>3 DEF N

LEMMA ChainExists == ASSUME NEW base, NEW seq PROVE \A n \in Nat : \E f : Chains(f, base, seq, n)
<1> DEFINE G == {k \in Nat : \E f : Chains(f, base, seq, k)}
<1>1. 0 \in G
  <2> PICK f : f = [i \in 0..0 |-> base]
    OBVIOUS
  <2>1. Chains(f, base, seq, 0)
    BY DEF Chains
  <2> QED BY <2>1
<1>2. ASSUME NEW k \in Nat, k \in G PROVE k + 1 \in G
  <2>1. PICK f : Chains(f, base, seq, k)
    BY <1>2
  <2> PICK g : g = [i \in 0..(k + 1) |-> IF i = k + 1 THEN Op(f[k], seq[k + 1]) ELSE f[i]]
    OBVIOUS
  <2>2. ASSUME NEW i \in 0..(k + 1)
        PROVE  g[i] = IF i = 0 THEN base ELSE CHOOSE r \in {Op(acc, seq[i]) : acc \in {g[i - 1]}} : TRUE
    <3>1. CASE i = 0
      BY <2>1, <3>1 DEF Chains
    <3>2. CASE i = k + 1
      BY <3>2
    <3>3. CASE i # 0 /\ i # k + 1
      <4>1. i \in 0..k /\ i - 1 \in 0..k /\ i - 1 \in 0..(k + 1) /\ i - 1 # k + 1
        BY <3>3
      <4>2. g[i] = f[i] /\ g[i - 1] = f[i - 1]
        BY <3>3, <4>1
      <4>3. f[i] = CHOOSE r \in {Op(acc, seq[i]) : acc \in {f[i - 1]}} : TRUE
        BY <2>1, <3>3, <4>1 DEF Chains
      <4> QED BY <3>3, <4>2, <4>3
    <3> QED BY <3>1, <3>2, <3>3
  <2>3. Chains(g, base, seq, k + 1)
    BY <2>2 DEF Chains
  <2> QED BY <2>3
<1> HIDE DEF G
<1>3. \A n \in Nat : n \in G
  BY <1>1, <1>2, Induct
<1> QED BY <1>3 DEF G

\* A fold is a chain of steps from its base to its result.
Steps(f, base, seq) == f[0] = base /\ \A i \in 1..Len(seq) : f[i] = Op(f[i - 1], seq[i])
LEMMA ChainSteps ==
  ASSUME NEW base, NEW seq, NEW n \in Nat, n = Len(seq), NEW f, Chains(f, base, seq, n)
  PROVE  Steps(f, base, seq)
<1>1. f[0] = base
  BY DEF Chains
<1>2. ASSUME NEW i \in 1..n PROVE f[i] = Op(f[i - 1], seq[i])
  <2>1. i # 0 /\ i \in 0..n
    OBVIOUS
  <2>2. f[i] = CHOOSE r \in {Op(acc, seq[i]) : acc \in {f[i - 1]}} : TRUE
    BY <2>1 DEF Chains
  <2>3. {Op(acc, seq[i]) : acc \in {f[i - 1]}} = {Op(f[i - 1], seq[i])}
    OBVIOUS
  <2> QED BY <2>2, <2>3
<1> QED BY <1>1, <1>2 DEF Steps

LEMMA FoldSteps ==
  ASSUME NEW S, NEW seq \in Seq(S), NEW base
  PROVE  \E f : Steps(f, base, seq) /\ Fold(base, seq) = f[Len(seq)]
<1> PICK f : f = CHOOSE g : Chains(g, base, seq, Len(seq))
  OBVIOUS
<1>1. Len(seq) \in Nat
  OBVIOUS
<1>2. Chains(f, base, seq, Len(seq))
  BY <1>1, ChainExists, Zenon
<1>3. Fold(base, seq) = f[Len(seq)]
  BY DEF Fold
<1>4. Steps(f, base, seq)
  BY <1>1, <1>2, ChainSteps
<1> QED BY <1>3, <1>4

Begins(s, t) == Len(s) \in Nat /\ Len(t) \in Nat /\ Len(s) <= Len(t) /\ \A i \in 1..Len(s) : s[i] = t[i]
LEMMA StepsAgree ==
  ASSUME NEW s, NEW t, Begins(s, t), NEW base, NEW f, Steps(f, base, s), NEW g, Steps(g, base, t)
  PROVE  f[Len(s)] = g[Len(s)]
<1> PICK n \in Nat : n = Len(s)
  BY DEF Begins
<1>0. n <= Len(t) /\ Len(t) \in Nat /\ \A i \in 1..n : s[i] = t[i]
  BY DEF Begins
<1> DEFINE G == {i \in Nat : i <= n => f[i] = g[i]}
<1>1. 0 \in G
  BY DEF Steps
<1>2. ASSUME NEW i \in Nat, i \in G PROVE i + 1 \in G
  <2> SUFFICES ASSUME i + 1 <= n PROVE f[i + 1] = g[i + 1]
    OBVIOUS
  <2>1. i + 1 \in 1..n /\ i + 1 \in 1..Len(s) /\ i + 1 \in 1..Len(t) /\ (i + 1) - 1 = i /\ f[i] = g[i]
    BY <1>0, <1>2
  <2> QED BY <1>0, <2>1 DEF Steps
<1> HIDE DEF G
<1>3. \A i \in Nat : i \in G
  BY <1>1, <1>2, Induct
<1> QED BY <1>3 DEF G

LEMMA FoldNone == ASSUME NEW base, NEW seq, seq = <<>> PROVE Fold(base, seq) = base
<1>1. PICK f : Steps(f, base, seq) /\ Fold(base, seq) = f[Len(seq)]
  <2>1. seq \in Seq({})
    OBVIOUS
  <2> QED BY <2>1, FoldSteps
<1> QED BY <1>1 DEF Steps

LEMMA FoldMore ==
  ASSUME NEW S, NEW seq \in Seq(S), NEW x \in S, NEW base
  PROVE  Fold(base, Append(seq, x)) = Op(Fold(base, seq), x)
<1> PICK n \in Nat : n = Len(seq)
  OBVIOUS
<1> PICK more : more = Append(seq, x)
  OBVIOUS
<1>1. more \in Seq(S) /\ Len(more) = n + 1 /\ more[n + 1] = x /\ \A i \in 1..n : more[i] = seq[i]
  OBVIOUS
<1>2. PICK f : Steps(f, base, seq) /\ Fold(base, seq) = f[n]
  BY FoldSteps
<1>3. PICK g : Steps(g, base, more) /\ Fold(base, more) = g[n + 1]
  BY <1>1, FoldSteps
<1>4. g[n + 1] = Op(g[n], x)
  <2>1. n + 1 \in 1..Len(more) /\ (n + 1) - 1 = n
    BY <1>1
  <2> QED BY <1>1, <1>3, <2>1 DEF Steps
<1>5. f[n] = g[n]
  <2>1. Begins(seq, more)
    BY <1>1 DEF Begins
  <2>2. Steps(f, base, seq) /\ Steps(g, base, more)
    BY <1>1, <1>2, <1>3
  <2> QED BY <2>1, <2>2, StepsAgree
<1> QED BY <1>2, <1>3, <1>4, <1>5

\* What every step keeps, the fold has.
LEMMA FoldKeeps ==
  ASSUME NEW S, NEW V, NEW base \in V, \A v \in V, x \in S : Op(v, x) \in V
  PROVE  \A seq \in Seq(S) : Fold(base, seq) \in V
<1> DEFINE G == {seq \in Seq(S) : Fold(base, seq) \in V}
<1>1. <<>> \in G
  <2>1. Fold(base, <<>>) = base
    BY FoldNone
  <2> QED BY <2>1
<1>2. \A seq \in Seq(S), x \in S : seq \in G => Append(seq, x) \in G
  <2> SUFFICES ASSUME NEW seq \in Seq(S), NEW x \in S, seq \in G PROVE Append(seq, x) \in G
    OBVIOUS
  <2>1. Fold(base, Append(seq, x)) = Op(Fold(base, seq), x)
    BY FoldMore
  <2> QED BY <2>1
<1> HIDE DEF G
<1>3. \A seq \in Seq(S) : seq \in G
  BY <1>1, <1>2, SeqInduct
<1> QED BY <1>3 DEF G

LEMMA FoldJoin ==
  ASSUME NEW S, NEW s \in Seq(S), NEW base
  PROVE  \A t \in Seq(S) : Fold(base, s \o t) = Fold(Fold(base, s), t)
<1> DEFINE G == {t \in Seq(S) : Fold(base, s \o t) = Fold(Fold(base, s), t)}
<1>1. <<>> \in G
  <2>1. s \o <<>> = s
    OBVIOUS
  <2>2. Fold(Fold(base, s), <<>>) = Fold(base, s)
    BY FoldNone
  <2> QED BY <2>1, <2>2
<1>2. \A t \in Seq(S), x \in S : t \in G => Append(t, x) \in G
  <2> SUFFICES ASSUME NEW t \in Seq(S), NEW x \in S, t \in G PROVE Append(t, x) \in G
    OBVIOUS
  <2>1. s \o Append(t, x) = Append(s \o t, x) /\ s \o t \in Seq(S)
    OBVIOUS
  <2>2. Fold(base, Append(s \o t, x)) = Op(Fold(base, s \o t), x)
    BY <2>1, FoldMore
  <2>3. Fold(Fold(base, s), Append(t, x)) = Op(Fold(Fold(base, s), t), x)
    BY FoldMore
  <2>4. Fold(base, s \o Append(t, x)) = Fold(Fold(base, s), Append(t, x))
    BY <2>1, <2>2, <2>3
  <2>5. Append(t, x) \in Seq(S)
    OBVIOUS
  <2> QED BY <2>4, <2>5
<1> HIDE DEF G
<1>3. \A t \in Seq(S) : t \in G
  BY <1>1, <1>2, SeqInduct
<1> QED BY <1>3 DEF G
=============================================================================
