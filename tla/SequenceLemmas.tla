---------------------------- MODULE SequenceLemmas ---------------------------
(* What concatenation and subsequences do to the places of elements, and   *)
(* the least and the greatest of a set of numbers.                         *)
EXTENDS Integers, SequencesExt, SequenceTheorems, WellFoundedInduction, TLAPS

\* The sequence s is a with b behind it.
Extends(s, a, b) ==
  /\ Len(s) = Len(a) + Len(b)
  /\ \A i \in 1..Len(a) : s[i] = a[i]
  /\ \A i \in 1..Len(b) : s[Len(a) + i] = b[i]

LEMMA ConcatExtends ==
  ASSUME NEW S, NEW a \in Seq(S), NEW b \in Seq(S)
  PROVE  a \o b \in Seq(S) /\ Extends(a \o b, a, b)
<1>1. Len(a) \in Nat /\ Len(b) \in Nat
  BY LenProperties
<1>2. /\ a \o b \in Seq(S)
      /\ Len(a \o b) = Len(a) + Len(b)
      /\ \A i \in 1..Len(a) + Len(b) :
           (a \o b)[i] = IF i <= Len(a) THEN a[i] ELSE b[i - Len(a)]
  BY ConcatProperties
<1>3. ASSUME NEW i \in 1..Len(a)
      PROVE  (a \o b)[i] = a[i]
  <2>1. i \in 1..Len(a) + Len(b) /\ i <= Len(a)
    BY <1>1
  <2> QED
    BY <1>2, <2>1, Zenon
<1>4. ASSUME NEW i \in 1..Len(b)
      PROVE  (a \o b)[Len(a) + i] = b[i]
  <2> DEFINE j == Len(a) + i
  <2>1. j \in 1..Len(a) + Len(b) /\ ~ j <= Len(a) /\ j - Len(a) = i
    BY <1>1
  <2>2. (a \o b)[j] = b[j - Len(a)]
    BY <1>2, <2>1, Zenon
  <2> QED
    BY <2>1, <2>2
<1> QED
  BY <1>2, <1>3, <1>4 DEF Extends

\* The first m elements of a sequence, and what is left behind them.
LEMMA Splits ==
  ASSUME NEW S, NEW s \in Seq(S), NEW m \in 1..Len(s)
  PROVE  LET chunk == SubSeq(s, 1, m)
             rest == SubSeq(s, m + 1, Len(s))
         IN  /\ chunk \in Seq(S) /\ Len(chunk) = m
             /\ Head(chunk) = s[1] /\ Last(chunk) = s[m]
             /\ Range(chunk) \subseteq {s[i] : i \in 1..Len(s)}
             /\ rest \in Seq(S) /\ Len(rest) = Len(s) - m
             /\ \A i \in 1..Len(rest) : rest[i] = s[m + i]
<1> DEFINE chunk == SubSeq(s, 1, m)
           rest == SubSeq(s, m + 1, Len(s))
<1>1. Len(s) \in Nat
  BY LenProperties
<1>2. chunk = [i \in 1..m |-> s[i]] /\ chunk \in Seq(S) /\ Len(chunk) = m
  BY <1>1
<1>3. Head(chunk) = s[1] /\ Last(chunk) = s[m]
  BY <1>2 DEF Last
<1>4. Range(chunk) \subseteq {s[i] : i \in 1..Len(s)}
  BY <1>1, <1>2 DEF Range
<1>5. /\ rest \in Seq(S) /\ Len(rest) = Len(s) - m
      /\ \A i \in 1..Len(rest) : rest[i] = s[m + i]
  BY <1>1
<1> QED
  BY <1>2, <1>3, <1>4, <1>5

\* One element behind a sequence.
LEMMA AppendExtends ==
  ASSUME NEW S, NEW s \in Seq(S), NEW e \in S
  PROVE  /\ Append(s, e) \in Seq(S)
         /\ Len(Append(s, e)) = Len(s) + 1
         /\ \A i \in 1..Len(s) : Append(s, e)[i] = s[i]
         /\ Append(s, e)[Len(s) + 1] = e
OBVIOUS

\* The m elements behind the first k.
LEMMA SliceOf ==
  ASSUME NEW S, NEW s \in Seq(S), NEW k \in Nat, NEW m \in Nat, k + m <= Len(s)
  PROVE  /\ SubSeq(s, k + 1, k + m) \in Seq(S)
         /\ Len(SubSeq(s, k + 1, k + m)) = m
         /\ \A i \in 1..m : SubSeq(s, k + 1, k + m)[i] = s[k + i]
OBVIOUS

\* A sequence that agrees with the beginning, or with the end, of another.
LEMMA PrefixBy ==
  ASSUME NEW S, NEW s \in Seq(S), NEW t \in Seq(S), Len(s) <= Len(t),
         \A i \in 1..Len(s) : s[i] = t[i]
  PROVE  IsPrefix(s, t)
<1>1. Len(s) \in Nat /\ Len(t) \in Nat
  BY LenProperties
<1>2. SubSeq(s, 1, Len(s)) = [i \in 1..Len(s) |-> s[i]]
  BY <1>1
<1>3. SubSeq(t, 1, Len(s)) = [i \in 1..Len(s) |-> t[i]]
  BY <1>1
<1> QED
  BY <1>2, <1>3 DEF IsPrefix

LEMMA SuffixBy ==
  ASSUME NEW S, NEW s \in Seq(S), NEW t \in Seq(S), Len(s) <= Len(t),
         \A i \in 1..Len(s) : t[Len(t) - Len(s) + i] = s[i]
  PROVE  IsSuffix(s, t)
<1> DEFINE u == Reverse(s)
           v == Reverse(t)
<1>1. Len(s) \in Nat /\ Len(t) \in Nat
  BY LenProperties
<1>2. /\ u \in Seq(S) /\ Len(u) = Len(s)
      /\ \A i \in 1..Len(s) : u[i] = s[(Len(s) - i) + 1]
  BY <1>1 DEF Reverse
<1>3. /\ v \in Seq(S) /\ Len(v) = Len(t)
      /\ \A i \in 1..Len(t) : v[i] = t[(Len(t) - i) + 1]
  BY <1>1 DEF Reverse
<1>4. ASSUME NEW i \in 1..Len(s) PROVE u[i] = v[i]
  <2> DEFINE j == (Len(s) - i) + 1
  <2>1. j \in 1..Len(s) /\ Len(t) - Len(s) + j = (Len(t) - i) + 1 /\ i \in 1..Len(t)
    BY <1>1
  <2>2. t[Len(t) - Len(s) + j] = s[j]
    BY <2>1
  <2> QED
    BY <1>2, <1>3, <2>1, <2>2
<1> HIDE DEF u, v
<1>5. IsPrefix(u, v)
  BY <1>2, <1>3, <1>4, PrefixBy
<1> QED
  BY <1>5 DEF IsSuffix, u, v

\* A set of numbers has a least one, and a greatest one when it is bounded:
\* what an induction over places rests on.
LEMMA LeastExists ==
  ASSUME NEW T, T \subseteq Nat, T # {}
  PROVE  \E i \in T : \A j \in T : i <= j
<1>1. PICK i \in T : \A j \in T : ~ (<<j, i>> \in OpToRel(<, Nat))
  BY NatLessThanWellFounded, WFMin
<1>2. \A j, k \in Nat : j < k => <<j, k>> \in OpToRel(<, Nat)
  BY DEF OpToRel
<1> DEFINE below == OpToRel(<, Nat)
<1> HIDE DEF below
<1>3. \A j \in T : ~ (j < i)
  BY <1>1, <1>2 DEF below
<1> QED
  BY <1>3

LEMMA GreatestExists ==
  ASSUME NEW n \in Nat, NEW T, T \subseteq 1..n, T # {}
  PROVE  \E i \in T : \A j \in T : i >= j
<1> DEFINE U == {n - i : i \in T}
<1>1. U \subseteq Nat /\ U # {}
  <2>1. \A i \in T : i \in Int /\ i <= n
    OBVIOUS
  <2>2. \A i \in T : n - i \in Nat
    BY <2>1
  <2> QED
    BY <2>2
<1>2. PICK u \in U : \A v \in U : u <= v
  BY <1>1, LeastExists
<1>3. PICK i \in T : u = n - i
  OBVIOUS
<1>4. \A j \in T : n - i <= n - j
  BY <1>2, <1>3
<1> QED
  BY <1>4

-----------------------------------------------------------------------------
(* Sequences put one behind the other.                                     *)

\* All of them together are a sequence over the same set.
LEMMA Flattened ==
  ASSUME NEW S, NEW seqs \in Seq(Seq(S))
  PROVE  FlattenSeq(seqs) \in Seq(S)
<1> DEFINE n == Len(seqs)
           With(f, i) == IF i = 1 THEN seqs[i] ELSE f[i - 1] \o seqs[i]
           F == CHOOSE f : f = [i \in 1..n |-> With(f, i)]
<1>1. n \in Nat /\ \A i \in 1..n : seqs[i] \in Seq(S)
  OBVIOUS
<1>2. CASE n = 0
  BY <1>2 DEF FlattenSeq
<1>3. CASE n # 0
  <2>1. FlattenSeq(seqs) = F[n]
    BY <1>3 DEF FlattenSeq
  <2> HIDE DEF n
  <2>2. \A s, t \in Seq(S) : s \o t \in Seq(S)
    OBVIOUS
  <2>3. \A f : \A i \in 1..n :
          (i = 1 \/ f[i - 1] \in Seq(S)) => With(f, i) \in Seq(S)
    BY <1>1, <2>2
  <2>4. \A f, g : \A i \in 1..n : (i # 1 => f[i - 1] = g[i - 1]) => With(f, i) = With(g, i)
    OBVIOUS
  <2> HIDE DEF With
  <2> DEFINE Solves(m) ==
               \E f \in [1..n -> Seq(S)] : \A i \in 1..m : f[i] = With(f, i)
             T == {m \in 0..n : ~Solves(m)}
  <2>5. T = {}
    <3> SUFFICES ASSUME T # {} PROVE FALSE
      OBVIOUS
    <3>1. PICK m \in T : \A j \in T : m <= j
      <4>1. T \subseteq Nat
        BY <1>1
      <4> HIDE DEF T
      <4> QED
        BY <4>1, LeastExists
    <3>2. m \in 0..n /\ ~Solves(m)
      BY <3>1
    <3>3. m # 0
      <4> DEFINE f == [i \in 1..n |-> << >>]
      <4>1. f \in [1..n -> Seq(S)] /\ \A i \in 1..0 : FALSE
        OBVIOUS
      <4> HIDE DEF f
      <4> QED
        BY <3>2, <4>1
    <3>4. m \in 1..n /\ m - 1 \in 0..n /\ ~(m <= m - 1)
      BY <1>1, <3>2, <3>3
    <3>5. PICK f \in [1..n -> Seq(S)] : \A i \in 1..m - 1 : f[i] = With(f, i)
      BY <3>1, <3>4
    <3> DEFINE e == With(f, m)
               g == [i \in 1..n |-> IF i = m THEN e ELSE f[i]]
    <3>6. e \in Seq(S)
      <4>1. m = 1 \/ m - 1 \in 1..n
        BY <1>1, <3>4
      <4> QED
        BY <2>3, <3>4, <4>1
    <3> HIDE DEF e
    <3>7. g \in [1..n -> Seq(S)]
      BY <3>6
    <3>8. ASSUME NEW i \in 1..m PROVE g[i] = With(g, i)
      <4>1. i \in 1..n /\ (i # 1 => i - 1 \in 1..n /\ i - 1 # m)
            /\ (i # m => i \in 1..m - 1)
        BY <1>1, <3>4
      <4>2. With(g, i) = With(f, i)
        BY <2>4, <4>1
      <4> QED
        BY <3>5, <4>1, <4>2 DEF e
    <3> HIDE DEF g
    <3> QED
      BY <3>2, <3>7, <3>8
  <2>6. F = [i \in 1..n |-> With(F, i)]
    <3>1. n \in 0..n
      BY <1>1
    <3>2. PICK f \in [1..n -> Seq(S)] : \A i \in 1..n : f[i] = With(f, i)
      BY <2>5, <3>1
    <3>3. f = [i \in 1..n |-> With(f, i)]
      BY <3>2
    <3> QED
      BY <3>3, Zenon
  <2> HIDE DEF F
  <2> DEFINE U == {i \in 1..n : F[i] \notin Seq(S)}
  <2>7. U = {}
    <3> SUFFICES ASSUME U # {} PROVE FALSE
      OBVIOUS
    <3>1. PICK m \in U : \A j \in U : m <= j
      <4>1. U \subseteq Nat
        BY <1>1
      <4> HIDE DEF U
      <4> QED
        BY <4>1, LeastExists
    <3>2. m \in 1..n /\ F[m] = With(F, m)
      BY <2>6, <3>1
    <3>3. m = 1 \/ (m - 1 \in 1..n /\ ~(m <= m - 1))
      BY <1>1, <3>2
    <3>4. m = 1 \/ F[m - 1] \in Seq(S)
      BY <3>1, <3>3
    <3> QED
      BY <2>3, <3>1, <3>2, <3>4
  <2> QED
    BY <1>1, <1>3, <2>1, <2>7
<1> QED
  BY <1>2, <1>3
=============================================================================
