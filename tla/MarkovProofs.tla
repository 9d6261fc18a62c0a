---------------------------- MODULE MarkovProofs ----------------------------
(***************************************************************************)
(* The Markov model for any sentences that are said and logged, and any    *)
(* number of retrainings and restarts, each at any point of the others:    *)
(* the words, their indices, the table and what is generated from it       *)
(* agree, and so do the counters of a retraining.                          *)
(*                                                                         *)
(* Lemmas about the operators of the library come first: they are given by *)
(* recursive functions, which exist by induction.                          *)
(***************************************************************************)
EXTENDS Markov, FiniteSetTheorems, SequenceTheorems, TLAPS

\* Induction, over a set of numbers.
LEMMA Induction ==
  ASSUME NEW T, 0 \in T, \A n \in Nat : n \in T => n + 1 \in T
  PROVE  Nat \subseteq T
<1>1. SUFFICES ASSUME Nat \ T # {} PROVE FALSE
  OBVIOUS
<1> DEFINE R == OpToRel(<, Nat)
<1>2. \E x \in Nat \ T : \A y \in Nat \ T : ~(<<y, x>> \in R)
  BY <1>1, NatLessThanWellFounded, WFMin, Zenon
<1>3. \A x \in Nat, y \in Nat : <<y, x>> \in R <=> y < x
  BY DEF OpToRel
<1>4. PICK x \in Nat \ T : \A y \in Nat \ T : ~(<<y, x>> \in R)
  BY <1>2
<1>5. \A y \in Nat \ T : ~(y < x)
  BY <1>3, <1>4
<1> QED
  BY <1>5

\* Of some positions there is a last.
LEMMA Largest ==
  ASSUME NEW n \in Nat, NEW S \in SUBSET (1..n), S # {}
  PROVE  \E x \in S : \A y \in S : y <= x
<1> DEFINE T == {m \in Nat : \A U \in SUBSET (1..m) : U # {} => \E x \in U : \A y \in U : y <= x}
<1>1. 0 \in T
  <2>1. 1..0 = {}
    OBVIOUS
  <2> QED
    BY <2>1
<1>2. ASSUME NEW m \in Nat, m \in T PROVE m + 1 \in T
  <2>1. ASSUME NEW U \in SUBSET (1..(m + 1)), U # {}
        PROVE  \E x \in U : \A y \in U : y <= x
    <3>1. CASE m + 1 \in U
      BY <3>1
    <3>2. CASE m + 1 \notin U
      <4>1. U \in SUBSET (1..m)
        BY <3>2
      <4> QED
        BY <1>2, <2>1, <4>1
    <3> QED
      BY <3>1, <3>2
  <2> QED
    BY <2>1
<1> HIDE DEF T
<1>3. n \in T
  BY <1>1, <1>2, Induction
<1> QED
  BY <1>3 DEF T

\* The largest of 1..k, and what is left without it.
LEMMA MaxOfInterval ==
  ASSUME NEW k \in Nat \ {0}
  PROVE  Max(1..k) = k /\ (1..k) \ {k} = 1..(k - 1)
<1>1. k \in 1..k /\ \A y \in 1..k : k >= y
  OBVIOUS
<1>2. Max(1..k) \in 1..k /\ \A y \in 1..k : Max(1..k) >= y
  BY <1>1 DEF Max
<1> QED
  BY <1>2

\* The largest of some positions is one of them.
LEMMA MaxIsLast ==
  ASSUME NEW n \in Nat, NEW S \in SUBSET (1..n), S # {}
  PROVE  Max(S) \in S
<1>1. \E x \in S : \A y \in S : x >= y
  <2>1. PICK x \in S : \A y \in S : y <= x
    BY Largest
  <2> QED
    BY <2>1
<1> QED
  BY <1>1 DEF Max

\* The words of a sentence are entered one after the other.
Enter(base, msg) == FoldLeft(WithIndex, base, msg)

\* What the first words made is all that the next one is entered into.
LEMMA WordsInTurn ==
  ASSUME NEW W, NEW msg \in Seq(W), NEW base
  PROVE  \E h : /\ h[0] = base /\ Enter(base, msg) = h[Len(msg)]
                /\ \A k \in 1..Len(msg) : h[k] = WithIndex(h[k - 1], msg[k])
<1> DEFINE n == Len(msg)
           D == 1..n
           F(g, s) == IF s = {} THEN base ELSE WithIndex(g[s \ {Max(s)}], msg[Max(s)])
           iter == CHOOSE g : g = [s \in SUBSET D |-> F(g, s)]
           Good(g, k) == \A s \in SUBSET D : Cardinality(s) <= k => g[s] = F(g, s)
           T == {k \in Nat : \E g : Good(g, k)}
<1>1. Enter(base, msg) = iter[D]
  <2>1. DOMAIN msg = D
    OBVIOUS
  <2> QED
    BY <2>1 DEF Enter, FoldLeft, MapThenFoldSet
<1>2. n \in Nat
  OBVIOUS
<1> HIDE DEF n
<1>3. ASSUME NEW s \in SUBSET D, s # {}
      PROVE  /\ Max(s) \in s /\ s \ {Max(s)} \in SUBSET D
             /\ Cardinality(s) \in Nat /\ Cardinality(s \ {Max(s)}) \in Nat
             /\ Cardinality(s) = Cardinality(s \ {Max(s)}) + 1
  <2>1. Max(s) \in s
    BY <1>2, <1>3, MaxIsLast
  <2>2. IsFiniteSet(D)
    BY <1>2, FS_Interval
  <2>3. IsFiniteSet(s)
    BY <2>2, FS_Subset
  <2>4. IsFiniteSet(s \ {Max(s)}) /\ Cardinality(s \ {Max(s)}) = Cardinality(s) - 1
    BY <2>1, <2>3, FS_RemoveElement
  <2> DEFINE t == s \ {Max(s)}
  <2>5. t \in SUBSET D
    OBVIOUS
  <2>6. Cardinality(s) \in Nat /\ Cardinality(t) \in Nat /\ Cardinality(t) = Cardinality(s) - 1
    BY <2>3, <2>4, FS_CardinalityType
  <2>7. Cardinality(s) = Cardinality(t) + 1
    BY <2>6
  <2> QED
    BY <2>1, <2>5, <2>6, <2>7
<1>4. ASSUME NEW f, NEW g, NEW k \in Nat, NEW s \in SUBSET D, Cardinality(s) <= k + 1,
             \A t \in SUBSET D : Cardinality(t) <= k => f[t] = g[t]
      PROVE  F(f, s) = F(g, s)
  <2>1. CASE s = {}
    BY <2>1
  <2>2. CASE s # {}
    <3> DEFINE t == s \ {Max(s)}
    <3>1. t \in SUBSET D /\ Cardinality(t) <= k
      BY <1>3, <1>4, <2>2
    <3>2. f[t] = g[t]
      BY <1>4, <3>1
    <3> QED
      BY <2>2, <3>2
  <2> QED
    BY <2>1, <2>2
<1>5. Nat \subseteq T
  <2>1. 0 \in T
    <3> DEFINE g == [s \in SUBSET D |-> base]
    <3>1. ASSUME NEW s \in SUBSET D, Cardinality(s) <= 0 PROVE g[s] = F(g, s)
      <4>1. ASSUME s # {} PROVE FALSE
        <5>1. /\ Cardinality(s) \in Nat /\ Cardinality(s \ {Max(s)}) \in Nat
              /\ Cardinality(s) = Cardinality(s \ {Max(s)}) + 1
          BY <1>3, <4>1
        <5> QED
          BY <3>1, <5>1
      <4> QED
        BY <4>1
    <3> HIDE DEF g, F
    <3>2. Good(g, 0)
      BY <3>1
    <3> QED
      BY <3>2
  <2>2. ASSUME NEW k \in Nat, k \in T PROVE k + 1 \in T
    <3>1. PICK f : Good(f, k)
      BY <2>2
    <3> HIDE DEF F
    <3> DEFINE g == [s \in SUBSET D |-> IF Cardinality(s) <= k THEN f[s] ELSE F(f, s)]
    <3>2. \A t \in SUBSET D : Cardinality(t) <= k => f[t] = g[t]
      OBVIOUS
    <3>3. ASSUME NEW s \in SUBSET D, Cardinality(s) <= k + 1 PROVE g[s] = F(g, s)
      <4>1. g[s] = IF Cardinality(s) <= k THEN f[s] ELSE F(f, s)
        OBVIOUS
      <4> HIDE DEF g
      <4>2. F(f, s) = F(g, s)
        BY <1>4, <3>2, <3>3
      <4> QED
        BY <3>1, <4>1, <4>2
    <3> HIDE DEF g
    <3>4. Good(g, k + 1)
      BY <3>3
    <3> HIDE DEF Good
    <3> QED
      BY <3>4
  <2> HIDE DEF T
  <2> QED
    BY <2>1, <2>2, Induction
<1>6. \A s \in SUBSET D : Cardinality(s) \in Nat /\ Cardinality(s) <= n
  <2>1. IsFiniteSet(D) /\ Cardinality(D) = n
    BY <1>2, FS_Interval
  <2> QED
    BY <2>1, FS_Subset, FS_CardinalityType
<1> HIDE DEF F
<1>7. \E g : g = [s \in SUBSET D |-> F(g, s)]
  <2>1. PICK f : Good(f, n)
    BY <1>2, <1>5
  <2> DEFINE g == [s \in SUBSET D |-> f[s]]
  <2>2. \A t \in SUBSET D : f[t] = g[t]
    OBVIOUS
  <2> HIDE DEF g
  <2>3. ASSUME NEW s \in SUBSET D PROVE f[s] = F(g, s)
    <3>1. Cardinality(s) <= n + 1 /\ Cardinality(s) <= n
      BY <1>2, <1>6
    <3>2. F(f, s) = F(g, s)
      BY <1>2, <1>4, <2>2, <3>1
    <3> QED
      BY <2>1, <3>1, <3>2
  <2>4. g = [s \in SUBSET D |-> F(g, s)]
    <3>1. \A s \in SUBSET D : f[s] = F(g, s)
      BY <2>3
    <3>2. [s \in SUBSET D |-> f[s]] = [s \in SUBSET D |-> F(g, s)]
      BY <3>1
    <3> QED
      BY <3>2 DEF g
  <2> QED
    BY <2>4
<1>8. iter = [s \in SUBSET D |-> F(iter, s)]
  BY <1>7
<1> HIDE DEF iter
<1> DEFINE h == [k \in 0..n |-> iter[1..k]]
<1>9. h[0] = base
  <2>1. 1..0 = {} /\ {} \in SUBSET D /\ 0 \in 0..n
    BY <1>2
  <2>2. iter[{}] = F(iter, {})
    BY <1>8, <2>1
  <2> QED
    BY <2>1, <2>2 DEF F
<1>10. ASSUME NEW k \in 1..n PROVE h[k] = WithIndex(h[k - 1], msg[k])
  <2>0. k \in Nat \ {0} /\ k \in 0..n /\ k - 1 \in 0..n
    BY <1>2
  <2>1. 1..k \in SUBSET D /\ k \in 1..k
    BY <1>2
  <2>2. Max(1..k) = k /\ (1..k) \ {k} = 1..(k - 1)
    BY <2>0, MaxOfInterval
  <2>3. iter[1..k] = F(iter, 1..k)
    BY <1>8, <2>1
  <2>4. F(iter, 1..k) = WithIndex(iter[1..(k - 1)], msg[k])
    BY <2>1, <2>2 DEF F
  <2> QED
    BY <2>0, <2>3, <2>4
<1>11. Enter(base, msg) = h[n]
  BY <1>1, <1>2
<1> QED
  BY <1>9, <1>10, <1>11 DEF n

\* What is flattened is a sequence of the same elements, and not empty if the first
\* sequence is not.
LEMMA Flattened ==
  ASSUME NEW S, NEW seqs \in Seq(Seq(S)), seqs # <<>>
  PROVE  FlattenSeq(seqs) \in Seq(S) /\ Len(FlattenSeq(seqs)) >= Len(seqs[1])
<1> DEFINE n == Len(seqs)
           F(g, i) == IF i = 1 THEN seqs[i] ELSE g[i - 1] \o seqs[i]
           flat == CHOOSE g : g = [i \in 1..n |-> F(g, i)]
           Good(g, k) == \A i \in 1..n : i <= k => g[i] = F(g, i)
           T == {k \in Nat : \E g : Good(g, k)}
<1>1. n \in Nat \ {0} /\ \A i \in 1..n : seqs[i] \in Seq(S)
  OBVIOUS
<1>2. FlattenSeq(seqs) = flat[n]
  BY <1>1 DEF FlattenSeq
<1> HIDE DEF n
<1>3. ASSUME NEW f, NEW g, NEW k \in Nat, NEW i \in 1..n, i <= k + 1,
             \A j \in 1..n : j <= k => f[j] = g[j]
      PROVE  F(f, i) = F(g, i)
  <2>1. CASE i = 1
    BY <2>1
  <2>2. CASE i # 1
    <3>1. i - 1 \in 1..n /\ i - 1 <= k
      BY <1>1, <1>3, <2>2
    <3>2. f[i - 1] = g[i - 1]
      BY <1>3, <3>1
    <3> QED
      BY <2>2, <3>2
  <2> QED
    BY <2>1, <2>2
<1>4. Nat \subseteq T
  <2>1. 0 \in T
    <3>1. Good(<<>>, 0)
      BY <1>1
    <3> QED
      BY <3>1
  <2>2. ASSUME NEW k \in Nat, k \in T PROVE k + 1 \in T
    <3>1. PICK f : Good(f, k)
      BY <2>2
    <3> HIDE DEF F
    <3> DEFINE g == [i \in 1..n |-> IF i <= k THEN f[i] ELSE F(f, i)]
    <3>2. \A j \in 1..n : j <= k => f[j] = g[j]
      OBVIOUS
    <3>3. ASSUME NEW i \in 1..n, i <= k + 1 PROVE g[i] = F(g, i)
      <4>1. g[i] = IF i <= k THEN f[i] ELSE F(f, i)
        OBVIOUS
      <4> HIDE DEF g
      <4>2. F(f, i) = F(g, i)
        BY <1>3, <3>2, <3>3
      <4> QED
        BY <3>1, <4>1, <4>2
    <3> HIDE DEF g
    <3>4. Good(g, k + 1)
      BY <3>3
    <3> HIDE DEF Good
    <3> QED
      BY <3>4
  <2> HIDE DEF T
  <2> QED
    BY <2>1, <2>2, Induction
<1> HIDE DEF F
<1>5. \E g : g = [i \in 1..n |-> F(g, i)]
  <2>1. PICK f : Good(f, n)
    BY <1>1, <1>4
  <2> DEFINE g == [i \in 1..n |-> f[i]]
  <2>2. \A i \in 1..n : f[i] = g[i]
    OBVIOUS
  <2> HIDE DEF g
  <2>3. ASSUME NEW i \in 1..n PROVE f[i] = F(g, i)
    <3>1. i <= n + 1 /\ i <= n
      BY <1>1
    <3>2. F(f, i) = F(g, i)
      BY <1>1, <1>3, <2>2, <3>1
    <3> QED
      BY <2>1, <3>1, <3>2
  <2>4. [i \in 1..n |-> f[i]] = [i \in 1..n |-> F(g, i)]
    BY <2>3
  <2>5. g = [i \in 1..n |-> F(g, i)]
    BY <2>4 DEF g
  <2> QED
    BY <2>5
<1>6. flat = [i \in 1..n |-> F(flat, i)]
  BY <1>5
<1> HIDE DEF flat
<1>7. ASSUME NEW i \in 1..n, i # 1 PROVE flat[i] = flat[i - 1] \o seqs[i]
  <2>1. flat[i] = F(flat, i)
    BY <1>6
  <2> QED
    BY <1>7, <2>1 DEF F
<1> DEFINE U == {k \in Nat : k \in 1..n => flat[k] \in Seq(S) /\ Len(flat[k]) >= Len(seqs[1])}
<1>8. Nat \subseteq U
  <2>1. 0 \in U
    BY <1>1
  <2>2. ASSUME NEW k \in Nat, k \in U PROVE k + 1 \in U
    <3>1. CASE k = 0
      <4>1. flat[1] = seqs[1] /\ 1 \in 1..n
        BY <1>1, <1>6 DEF F
      <4>2. Len(seqs[1]) \in Nat /\ seqs[1] \in Seq(S)
        BY <1>1
      <4> QED
        BY <3>1, <4>1, <4>2
    <3>2. CASE k # 0 /\ k + 1 \in 1..n
      <4>1. k \in 1..n /\ flat[k] \in Seq(S) /\ Len(flat[k]) >= Len(seqs[1])
        BY <1>1, <2>2, <3>2
      <4>2. flat[k + 1] = flat[k] \o seqs[k + 1]
        <5>1. k + 1 # 1 /\ k + 1 - 1 = k
          BY <2>2, <3>2
        <5> DEFINE i == k + 1
        <5>2. i \in 1..n /\ i # 1
          BY <3>2, <5>1
        <5> HIDE DEF i
        <5>3. flat[i] = flat[i - 1] \o seqs[i]
          BY <1>7, <5>2
        <5>4. i - 1 = k /\ i = k + 1
          BY <5>1 DEF i
        <5> QED
          BY <5>3, <5>4, Zenon
      <4> DEFINE a == flat[k]
                 b == seqs[k + 1]
                 c == seqs[1]
                 d == flat[k + 1]
      <4>3. a \in Seq(S) /\ b \in Seq(S) /\ c \in Seq(S) /\ Len(a) >= Len(c) /\ d = a \o b
        BY <1>1, <3>2, <4>1, <4>2
      <4>4. d \in Seq(S) /\ Len(d) >= Len(c)
        <5> HIDE DEF a, b, c, d
        <5>1. d \in Seq(S) /\ Len(d) = Len(a) + Len(b)
              /\ Len(a) \in Nat /\ Len(b) \in Nat /\ Len(c) \in Nat
          BY <4>3, ConcatProperties, LenProperties
        <5> QED
          BY <4>3, <5>1
      <4> HIDE DEF flat
      <4> QED
        BY <2>2, <4>4
    <3>3. CASE k + 1 \notin 1..n
      BY <3>3
    <3> QED
      BY <3>1, <3>2, <3>3
  <2> HIDE DEF U
  <2> QED
    BY <2>1, <2>2, Induction
<1>9. n \in U /\ n \in 1..n
  BY <1>1, <1>8
<1> QED
  BY <1>2, <1>9

-----------------------------------------------------------------------------
\* How many sentences of a retraining are in a queue.
Counted(q) == {i \in 1..Len(q) : q[i].kind = "retrain"}

\* They are finitely many.
LEMMA CountedIsFinite ==
  ASSUME NEW S, NEW q \in Seq(S)
  PROVE  IsFiniteSet(Counted(q)) /\ Cardinality(Counted(q)) \in Nat
<1>1. IsFiniteSet(1..Len(q)) /\ Counted(q) \subseteq 1..Len(q)
  <2>1. Len(q) \in Nat
    OBVIOUS
  <2> QED
    BY <2>1, FS_Interval DEF Counted
<1> QED
  BY <1>1, FS_Subset, FS_CardinalityType

\* One more is counted if it is of a retraining.
LEMMA CountAppended ==
  ASSUME NEW S, NEW q \in Seq(S), NEW x \in S
  PROVE  Cardinality(Counted(Append(q, x)))
           = Cardinality(Counted(q)) + IF x.kind = "retrain" THEN 1 ELSE 0
<1> DEFINE r == Append(q, x)
           n == Len(q)
<1>1. n \in Nat /\ Len(r) = n + 1 /\ r[n + 1] = x /\ \A i \in 1..n : r[i] = q[i]
  OBVIOUS
<1> HIDE DEF r, n
<1>2. CASE x.kind = "retrain"
  <2>1. Counted(r) = Counted(q) \cup {n + 1} /\ n + 1 \notin Counted(q)
    BY <1>1, <1>2 DEF Counted, n
  <2>2. Cardinality(Counted(r)) = Cardinality(Counted(q)) + 1
    BY <2>1, CountedIsFinite, FS_AddElement
  <2> QED
    BY <1>2, <2>2 DEF r
<1>3. CASE x.kind # "retrain"
  <2>1. Counted(r) = Counted(q)
    BY <1>1, <1>3 DEF Counted, n
  <2> QED
    BY <1>3, <2>1, CountedIsFinite DEF r
<1> QED
  BY <1>2, <1>3

\* The first of the queue is counted apart from the rest.
LEMMA CountTaken ==
  ASSUME NEW S, NEW q \in Seq(S), q # <<>>
  PROVE  Cardinality(Counted(q))
           = Cardinality(Counted(Tail(q))) + IF Head(q).kind = "retrain" THEN 1 ELSE 0
<1> DEFINE r == Tail(q)
           n == Len(q)
           A == Counted(r)
           B == {i + 1 : i \in A}
           f == [i \in A |-> i + 1]
<1>1. n \in Nat \ {0} /\ r \in Seq(S) /\ Len(r) = n - 1 /\ \A i \in 1..(n - 1) : r[i] = q[i + 1]
  OBVIOUS
<1>2. Head(q) = q[1]
  OBVIOUS
<1> HIDE DEF r, n
<1>3. A \subseteq 1..(n - 1)
  BY <1>1 DEF Counted
<1>4. Counted(q) = IF q[1].kind = "retrain" THEN B \cup {1} ELSE B
  <2>1. \A i \in A : i + 1 \in Counted(q) /\ i + 1 # 1
    BY <1>1 DEF Counted, n
  <2>2. ASSUME NEW j \in Counted(q), j # 1 PROVE j \in B
    <3>1. j - 1 \in A /\ j = (j - 1) + 1
      BY <1>1, <2>2 DEF Counted, n
    <3> QED
      BY <3>1
  <2>3. 1 \in Counted(q) <=> q[1].kind = "retrain"
    BY <1>1 DEF Counted, n
  <2> QED
    BY <2>1, <2>2, <2>3
<1>5. f \in Bijection(A, B)
  BY <1>3 DEF Bijection, Injection, Surjection, IsInjective
<1>6. IsFiniteSet(A) /\ Cardinality(A) \in Nat
  BY <1>1, CountedIsFinite
<1> HIDE DEF A, B, f
<1>7. ExistsBijection(A, B)
  BY <1>5 DEF ExistsBijection
<1>8. IsFiniteSet(B) /\ Cardinality(B) = Cardinality(A)
  BY <1>6, <1>7, FS_Bijection
<1>9. 1 \notin B
  BY <1>3 DEF B
<1>10. Cardinality(B \cup {1}) = Cardinality(B) + 1
  BY <1>8, <1>9, FS_AddElement
<1>11. Cardinality(Counted(q)) = Cardinality(A) + IF Head(q).kind = "retrain" THEN 1 ELSE 0
  BY <1>2, <1>4, <1>6, <1>8, <1>10
<1> QED
  BY <1>11 DEF A, r

-----------------------------------------------------------------------------
\* The words that are said or logged.
Words == UNION {Range(m) : m \in Said \cup UNION {Range(l) : l \in Logs}}

\* What is said and logged are sentences of words.
SentencesOfWords ==
  /\ Said \subseteq Seq(Words) /\ Logs \subseteq Seq(Seq(Words))
  /\ \A w \in Words : w.emote \in BOOLEAN

\* What IndicesNameTheirWord says of a list of words and their indices, and that every
\* ordinary word has one.
Indexed(list, indices, first) ==
  /\ list \in Seq(Words)
  /\ \A k \in DOMAIN indices : /\ indices[k] \in 2..(Len(list) + 1)
                               /\ list[indices[k] - 1].text = k[1]
                               /\ first => list[indices[k] - 1].emote = k[2]
  /\ \A i \in 1..Len(list) : ~list[i].emote => <<list[i].text, FALSE>> \in DOMAIN indices
  /\ \A i, j \in 1..Len(list) : list[i] = list[j] /\ ~list[i].emote => i = j

\* The words of a sentence as far as they are entered: there were n before.
Entered(m, first, n) ==
  /\ Indexed(m.list, m.indices, first) /\ Len(m.list) >= n
  /\ m.ret \in Seq(Nat) /\ m.ret # <<>>
  /\ \A i \in 1..Len(m.ret) : m.ret[i] <= Len(m.list) + 1

\* One word is looked up or entered.
LEMMA EnterOne ==
  ASSUME NEW m, NEW first \in BOOLEAN, NEW n \in Nat, Entered(m, first, n),
         NEW w \in Words, w.emote \in BOOLEAN
  PROVE  Entered(WithIndex(m, w), first, n)
<1> DEFINE L == m.list
           I == m.indices
           R == m.ret
           len == Len(L)
<1>10. L \in Seq(Words) /\ Indexed(L, I, first)
  BY DEF Entered, Indexed
<1>11. len \in Nat
  BY <1>10
<1>0. /\ L \in Seq(Words) /\ len \in Nat /\ len >= n /\ R \in Seq(Nat) /\ R # <<>>
      /\ \A i \in 1..Len(R) : R[i] <= len + 1
      /\ Indexed(L, I, first)
  BY <1>10, <1>11 DEF Entered
<1>1. CASE Key(w) \in DOMAIN I
  <2> DEFINE x == I[Key(w)]
             R2 == Append(R, x)
  <2>1. WithIndex(m, w) = [m EXCEPT !.ret = Append(@, x)]
    BY <1>1 DEF WithIndex
  <2>2. x \in 2..(len + 1)
    BY <1>0, <1>1 DEF Indexed
  <2> HIDE DEF x
  <2>3. R2 \in Seq(Nat) /\ R2 # <<>> /\ Len(R2) = Len(R) + 1 /\ R2[Len(R) + 1] = x
        /\ \A i \in 1..Len(R) : R2[i] = R[i]
    BY <1>0, <2>2
  <2> QED
    BY <1>0, <2>1, <2>2, <2>3 DEF Entered
<1>2. CASE Key(w) \notin DOMAIN I
  <2> DEFINE x == len + 2
             R2 == Append(R, x)
             L2 == Append(L, w)
             I2 == [k \in {Key(w)} \cup DOMAIN I |-> IF k = Key(w) THEN x ELSE I[k]]
             m2 == WithIndex(m, w)
  <2>1. m2 = [list |-> L2, indices |-> I2, ret |-> R2]
    BY <1>2 DEF WithIndex
  <2>2. m2.list = L2 /\ m2.indices = I2 /\ m2.ret = R2
    BY <2>1
  <2> HIDE DEF m2
  <2>3. L2 \in Seq(Words) /\ Len(L2) = len + 1 /\ L2[len + 1] = w
        /\ \A i \in 1..len : L2[i] = L[i]
    BY <1>0
  <2>4. R2 \in Seq(Nat) /\ R2 # <<>> /\ \A i \in 1..Len(R2) : R2[i] <= Len(L2) + 1
    <3>1. x \in Nat
      BY <1>0
    <3>2. R2 \in Seq(Nat) /\ R2 # <<>> /\ Len(R2) = Len(R) + 1 /\ R2[Len(R) + 1] = x
          /\ \A i \in 1..Len(R) : R2[i] = R[i] /\ R[i] \in Nat
      <4>1. R \in Seq(Nat) /\ x \in Nat
        BY <1>0, <3>1
      <4> HIDE DEF x, R
      <4>2. R2 \in Seq(Nat) /\ R2 # <<>> /\ Len(R2) = Len(R) + 1 /\ R2[Len(R) + 1] = x
            /\ \A i \in 1..Len(R) : R2[i] = R[i]
        BY <4>1
      <4>3. \A i \in 1..Len(R) : R[i] \in Nat
        BY <4>1
      <4> QED
        BY <4>2, <4>3
    <3>3. Len(R) \in Nat
      BY <1>0
    <3> HIDE DEF R2, L2, R, L
    <3>4. ASSUME NEW i \in 1..Len(R2) PROVE R2[i] <= Len(L2) + 1
      <4>1. CASE i \in 1..Len(R)
        BY <1>0, <2>3, <3>2, <4>1
      <4>2. CASE i \notin 1..Len(R)
        BY <1>0, <2>3, <3>2, <3>3, <4>2
      <4> QED
        BY <4>1, <4>2
    <3> QED
      BY <3>2, <3>4
  <2>5. DOMAIN I2 = {Key(w)} \cup DOMAIN I /\ I2[Key(w)] = x
        /\ \A k \in DOMAIN I : I2[k] = I[k]
    BY <1>2
  <2> HIDE DEF L2, I2, L, I
  <2>6. Indexed(L2, I2, first)
    <3>1. ASSUME NEW k \in DOMAIN I2
          PROVE  /\ I2[k] \in 2..(Len(L2) + 1)
                 /\ L2[I2[k] - 1].text = k[1]
                 /\ first => L2[I2[k] - 1].emote = k[2]
      <4>1. CASE k = Key(w)
        <5>1. I2[k] = len + 2 /\ I2[k] - 1 = len + 1
          BY <1>0, <2>5, <4>1
        <5>2. k[1] = w.text /\ k[2] = w.emote
          BY <4>1 DEF Key
        <5>3. L2[I2[k] - 1] = w
          BY <2>3, <5>1
        <5> QED
          BY <1>0, <2>3, <5>1, <5>2, <5>3
      <4>2. CASE k # Key(w)
        <5>1. k \in DOMAIN I /\ I2[k] = I[k]
          BY <2>5, <4>2
        <5>2. /\ I[k] \in 2..(len + 1) /\ L[I[k] - 1].text = k[1]
              /\ first => L[I[k] - 1].emote = k[2]
          BY <1>0, <5>1 DEF Indexed
        <5>3. I[k] - 1 \in 1..len /\ I[k] \in 2..(len + 1 + 1)
          BY <1>0, <5>2
        <5>4. L2[I2[k] - 1] = L[I[k] - 1]
          BY <2>3, <5>1, <5>3
        <5> QED
          BY <2>3, <5>1, <5>2, <5>3, <5>4
      <4> QED
        BY <4>1, <4>2
    <3>2. ASSUME NEW i \in 1..Len(L2), ~L2[i].emote
          PROVE  <<L2[i].text, FALSE>> \in DOMAIN I2
      <4>1. CASE i = len + 1
        BY <2>3, <2>5, <3>2, <4>1 DEF Key
      <4>2. CASE i \in 1..len
        BY <1>0, <2>3, <2>5, <3>2, <4>2 DEF Indexed
      <4> QED
        BY <1>0, <2>3, <4>1, <4>2
    <3>3. ASSUME NEW i \in 1..Len(L2), NEW j \in 1..Len(L2), L2[i] = L2[j], ~L2[i].emote
          PROVE  i = j
      <4>1. ASSUME NEW a \in 1..len, L2[a] = w, ~w.emote PROVE FALSE
        <5>1. <<L[a].text, FALSE>> \in DOMAIN I /\ L[a] = w
          BY <1>0, <2>3, <4>1 DEF Indexed
        <5>2. Key(w) = <<w.text, FALSE>>
          BY <4>1 DEF Key
        <5> QED
          BY <1>2, <5>1, <5>2 DEF I
      <4>2. CASE i \in 1..len /\ j \in 1..len
        BY <1>0, <2>3, <3>3, <4>2 DEF Indexed
      <4>3. CASE i \notin 1..len /\ j \in 1..len
        <5>1. i = len + 1
          BY <1>0, <2>3, <4>3
        <5> QED
          BY <2>3, <3>3, <4>1, <4>3, <5>1
      <4>4. CASE i \in 1..len /\ j \notin 1..len
        <5>1. j = len + 1
          BY <1>0, <2>3, <4>4
        <5> QED
          BY <2>3, <3>3, <4>1, <4>4, <5>1
      <4>5. CASE i \notin 1..len /\ j \notin 1..len
        BY <1>0, <2>3, <4>5
      <4> QED
        BY <4>2, <4>3, <4>4, <4>5
    <3> QED
      BY <2>3, <3>1, <3>2, <3>3 DEF Indexed
  <2> HIDE DEF R2
  <2>7. Len(m2.list) >= n
    BY <1>0, <2>2, <2>3 DEF L
  <2> QED
    BY <2>2, <2>4, <2>6, <2>7 DEF Entered, m2
<1> QED
  BY <1>1, <1>2

\* All the words of a sentence are.
LEMMA EnterAll ==
  ASSUME SentencesOfWords, NEW msg \in Seq(Words), NEW base, NEW first \in BOOLEAN,
         NEW n \in Nat, Entered(base, first, n)
  PROVE  Entered(Enter(base, msg), first, n)
<1>1. PICK h : /\ h[0] = base /\ Enter(base, msg) = h[Len(msg)]
               /\ \A k \in 1..Len(msg) : h[k] = WithIndex(h[k - 1], msg[k])
  BY WordsInTurn
<1> DEFINE T == {k \in Nat : k <= Len(msg) => Entered(h[k], first, n)}
<1>2. 0 \in T
  BY <1>1
<1>3. ASSUME NEW k \in Nat, k \in T PROVE k + 1 \in T
  <2>1. SUFFICES ASSUME k + 1 <= Len(msg) PROVE Entered(h[k + 1], first, n)
    OBVIOUS
  <2>2. Entered(h[k], first, n) /\ k + 1 \in 1..Len(msg) /\ k + 1 - 1 = k
    BY <1>3, <2>1
  <2>3. h[k + 1] = WithIndex(h[k], msg[k + 1])
    BY <1>1, <2>2
  <2>4. msg[k + 1] \in Words /\ msg[k + 1].emote \in BOOLEAN
    BY <2>2 DEF SentencesOfWords
  <2> QED
    BY <2>2, <2>3, <2>4, EnterOne
<1> HIDE DEF T
<1>4. Len(msg) \in T
  BY <1>2, <1>3, Induction
<1> QED
  BY <1>1, <1>4 DEF T

\* Prefixes and the words that follow, of indices below n.
Pairs(n) == {p \in Seq(0..n) : Len(p) \in 1..MAX_PREFIX_LENGTH} \X (0..n)

\* The updates of a sentence are pairs of its indices, and there are some.
LEMMA UpdatesArePairs ==
  ASSUME MAX_PREFIX_LENGTH \in Nat \ {0}, NEW n \in Nat, NEW ws \in Seq(0..n), Len(ws) >= 2
  PROVE  Updates(ws) \in Seq(Pairs(n)) /\ Updates(ws) # <<>>
<1> DEFINE N == Len(ws)
           longest(i) == IF N - i < MAX_PREFIX_LENGTH THEN N - i ELSE MAX_PREFIX_LENGTH
           one(i) == [k \in 1..longest(i) |-> <<SubSeq(ws, i, i + k - 1), ws[i + k]>>]
           all == [i \in 1..(N - 1) |-> one(i)]
<1>1. N \in Nat /\ N >= 2
  OBVIOUS
<1>2. Updates(ws) = FlattenSeq(all)
  BY DEF Updates
<1> HIDE DEF N
<1>3. ASSUME NEW i \in 1..(N - 1)
      PROVE  longest(i) \in 1..MAX_PREFIX_LENGTH /\ longest(i) <= N - i
  BY <1>1
<1> HIDE DEF longest
<1>4. ASSUME NEW i \in 1..(N - 1), NEW k \in 1..longest(i)
      PROVE  <<SubSeq(ws, i, i + k - 1), ws[i + k]>> \in Pairs(n)
  <2>0. longest(i) \in Nat /\ longest(i) <= MAX_PREFIX_LENGTH /\ longest(i) <= N - i
    BY <1>1, <1>3
  <2>1. /\ i \in 1..N /\ i + k - 1 \in 1..N /\ i <= i + k - 1 /\ i + k \in 1..N
        /\ (i + k - 1) - i + 1 = k /\ k \in 1..MAX_PREFIX_LENGTH
    BY <1>1, <2>0
  <2>2. ws[i + k] \in 0..n
    BY <2>1 DEF N
  <2>3. SubSeq(ws, i, i + k - 1) \in Seq(0..n) /\ Len(SubSeq(ws, i, i + k - 1)) = k
    <3>1. i \in Int /\ i + k - 1 \in Int /\ \A j \in i..(i + k - 1) : j \in 1..N
      BY <1>1, <2>1
    <3>2. \A j \in i..(i + k - 1) : ws[j] \in 0..n
      BY <3>1 DEF N
    <3> QED
      BY <2>1, <3>1, <3>2, SubSeqProperties
  <2> QED
    BY <2>1, <2>2, <2>3 DEF Pairs
<1>5. ASSUME NEW i \in 1..(N - 1)
      PROVE  one(i) \in Seq(Pairs(n)) /\ Len(one(i)) >= 1
  <2>1. longest(i) \in Nat /\ longest(i) >= 1
    BY <1>3
  <2>2. \A k \in 1..longest(i) : one(i)[k] \in Pairs(n)
    BY <1>4
  <2>3. one(i) = [k \in 1..longest(i) |-> one(i)[k]]
    OBVIOUS
  <2> HIDE DEF one
  <2> QED
    BY <2>1, <2>2, <2>3, IsASeq
<1> HIDE DEF one
<1>6. all \in Seq(Seq(Pairs(n))) /\ Len(all) = N - 1 /\ all # <<>> /\ all[1] = one(1)
  BY <1>1, <1>5
<1> HIDE DEF all
<1>7. FlattenSeq(all) \in Seq(Pairs(n)) /\ Len(FlattenSeq(all)) >= Len(all[1])
  BY <1>6, Flattened
<1>8. Len(all[1]) >= 1
  BY <1>1, <1>5, <1>6
<1> QED
  BY <1>2, <1>7, <1>8

-----------------------------------------------------------------------------
(* The inductive invariant *)

Bounds == MAX_PREFIX_LENGTH \in Nat \ {0} /\ MaxOutput \in Nat \ {0} /\ SentencesOfWords

\* Indices are those of words or markers up to this one.
LastIndex == Len(wordList) + 1

Entries == Indexed(wordList, wordIndices, restarts = 0) /\ restarts \in Nat

\* What the worker has got from the words and puts into the table.
Flags == stale \in [table : BOOLEAN, worker : BOOLEAN, generator : BOOLEAN]
AnyPair == {p \in Seq(Nat) : Len(p) \in 1..MAX_PREFIX_LENGTH} \X Nat
Updating ==
  /\ table \subseteq AnyPair /\ todo \in Seq(AnyPair) /\ (todo # <<>> <=> worker = "table")
  /\ ~stale.table => table \subseteq Pairs(LastIndex)
  /\ ~stale.worker => todo \in Seq(Pairs(LastIndex))

\* What a message is generated from.
Generating ==
  /\ generator \in {"idle", "grow", "read"} /\ (generator = "idle" => output = <<>>)
  /\ output \in Seq(Nat) /\ Len(output) <= MaxOutput
  /\ ~stale.generator => output \in Seq(0..LastIndex)

\* What the worker has taken, and what the trainer has pushed without announcing it.
Queueing ==
  /\ queue \in Seq([kind : {"said", "retrain", "stop"}, msg : Seq(Words)])
  /\ item \in [kind : {"none", "said", "retrain"}, msg : Seq(Words)]
  /\ worker \in {"pop", "index", "table", "count", "clear_total", "clear_completed", "exited"}
  /\ item.kind # "none" <=> worker \in {"index", "table"}
Quiet == IF trainer = "notify" THEN Len(log) ELSE IF rest = <<>> THEN 0 ELSE Len(log) - Len(rest)
Announcing ==
  /\ log \in Seq(Seq(Words)) /\ rest \in Seq(Seq(Words)) /\ Len(rest) <= Len(log)
  /\ trainer \in {"idle", "load", "store", "push", "notify"}
  /\ rest # <<>> <=> trainer \in {"load", "store", "push"}
  /\ units \in Nat /\ Len(queue) = units + Quiet

Counting ==
  /\ total \in Nat /\ completed \in Nat /\ skipped \in Nat /\ loaded \in Nat
  /\ miscounted \in BOOLEAN /\ watching \in BOOLEAN
  /\ CountersAgree

IInv == Entries /\ Flags /\ Updating /\ Generating /\ Queueing /\ Announcing /\ Counting

-----------------------------------------------------------------------------
(* The words *)

\* A sentence's indices are those of words that are in the list when it is done.
LEMMA SentenceIsEntered ==
  ASSUME Bounds, Entries, Queueing, GetIndices
  PROVE  /\ Indexed(wordList', wordIndices', restarts = 0) /\ Len(wordList') >= Len(wordList)
         /\ todo' \in Seq(Pairs(LastIndex')) /\ todo' # <<>>
<1> DEFINE base == [list |-> wordList, indices |-> wordIndices, ret |-> <<IDX_START_MARKER>>]
           m == Enter(base, item.msg)
           ws == Append(m.ret, IDX_END_MARKER)
           n == Len(m.list) + 1
<1>1. wordList' = m.list /\ wordIndices' = m.indices /\ todo' = Updates(ws)
  BY DEF GetIndices, Enter
<1>2. Len(wordList) \in Nat /\ item.msg \in Seq(Words) /\ wordList \in Seq(Words)
  BY DEF Entries, Queueing, Indexed
<1>3. Entered(base, restarts = 0, Len(wordList))
  <2>1. base.list = wordList /\ base.indices = wordIndices /\ base.ret = <<0>>
    BY DEF IDX_START_MARKER
  <2>2. <<0>> \in Seq(Nat) /\ <<0>> # <<>> /\ Len(<<0>>) = 1 /\ <<0>>[1] = 0
    OBVIOUS
  <2>3. \A i \in 1..Len(<<0>>) : <<0>>[i] <= Len(wordList) + 1
    BY <1>2, <2>2
  <2> HIDE DEF base
  <2> QED
    BY <1>2, <2>1, <2>2, <2>3 DEF Entered, Entries
<1> HIDE DEF base
<1>4. Entered(m, restarts = 0, Len(wordList))
  BY <1>2, <1>3, EnterAll DEF Bounds
<1> HIDE DEF m
<1>5. /\ m.ret \in Seq(Nat) /\ m.ret # <<>> /\ m.list \in Seq(Words)
      /\ \A i \in 1..Len(m.ret) : m.ret[i] <= n
  BY <1>4 DEF Entered, Indexed
<1>6. ws \in Seq(0..n) /\ Len(ws) >= 2 /\ n \in Nat
  <2> DEFINE r == m.ret
  <2>1. n \in Nat /\ n >= 1
    BY <1>5
  <2> HIDE DEF n
  <2>2. r \in Seq(Nat) /\ r # <<>> /\ \A i \in 1..Len(r) : r[i] <= n
    BY <1>5
  <2> HIDE DEF r
  <2>3. \A i \in 1..Len(r) : r[i] \in 0..n
    BY <2>1, <2>2
  <2>4. r \in Seq(0..n) /\ Len(r) \in Nat /\ Len(r) >= 1
    <3>1. Len(r) \in Nat /\ Len(r) >= 1 /\ r = [i \in 1..Len(r) |-> r[i]]
      BY <2>2
    <3>2. r \in [1..Len(r) -> 0..n]
      BY <2>3, <3>1
    <3>3. r \in Seq(0..n)
      BY <3>1, <3>2, SeqDef
    <3> QED
      BY <3>1, <3>3
  <2>5. Append(r, 1) \in Seq(0..n) /\ Len(Append(r, 1)) = Len(r) + 1
    BY <2>1, <2>4
  <2>6. Len(Append(r, 1)) >= 2
    BY <2>4, <2>5
  <2> QED
    BY <2>1, <2>5, <2>6 DEF r, IDX_END_MARKER
<1>7. Updates(ws) \in Seq(Pairs(n)) /\ Updates(ws) # <<>>
  BY <1>6, UpdatesArePairs DEF Bounds
<1> QED
  BY <1>1, <1>4, <1>7 DEF Entered, LastIndex

\* Words and indices agree after a restart too, and there are words for all of them.
LEMMA EntriesStay ==
  ASSUME Bounds, Entries, Queueing, [Next]_vars
  PROVE  Entries'
<1>1. CASE GetIndices
  <2>1. restarts' = restarts
    BY <1>1 DEF GetIndices, fixed
  <2> QED
    BY <1>1, <2>1, SentenceIsEntered DEF Entries
<1>2. CASE Reset
  <2>1. wordList' = <<>> /\ wordIndices' = <<>> /\ restarts' = restarts
    BY <1>2 DEF Reset, fixed
  <2>2. Len(<<>>) = 0 /\ <<>> \in Seq(Words) /\ DOMAIN <<>> = {} /\ 1..0 = {}
    OBVIOUS
  <2> QED
    BY <2>1, <2>2 DEF Entries, Indexed
<1>3. CASE Restart
  <2> DEFINE K == {<<wordList[i].text, FALSE>> : i \in DOMAIN wordList}
             IsLast(k, i) == /\ wordList[i].text = k[1]
                             /\ \A j \in DOMAIN wordList : wordList[j].text = k[1] => j <= i
             last(k) == CHOOSE i \in DOMAIN wordList : IsLast(k, i)
  <2>1. wordList' = wordList /\ restarts' = restarts + 1
        /\ wordIndices' = [k \in K |-> 1 + last(k)]
    BY <1>3 DEF Restart
  <2>2. wordList \in Seq(Words) /\ Len(wordList) \in Nat /\ DOMAIN wordList = 1..Len(wordList)
        /\ restarts \in Nat
    BY DEF Entries, Indexed
  <2>3. ASSUME NEW k \in K
        PROVE  last(k) \in 1..Len(wordList) /\ wordList[last(k)].text = k[1]
    <3> DEFINE U == {i \in 1..Len(wordList) : wordList[i].text = k[1]}
    <3>1. U \in SUBSET (1..Len(wordList)) /\ U # {}
      <4>1. PICK i \in DOMAIN wordList : k = <<wordList[i].text, FALSE>>
        OBVIOUS
      <4>2. i \in U
        BY <2>2, <4>1
      <4> QED
        BY <4>2
    <3>2. \E i \in U : \A j \in U : j <= i
      BY <2>2, <3>1, Largest, Zenon
    <3>3. \E i \in DOMAIN wordList : IsLast(k, i)
      BY <2>2, <3>2
    <3> HIDE DEF IsLast
    <3>4. last(k) \in DOMAIN wordList /\ IsLast(k, last(k))
      BY <3>3
    <3> QED
      BY <2>2, <3>4 DEF IsLast
  <2> HIDE DEF last
  <2>4. ASSUME NEW k \in DOMAIN wordIndices'
        PROVE  /\ wordIndices'[k] \in 2..(Len(wordList) + 1)
               /\ wordList[wordIndices'[k] - 1].text = k[1]
    <3>1. k \in K /\ wordIndices'[k] = 1 + last(k)
      BY <2>1
    <3>2. last(k) \in 1..Len(wordList) /\ wordList[last(k)].text = k[1]
      BY <2>3, <3>1
    <3>3. 1 + last(k) \in 2..(Len(wordList) + 1) /\ 1 + last(k) - 1 = last(k)
      BY <2>2, <3>2
    <3> QED
      BY <3>1, <3>2, <3>3
  <2>5. \A i \in 1..Len(wordList) : <<wordList[i].text, FALSE>> \in DOMAIN wordIndices'
    BY <2>1, <2>2
  <2>6. restarts + 1 # 0 /\ restarts + 1 \in Nat
    BY <2>2
  <2>7. \A i, j \in 1..Len(wordList) : wordList[i] = wordList[j] /\ ~wordList[i].emote => i = j
    BY DEF Entries, Indexed
  <2> QED
    BY <2>1, <2>2, <2>4, <2>5, <2>6, <2>7 DEF Entries, Indexed
<1>4. CASE UNCHANGED <<wordList, wordIndices, restarts>>
  BY <1>4 DEF Entries
<1>5. Process \/ Shutdown \/ Pop \/ Discard \/ Update \/ Count \/ ClearTotal \/ ClearCompleted
        => UNCHANGED <<wordList, wordIndices, restarts>>
  BY DEF Process, Shutdown, Pop, Discard, Update, Count, ClearTotal, ClearCompleted, model, fixed
<1>6. TrainerStep \/ Watch \/ Seed \/ Grow \/ Read \/ UNCHANGED vars
        => UNCHANGED <<wordList, wordIndices, restarts>>
  BY DEF TrainerStep, Load, Store, PushQuiet, NotifyPending, Watch, Seed, Grow, Read, vars, model,
     fixed
<1> QED
  BY <1>1, <1>2, <1>3, <1>4, <1>5, <1>6 DEF Next, WorkerStep

\* The flags are flags.
LEMMA FlagsStay ==
  ASSUME Flags, [Next]_vars
  PROVE  Flags'
<1> USE DEF Flags
<1>1. CASE Update
  <2>1. (todo' # <<>>) \in BOOLEAN /\ stale.worker \in BOOLEAN /\ stale.table \in BOOLEAN
    OBVIOUS
  <2> QED
    BY <1>1, <2>1 DEF Update
<1>6. CASE Reset
  <2>1. (worker = "table") \in BOOLEAN /\ (generator # "idle") \in BOOLEAN
    OBVIOUS
  <2> QED
    BY <1>6, <2>1 DEF Reset
<1>2. CASE Seed \/ Grow \/ Read
  BY <1>2 DEF Seed, Grow, Read
<1>3. CASE Restart
  BY <1>3 DEF Restart
<1>4. Process \/ Shutdown \/ Pop \/ Discard \/ GetIndices => stale' = stale
  BY DEF Process, Shutdown, Pop, Discard, GetIndices
<1>5. Count \/ ClearTotal \/ ClearCompleted \/ TrainerStep \/ Watch \/ UNCHANGED vars
        => stale' = stale
  BY DEF Count, ClearTotal, ClearCompleted, TrainerStep, Load, Store, PushQuiet, NotifyPending,
     Watch, vars
<1> QED
  BY <1>1, <1>2, <1>3, <1>4, <1>5, <1>6 DEF Next, WorkerStep

-----------------------------------------------------------------------------
(* The table *)

\* Pairs of fewer indices are pairs of more.
LEMMA PairsGrow ==
  ASSUME NEW m \in Nat, NEW n \in Nat, m <= n
  PROVE  Pairs(m) \subseteq Pairs(n) /\ Pairs(n) \subseteq AnyPair
<1>1. 0..m \subseteq 0..n /\ 0..n \subseteq Nat
  OBVIOUS
<1>2. Seq(0..m) \subseteq Seq(0..n) /\ Seq(0..n) \subseteq Seq(Nat)
  BY <1>1, SeqMonotonic, Zenon
<1> QED
  BY <1>1, <1>2, Zenon DEF Pairs, AnyPair

\* The table and the updates to come are pairs of known indices, unless there was a reset
\* in between.
LEMMA UpdatingStays ==
  ASSUME Bounds, Entries, Queueing, Flags, Updating, [Next]_vars
  PROVE  Updating'
<1>0. wordList \in Seq(Words) /\ Len(wordList) \in Nat /\ LastIndex \in Nat
  BY DEF Entries, Indexed, LastIndex
<1>1. CASE GetIndices
  <2>1. /\ todo' \in Seq(Pairs(LastIndex')) /\ todo' # <<>> /\ worker' = "table"
        /\ table' = table /\ stale' = stale /\ Len(wordList') >= Len(wordList)
        /\ wordList' \in Seq(Words)
    BY <1>1, SentenceIsEntered DEF GetIndices, Indexed
  <2>2. LastIndex' \in Nat /\ LastIndex <= LastIndex'
    BY <1>0, <2>1 DEF LastIndex
  <2>3. Pairs(LastIndex) \subseteq Pairs(LastIndex') /\ Pairs(LastIndex') \subseteq AnyPair
    BY <1>0, <2>2, PairsGrow
  <2>4. todo' \in Seq(AnyPair)
    BY <2>1, <2>3, SeqMonotonic, Zenon
  <2> QED
    BY <2>1, <2>3, <2>4 DEF Updating
<1>2. CASE Update
  <2>1. todo \in Seq(AnyPair) /\ todo # <<>>
    BY <1>2 DEF Update, Updating
  <2>2. /\ table' = table \cup {Head(todo)} /\ todo' = Tail(todo)
        /\ stale'.table = (stale.table \/ stale.worker) /\ LastIndex' = LastIndex
        /\ stale'.worker = (stale.worker /\ todo' # <<>>)
    BY <1>2 DEF Update, Flags, LastIndex
  <2>3. worker' = "table" <=> todo' # <<>>
    BY <1>2 DEF Update, Processed
  <2>4. Head(todo) \in AnyPair /\ Tail(todo) \in Seq(AnyPair)
    BY <2>1
  <2>5. ASSUME ~stale.worker
        PROVE  Head(todo) \in Pairs(LastIndex) /\ Tail(todo) \in Seq(Pairs(LastIndex))
    <3>1. todo \in Seq(Pairs(LastIndex))
      BY <2>5 DEF Updating
    <3> QED
      BY <2>1, <3>1
  <2>6. ~stale'.worker => todo' \in Seq(Pairs(LastIndex))
    <3>1. <<>> \in Seq(Pairs(LastIndex))
      OBVIOUS
    <3> QED
      BY <2>2, <2>5, <3>1
  <2>7. ~stale'.table => table' \subseteq Pairs(LastIndex)
    BY <2>2, <2>5 DEF Updating
  <2>8. table' \subseteq AnyPair /\ todo' \in Seq(AnyPair)
    BY <2>2, <2>4 DEF Updating
  <2> QED
    BY <2>2, <2>3, <2>6, <2>7, <2>8 DEF Updating
<1>3. CASE Reset
  <2>1. /\ table' = {} /\ todo' = todo /\ worker' = worker
        /\ stale'.worker = (worker = "table")
    BY <1>3 DEF Reset, training
  <2>2. <<>> \in Seq(Pairs(LastIndex'))
    OBVIOUS
  <2> QED
    BY <2>1, <2>2 DEF Updating
<1>4. CASE Restart
  <2>1. /\ table' = table /\ todo' = <<>> /\ worker' = "pop" /\ stale'.table = stale.table
        /\ LastIndex' = LastIndex
    BY <1>4 DEF Restart, Flags, LastIndex
  <2>2. <<>> \in Seq(Pairs(LastIndex')) /\ <<>> \in Seq(AnyPair)
    OBVIOUS
  <2> QED
    BY <2>1, <2>2 DEF Updating
<1>5. ASSUME UNCHANGED <<wordList, table, todo>>, stale'.table = stale.table,
             stale'.worker = stale.worker, worker' = "table" <=> worker = "table"
      PROVE  Updating'
  <2>1. LastIndex' = LastIndex
    BY <1>5 DEF LastIndex
  <2> QED
    BY <1>5, <2>1 DEF Updating
<1> DEFINE Kept == /\ UNCHANGED <<wordList, table, todo>> /\ stale'.table = stale.table
                   /\ stale'.worker = stale.worker /\ (worker' = "table" <=> worker = "table")
<1>6. Pop \/ Discard => Kept
  BY DEF Pop, Discard, Processed, model
<1>7. Count \/ ClearTotal \/ ClearCompleted => Kept
  BY DEF Count, ClearTotal, ClearCompleted, model
<1>8. Process \/ Shutdown \/ TrainerStep \/ Watch \/ UNCHANGED vars => Kept
  BY DEF Process, Shutdown, TrainerStep, Load, Store, PushQuiet, NotifyPending, Watch, vars, model,
     training
<1>9. Seed \/ Grow \/ Read => Kept
  BY DEF Seed, Grow, Read, Flags, model, training
<1> QED
  BY <1>1, <1>2, <1>3, <1>4, <1>5, <1>6, <1>7, <1>8, <1>9 DEF Next, WorkerStep

-----------------------------------------------------------------------------
(* Generating a message *)

\* What may follow a prefix follows it in the table, or is the end.
LEMMA FollowersAreKnown ==
  ASSUME NEW k, NEW next \in NextWords(k)
  PROVE  next = IDX_END_MARKER \/ \E u \in table : next = u[2]
<1> DEFINE seen == {j \in 1..k : j <= Len(output) /\ Followers(LastOf(j)) # {}}
           longest == CHOOSE j \in seen : \A i \in seen : i <= j
<1>1. seen = {} => next = IDX_END_MARKER
  BY DEF NextWords
<1>2. seen # {} => next \in Followers(LastOf(longest))
  BY DEF NextWords
<1> HIDE DEF seen, longest
<1>3. next \in Followers(LastOf(longest)) => \E u \in table : next = u[2]
  BY DEF Followers
<1> QED
  BY <1>1, <1>2, <1>3

\* What is generated has indices of words, unless there was a reset in between.
LEMMA GeneratingStays ==
  ASSUME Bounds, Entries, Queueing, Flags, Updating, Generating, [Next]_vars
  PROVE  Generating'
<1>0. wordList \in Seq(Words) /\ Len(wordList) \in Nat /\ LastIndex \in Nat /\ LastIndex >= 1
  BY DEF Entries, Indexed, LastIndex
<1>1. CASE Seed
  <2>1. PICK i \in {IDX_START_MARKER} \cup {wordIndices[k] : k \in DOMAIN wordIndices} :
          output' = <<i>>
    BY <1>1 DEF Seed
  <2>2. i \in 0..LastIndex
    <3>1. \A k \in DOMAIN wordIndices : wordIndices[k] \in 2..LastIndex
      BY DEF Entries, Indexed, LastIndex
    <3>2. \A k \in DOMAIN wordIndices : wordIndices[k] \in 0..LastIndex
      BY <1>0, <3>1
    <3>3. 0 \in 0..LastIndex
      BY <1>0
    <3> QED
      BY <2>1, <3>2, <3>3 DEF IDX_START_MARKER
  <2>3. <<i>> \in Seq(0..LastIndex) /\ <<i>> \in Seq(Nat) /\ Len(<<i>>) = 1
    BY <1>0, <2>2
  <2>4. generator' = "grow" /\ LastIndex' = LastIndex
    BY <1>1 DEF Seed, model, LastIndex
  <2> QED
    BY <2>1, <2>3, <2>4 DEF Generating, Bounds
<1>2. CASE Grow
  <2>1. /\ generator = "grow" /\ generator' \in {"grow", "read"} /\ LastIndex' = LastIndex
        /\ stale'.generator = (stale.generator \/ stale.table)
    BY <1>2 DEF Grow, Flags, model, LastIndex
  <2>2. CASE output' = output
    BY <2>1, <2>2 DEF Generating
  <2>3. CASE output' # output
    <3>0. PICK k \in 1..MAX_PREFIX_LENGTH :
             \E next \in NextWords(k) : output' = Append(output, next) /\ next # IDX_END_MARKER
      BY <1>2, <2>3 DEF Grow
    <3>1. PICK next \in NextWords(k) : output' = Append(output, next) /\ next # IDX_END_MARKER
      BY <3>0
    <3>2. PICK u \in table : next = u[2]
      BY <3>1, FollowersAreKnown
    <3>3. next \in Nat /\ (~stale.table => next \in 0..LastIndex)
      BY <3>2 DEF Updating, AnyPair, Pairs
    <3>4. Len(output) < MaxOutput
      BY <1>2, <2>3 DEF Grow, Generating, Bounds
    <3>5. output \in Seq(Nat) /\ (~stale.generator => output \in Seq(0..LastIndex))
      BY DEF Generating
    <3>6. output' \in Seq(Nat) /\ Len(output') = Len(output) + 1 /\ Len(output) \in Nat
      BY <3>1, <3>3, <3>5
    <3>7. Len(output') <= MaxOutput
      BY <3>4, <3>6 DEF Bounds
    <3>8. ~stale'.generator => output' \in Seq(0..LastIndex)
      <4>1. SUFFICES ASSUME ~stale'.generator PROVE output' \in Seq(0..LastIndex)
        OBVIOUS
      <4>2. output \in Seq(0..LastIndex) /\ next \in 0..LastIndex
        BY <2>1, <3>3, <3>5, <4>1
      <4> QED
        BY <3>1, <4>2
    <3> QED
      BY <2>1, <3>6, <3>7, <3>8 DEF Generating
  <2> QED
    BY <2>2, <2>3
<1>3. CASE Read \/ Restart
  <2>1. generator' = "idle" /\ output' = <<>>
    BY <1>3 DEF Read, Restart
  <2>2. <<>> \in Seq(Nat) /\ <<>> \in Seq(0..LastIndex') /\ Len(<<>>) = 0
    OBVIOUS
  <2> QED
    BY <2>1, <2>2 DEF Generating, Bounds
<1>4. CASE Reset
  <2>1. /\ generator' = generator /\ output' = output
        /\ stale'.generator = (generator # "idle")
    BY <1>4 DEF Reset, generating
  <2>2. <<>> \in Seq(0..LastIndex')
    OBVIOUS
  <2> QED
    BY <2>1, <2>2 DEF Generating
<1>5. CASE GetIndices
  <2>1. generator' = generator /\ output' = output /\ stale' = stale
        /\ Len(wordList') >= Len(wordList) /\ wordList' \in Seq(Words)
    BY <1>5, SentenceIsEntered DEF GetIndices, generating, Indexed
  <2>2. LastIndex' \in Nat /\ LastIndex <= LastIndex'
    BY <1>0, <2>1 DEF LastIndex
  <2>3. 0..LastIndex \subseteq 0..LastIndex'
    BY <1>0, <2>2
  <2>4. output \in Seq(0..LastIndex) => output \in Seq(0..LastIndex')
    BY <2>3, SeqMonotonic, Zenon
  <2> QED
    BY <2>1, <2>4 DEF Generating
<1>6. CASE UNCHANGED <<generator, output, wordList>> /\ stale'.generator = stale.generator
  <2>1. LastIndex' = LastIndex
    BY <1>6 DEF LastIndex
  <2> QED
    BY <1>6, <2>1 DEF Generating
<1> DEFINE Kept == UNCHANGED <<generator, output, wordList>> /\ stale'.generator = stale.generator
<1>7. Pop \/ Discard \/ Count \/ ClearTotal \/ ClearCompleted => Kept
  BY DEF Pop, Discard, Count, ClearTotal, ClearCompleted, model, generating
<1>8. Update => Kept
  BY DEF Update, Flags, generating
<1>9. Process \/ Shutdown \/ TrainerStep \/ Watch \/ UNCHANGED vars => Kept
  BY DEF Process, Shutdown, TrainerStep, Load, Store, PushQuiet, NotifyPending, Watch, vars, model,
     generating
<1> QED
  BY <1>1, <1>2, <1>3, <1>4, <1>5, <1>6, <1>7, <1>8, <1>9 DEF Next, WorkerStep

-----------------------------------------------------------------------------
(* The queue *)

Items == [kind : {"said", "retrain", "stop"}, msg : Seq(Words)]

\* There is something to pop when a unit says so.
LEMMA UnitsAreThere ==
  ASSUME Queueing, Announcing, units > 0
  PROVE  queue # <<>>
<1>1. Quiet \in Nat
  <2>1. Len(log) \in Nat /\ Len(rest) \in Nat /\ Len(rest) <= Len(log)
    BY DEF Announcing
  <2> QED
    BY <2>1 DEF Quiet
<1>2. Len(queue) = units + Quiet /\ units \in Nat
  BY DEF Announcing
<1>3. Len(queue) # 0
  BY <1>1, <1>2
<1> QED
  BY <1>3

\* What is queued is a sentence, said or of a retraining, or the end.
LEMMA ItemsOfQueue ==
  ASSUME Bounds, Queueing, Announcing, [Next]_vars
  PROVE  queue' \in Seq(Items)
<1>0. queue \in Seq(Items)
  BY DEF Queueing, Items
<1>1. CASE Process
  <2>1. PICK m \in Said : queue' = Append(queue, Item("said", m))
    BY <1>1 DEF Process
  <2>2. Item("said", m) \in Items
    BY DEF Item, Items, Bounds, SentencesOfWords
  <2> QED
    BY <1>0, <2>1, <2>2
<1>2. CASE Shutdown
  <2>1. queue' = Append(queue, Item("stop", <<>>))
    BY <1>2 DEF Shutdown
  <2>2. Item("stop", <<>>) \in Items
    <3>1. <<>> \in Seq(Words)
      OBVIOUS
    <3> QED
      BY <3>1 DEF Item, Items
  <2> QED
    BY <1>0, <2>1, <2>2
<1>3. CASE PushQuiet
  <2>1. queue' = Append(queue, Item("retrain", Head(rest))) /\ trainer = "push"
    BY <1>3 DEF PushQuiet
  <2>2. rest \in Seq(Seq(Words)) /\ rest # <<>>
    BY <2>1 DEF Announcing
  <2>3. Head(rest) \in Seq(Words)
    BY <2>2
  <2>4. Item("retrain", Head(rest)) \in Items
    BY <2>3 DEF Item, Items
  <2> QED
    BY <1>0, <2>1, <2>4
<1>4. CASE Pop
  <2>1. queue' = Tail(queue) /\ units > 0
    BY <1>4 DEF Pop
  <2>2. queue # <<>>
    BY <2>1, UnitsAreThere
  <2> QED
    BY <1>0, <2>1, <2>2
<1>5. CASE Restart
  <2>1. queue' = <<>>
    BY <1>5 DEF Restart
  <2> QED
    BY <2>1
<1>6. CASE queue' = queue
  BY <1>0, <1>6
<1>7. Discard \/ GetIndices \/ Update \/ Count \/ ClearTotal \/ ClearCompleted => queue' = queue
  BY DEF Discard, GetIndices, Update, Count, ClearTotal, ClearCompleted
<1>8. Load \/ Store \/ NotifyPending \/ Reset \/ Watch \/ Seed \/ Grow \/ Read \/ UNCHANGED vars
        => queue' = queue
  BY DEF Load, Store, NotifyPending, Reset, Watch, Seed, Grow, Read, vars
<1> QED
  BY <1>1, <1>2, <1>3, <1>4, <1>5, <1>6, <1>7, <1>8 DEF Next, WorkerStep, TrainerStep

\* The worker has an item until it is done with it.
Taken ==
  /\ item \in [kind : {"none", "said", "retrain"}, msg : Seq(Words)]
  /\ worker \in {"pop", "index", "table", "count", "clear_total", "clear_completed", "exited"}
  /\ item.kind # "none" <=> worker \in {"index", "table"}

\* Nothing taken is no sentence of a retraining.
LEMMA NoItemTyped ==
  NoItem \in [kind : {"none", "said", "retrain"}, msg : Seq(Words)] /\ NoItem.kind = "none"
<1>1. <<>> \in Seq(Words)
  OBVIOUS
<1> QED
  BY <1>1 DEF NoItem, Item

\* Each place of the worker has an item or not.
LEMMA TakenStays ==
  ASSUME Queueing, Announcing, [Next]_vars
  PROVE  Taken'
<1>0. Taken
  BY DEF Taken, Queueing
<1>1. CASE Pop
  <2> DEFINE x == Head(queue)
  <2>1. /\ item' = (IF x.kind = "stop" \/ x.msg = <<>> THEN NoItem ELSE x)
        /\ worker' = (IF x.kind = "stop" THEN "exited" ELSE IF x.msg = <<>> THEN "pop" ELSE "index")
    BY <1>1 DEF Pop
  <2>2. x \in Items
    <3>1. queue # <<>>
      BY <1>1, UnitsAreThere DEF Pop
    <3>2. queue \in Seq(Items)
      BY DEF Queueing, Items
    <3> QED
      BY <3>1, <3>2
  <2> HIDE DEF x
  <2>3. CASE x.kind = "stop" \/ x.msg = <<>>
    <3>1. item' = NoItem /\ worker' \in {"exited", "pop"}
      BY <2>1, <2>3
    <3> QED
      BY <3>1, NoItemTyped DEF Taken
  <2>4. CASE x.kind # "stop" /\ x.msg # <<>>
    <3>1. item' = x /\ worker' = "index"
      BY <2>1, <2>4
    <3> QED
      BY <2>2, <2>4, <3>1 DEF Taken, Items
  <2> QED
    BY <2>3, <2>4
<1>2. CASE Discard
  <2>1. item' = NoItem /\ worker' \in {"count", "pop"}
    BY <1>2 DEF Discard, Processed
  <2> QED
    BY <2>1, NoItemTyped DEF Taken
<1>3. CASE GetIndices
  BY <1>0, <1>3 DEF GetIndices, Taken
<1>4. CASE Update
  <2>1. CASE todo' = <<>>
    <3>1. item' = NoItem /\ worker' \in {"count", "pop"}
      BY <1>4, <2>1 DEF Update, Processed
    <3> QED
      BY <3>1, NoItemTyped DEF Taken
  <2>2. CASE todo' # <<>>
    BY <1>0, <1>4, <2>2 DEF Update, Taken
  <2> QED
    BY <2>1, <2>2
<1>5. CASE Count \/ ClearTotal \/ ClearCompleted
  <2>1. item' = item /\ worker \notin {"index", "table"}
        /\ worker' \in {"clear_total", "pop", "clear_completed"}
    BY <1>5 DEF Count, ClearTotal, ClearCompleted
  <2> QED
    BY <1>0, <2>1 DEF Taken
<1>6. CASE Restart
  <2>1. item' = NoItem /\ worker' = "pop"
    BY <1>6 DEF Restart
  <2> QED
    BY <2>1, NoItemTyped DEF Taken
<1>7. CASE UNCHANGED <<item, worker>>
  BY <1>0, <1>7 DEF Taken
<1>8. Process \/ Shutdown \/ TrainerStep \/ Reset \/ Watch => UNCHANGED <<item, worker>>
  BY DEF Process, Shutdown, TrainerStep, Load, Store, PushQuiet, NotifyPending, Reset, Watch,
     training
<1>9. Seed \/ Grow \/ Read \/ UNCHANGED vars => UNCHANGED <<item, worker>>
  BY DEF Seed, Grow, Read, vars, training
<1> QED
  BY <1>1, <1>2, <1>3, <1>4, <1>5, <1>6, <1>7, <1>8, <1>9 DEF Next, WorkerStep

\* The queue and the item are sentences.
LEMMA QueueingStays ==
  ASSUME Bounds, Queueing, Announcing, [Next]_vars
  PROVE  Queueing'
BY ItemsOfQueue, TakenStays DEF Taken, Queueing, Items

\* What the trainer pushed and has not announced is the part of the log that it left.
LEMMA AnnouncingStays ==
  ASSUME Bounds, Queueing, Announcing, [Next]_vars
  PROVE  Announcing'
<1> DEFINE q == Len(queue)
<1>0. /\ q \in Nat /\ units \in Nat /\ Len(log) \in Nat /\ Len(rest) \in Nat
      /\ log \in Seq(Seq(Words)) /\ rest \in Seq(Seq(Words)) /\ Len(rest) <= Len(log)
      /\ q = units + Quiet
  BY DEF Announcing, Queueing
<1>1. CASE Process \/ Shutdown
  <2>1. PICK x : queue' = Append(queue, x) /\ x \in Items
    <3>1. CASE Process
      <4>1. PICK m \in Said : queue' = Append(queue, Item("said", m))
        BY <3>1 DEF Process
      <4>2. Item("said", m) \in Items
        BY DEF Item, Items, Bounds, SentencesOfWords
      <4> QED
        BY <4>1, <4>2
    <3>2. CASE Shutdown
      <4>1. <<>> \in Seq(Words)
        OBVIOUS
      <4>2. Item("stop", <<>>) \in Items
        BY <4>1 DEF Item, Items
      <4> QED
        BY <3>2, <4>2 DEF Shutdown
    <3> QED
      BY <1>1, <3>1, <3>2
  <2>2. Len(queue') = q + 1
    BY <2>1 DEF Queueing
  <2>3. units' = units + 1 /\ UNCHANGED <<log, rest, trainer>>
    BY <1>1 DEF Process, Shutdown, retraining, fixed
  <2>4. Quiet' = Quiet
    BY <2>3 DEF Quiet
  <2>5. Quiet \in Nat
    BY <1>0 DEF Quiet
  <2>6. Len(queue') = units' + Quiet' /\ units' \in Nat
    BY <1>0, <2>2, <2>3, <2>4, <2>5
  <2> QED
    BY <2>3, <2>6 DEF Announcing
<1>2. CASE Pop
  <2>1. queue # <<>> /\ queue' = Tail(queue) /\ units > 0 /\ units' = units - 1
        /\ UNCHANGED <<log, rest, trainer>>
    BY <1>2, UnitsAreThere DEF Pop, retraining, fixed
  <2>2. Len(queue') = q - 1
    BY <2>1 DEF Queueing
  <2>3. Quiet' = Quiet /\ Quiet \in Nat
    BY <1>0, <2>1 DEF Quiet
  <2>4. Len(queue') = units' + Quiet' /\ units' \in Nat
    BY <1>0, <2>1, <2>2, <2>3
  <2> QED
    BY <2>1, <2>4 DEF Announcing
<1>3. CASE Reset
  <2>1. /\ rest' = log /\ log' = log /\ trainer = "idle" /\ units' = units /\ queue' = queue
        /\ trainer' = IF log = <<>> THEN "notify" ELSE "load"
    BY <1>3 DEF Reset, fixed
  <2>2. rest = <<>>
    BY <2>1 DEF Announcing
  <2>3. Quiet = 0
    BY <2>1, <2>2 DEF Quiet
  <2>4. Quiet' = 0
    <3>1. CASE log = <<>>
      BY <2>1, <3>1 DEF Quiet
    <3>2. CASE log # <<>>
      BY <1>0, <2>1, <3>2 DEF Quiet
    <3> QED
      BY <3>1, <3>2
  <2>5. rest' # <<>> <=> trainer' \in {"load", "store", "push"}
    BY <2>1
  <2>6. Len(queue') = units' + Quiet'
    BY <1>0, <2>1, <2>3, <2>4
  <2> QED
    BY <1>0, <2>1, <2>5, <2>6 DEF Announcing
<1>4. CASE Load \/ Store
  <2>1. /\ UNCHANGED <<rest, log, units, queue>> /\ trainer \in {"load", "store"}
        /\ trainer' \in {"store", "push"}
    BY <1>4 DEF Load, Store, fixed
  <2>2. Quiet' = Quiet
    BY <2>1 DEF Quiet
  <2> QED
    BY <2>1, <2>2 DEF Announcing
<1>5. CASE PushQuiet
  <2> DEFINE r == Tail(rest)
             x == Item("retrain", Head(rest))
  <2>1. /\ queue' = Append(queue, x) /\ rest' = r /\ trainer = "push" /\ units' = units
        /\ trainer' = (IF r = <<>> THEN "notify" ELSE "load") /\ log' = log
    BY <1>5 DEF PushQuiet, fixed
  <2>2. rest # <<>>
    BY <2>1 DEF Announcing
  <2>3. r \in Seq(Seq(Words)) /\ Len(r) = Len(rest) - 1 /\ Len(r) \in Nat
        /\ (r = <<>> => Len(r) = 0)
    <3>1. r \in Seq(Seq(Words)) /\ Len(r) = Len(rest) - 1
      BY <1>0, <2>2
    <3> HIDE DEF r
    <3> QED
      BY <3>1, EmptySeq
  <2>4. Len(queue') = q + 1
    BY <2>1 DEF Queueing
  <2> HIDE DEF r, x
  <2>5. Quiet = Len(log) - Len(rest)
    BY <2>1, <2>2 DEF Quiet
  <2>6. Quiet' = Quiet + 1
    <3>1. CASE r = <<>>
      <4>1. Quiet' = Len(log)
        BY <2>1, <3>1 DEF Quiet
      <4>2. Len(rest) = 1
        BY <1>0, <2>3, <3>1
      <4> QED
        BY <1>0, <2>5, <4>1, <4>2
    <3>2. CASE r # <<>>
      <4>1. Quiet' = Len(log) - Len(r)
        BY <2>1, <3>2 DEF Quiet
      <4> QED
        BY <1>0, <2>3, <2>5, <4>1
    <3> QED
      BY <3>1, <3>2
  <2>7. Len(queue') = units' + Quiet' /\ Len(rest') <= Len(log')
    BY <1>0, <2>1, <2>3, <2>4, <2>5, <2>6
  <2>8. rest' # <<>> <=> trainer' \in {"load", "store", "push"}
    BY <2>1
  <2>9. trainer' \in {"notify", "load"} /\ units' \in Nat /\ log' \in Seq(Seq(Words))
        /\ rest' \in Seq(Seq(Words))
    BY <1>0, <2>1, <2>3
  <2> QED
    BY <2>7, <2>8, <2>9 DEF Announcing
<1>6. CASE NotifyPending
  <2>1. /\ trainer = "notify" /\ trainer' = "idle" /\ units' = units + Len(log)
        /\ UNCHANGED <<rest, log, queue>>
    BY <1>6 DEF NotifyPending, fixed
  <2>2. rest = <<>> /\ Quiet = Len(log)
    BY <2>1 DEF Announcing, Quiet
  <2>3. Quiet' = 0
    BY <2>1, <2>2 DEF Quiet
  <2>4. units' \in Nat /\ Len(queue') = units' + Quiet'
    BY <1>0, <2>1, <2>2, <2>3
  <2> QED
    BY <2>1, <2>2, <2>4 DEF Announcing
<1>7. CASE Restart
  <2>1. queue' = <<>> /\ units' = 0 /\ trainer' = "idle" /\ rest' = <<>> /\ log' = log
    BY <1>7 DEF Restart
  <2>2. Quiet' = 0 /\ Len(<<>>) = 0 /\ <<>> \in Seq(Seq(Words))
    BY <2>1 DEF Quiet
  <2>3. Len(queue') = units' + Quiet' /\ Len(rest') <= Len(log')
    BY <1>0, <2>1, <2>2
  <2> QED
    BY <1>0, <2>1, <2>2, <2>3 DEF Announcing
<1>8. CASE UNCHANGED <<queue, units, rest, log, trainer>>
  BY <1>8 DEF Announcing, Quiet
<1>9. Discard \/ GetIndices \/ Update \/ Count \/ ClearTotal \/ ClearCompleted
        => UNCHANGED <<queue, units, rest, log, trainer>>
  BY DEF Discard, GetIndices, Update, Count, ClearTotal, ClearCompleted, retraining, fixed
<1>10. Watch \/ Seed \/ Grow \/ Read \/ UNCHANGED vars
        => UNCHANGED <<queue, units, rest, log, trainer>>
  BY DEF Watch, Seed, Grow, Read, vars, retraining, fixed
<1> QED
  BY <1>1, <1>2, <1>3, <1>4, <1>5, <1>6, <1>7, <1>8, <1>9, <1>10 DEF Next, WorkerStep, TrainerStep

-----------------------------------------------------------------------------
(* The counters *)

\* What CountersAgree compares with the total.
Done == IF worker = "clear_completed" THEN 0 ELSE completed
Held == IF item.kind = "retrain" \/ worker = "count" THEN 1 ELSE 0
Pushed == IF trainer = "push" THEN 1 ELSE 0
Waiting == Cardinality(Counted(queue))
Tally == Done + skipped + Waiting + Held + Pushed

Tallied ==
  /\ Waiting \in Nat
  /\ completed \in Nat /\ skipped \in Nat => (CountersAgree <=> (~miscounted => total = Tally))

\* CountersAgree, with its sum.
LEMMA AgreeIsTally == Queueing => Tallied
<1> SUFFICES ASSUME Queueing PROVE Tallied
  OBVIOUS
<1>1. Waiting \in Nat
  BY CountedIsFinite DEF Queueing, Waiting
<1>2. DOMAIN queue = 1..Len(queue)
  BY DEF Queueing
<1>3. Cardinality({i \in DOMAIN queue : queue[i].kind = "retrain"}) = Waiting
  BY <1>2 DEF Waiting, Counted
<1>4. Outstanding = Waiting + Held + Pushed
  BY <1>3 DEF Outstanding, Held, Pushed
<1>5. completed \in Nat /\ skipped \in Nat => Done + skipped + Outstanding = Tally
  <2>1. Held \in Nat /\ Pushed \in Nat /\ (completed \in Nat => Done \in Nat)
    BY DEF Held, Pushed, Done
  <2> QED
    BY <1>1, <1>4, <2>1 DEF Tally
<1> QED
  BY <1>1, <1>5 DEF CountersAgree, Done, Tallied

\* Their types.
Numbers ==
  /\ total \in Nat /\ completed \in Nat /\ skipped \in Nat /\ loaded \in Nat
  /\ miscounted \in BOOLEAN /\ watching \in BOOLEAN

\* The counters are numbers.
LEMMA NumbersStay ==
  ASSUME Numbers, [Next]_vars
  PROVE  Numbers'
<1> USE DEF Numbers
<1>1. CASE Pop
  BY <1>1 DEF Pop, retraining
<1>2. CASE Count \/ ClearTotal \/ ClearCompleted
  <2>1. /\ total' \in {total, 0} /\ completed' \in {completed, completed + 1, 0}
        /\ UNCHANGED <<skipped, loaded, watching>>
        /\ miscounted' = miscounted \/ miscounted' = (miscounted \/ total # completed)
    BY <1>2 DEF Count, ClearTotal, ClearCompleted, retraining
  <2>2. miscounted' \in BOOLEAN
    BY <2>1
  <2>3. total' \in Nat /\ completed' \in Nat
    BY <2>1
  <2> QED
    BY <2>1, <2>2, <2>3
<1>3. CASE Load \/ Store
  <2>1. /\ total' \in {total, loaded + 1} /\ loaded' \in {total, loaded}
        /\ UNCHANGED <<completed, skipped, watching>>
        /\ miscounted' = miscounted \/ miscounted' = (miscounted \/ total # loaded)
    BY <1>3 DEF Load, Store, counters
  <2>2. miscounted' \in BOOLEAN
    BY <2>1
  <2>3. total' \in Nat /\ loaded' \in Nat
    BY <2>1
  <2> QED
    BY <2>1, <2>2, <2>3
<1>4. CASE NotifyPending \/ Watch
  BY <1>4 DEF NotifyPending, Watch, counters
<1>7. CASE Restart
  BY <1>7 DEF Restart
<1>5. Process \/ Shutdown \/ Discard \/ GetIndices \/ Update
        => UNCHANGED <<counters, loaded, watching>>
  BY DEF Process, Shutdown, Discard, GetIndices, Update, retraining
<1>6. PushQuiet \/ Reset \/ Seed \/ Grow \/ Read \/ UNCHANGED vars
        => UNCHANGED <<counters, loaded, watching>>
  BY DEF PushQuiet, Reset, Seed, Grow, Read, vars, retraining
<1> QED
  BY <1>1, <1>2, <1>3, <1>4, <1>5, <1>6, <1>7 DEF Next, WorkerStep, TrainerStep, counters

\* What a step does to the total and to what it is compared with.
LEMMA SumStays ==
  ASSUME Bounds, Queueing, Announcing, Numbers, [Next]_vars, ~miscounted => total = Tally
  PROVE  ~miscounted' => total' = Tally'
<1>0. /\ total \in Nat /\ completed \in Nat /\ skipped \in Nat /\ loaded \in Nat
      /\ miscounted \in BOOLEAN /\ Waiting \in Nat /\ Held \in Nat /\ Pushed \in Nat /\ Done \in Nat
      /\ queue \in Seq(Items)
  BY AgreeIsTally DEF Tallied, Numbers, Held, Pushed, Done, Queueing, Items
<1>1. CASE Process
  <2>1. PICK m \in Said : queue' = Append(queue, Item("said", m))
    BY <1>1 DEF Process
  <2>2. Item("said", m) \in Items /\ Item("said", m).kind # "retrain"
    BY DEF Item, Items, Bounds, SentencesOfWords
  <2>3. Waiting' = Waiting + 0
    BY <1>0, <2>1, <2>2, CountAppended DEF Waiting
  <2>4. UNCHANGED <<total, miscounted, Done, skipped, Held, Pushed>>
    BY <1>1 DEF Process, counters, training, retraining, Done, Held, Pushed
  <2> QED
    BY <1>0, <2>3, <2>4 DEF Tally
<1>2. CASE Shutdown
  <2>1. queue' = Append(queue, Item("stop", <<>>))
    BY <1>2 DEF Shutdown
  <2>2. Item("stop", <<>>) \in Items /\ Item("stop", <<>>).kind # "retrain"
    <3>1. <<>> \in Seq(Words)
      OBVIOUS
    <3> QED
      BY <3>1 DEF Item, Items
  <2>3. Waiting' = Waiting + 0
    BY <1>0, <2>1, <2>2, CountAppended DEF Waiting
  <2>4. UNCHANGED <<total, miscounted, Done, skipped, Held, Pushed>>
    BY <1>2 DEF Shutdown, counters, training, retraining, Done, Held, Pushed
  <2> QED
    BY <1>0, <2>3, <2>4 DEF Tally
<1>3. CASE PushQuiet
  <2>1. queue' = Append(queue, Item("retrain", Head(rest))) /\ trainer = "push"
    BY <1>3 DEF PushQuiet
  <2>2. Item("retrain", Head(rest)) \in Items /\ Item("retrain", Head(rest)).kind = "retrain"
    <3>1. rest \in Seq(Seq(Words)) /\ rest # <<>>
      BY <2>1 DEF Announcing
    <3>2. Head(rest) \in Seq(Words)
      BY <3>1
    <3> QED
      BY <3>2 DEF Item, Items
  <2>3. Waiting' = Waiting + 1
    BY <1>0, <2>1, <2>2, CountAppended DEF Waiting
  <2>4. Pushed = 1 /\ Pushed' = 0
    BY <1>3 DEF PushQuiet, Pushed
  <2>5. UNCHANGED <<total, miscounted, Done, skipped, Held>>
    BY <1>3 DEF PushQuiet, counters, training, Done, Held
  <2> QED
    BY <1>0, <2>3, <2>4, <2>5 DEF Tally
<1>4. CASE Pop
  <2> DEFINE x == Head(queue)
  <2>1. /\ item' = (IF x.kind = "stop" \/ x.msg = <<>> THEN NoItem ELSE x)
        /\ worker' = (IF x.kind = "stop" THEN "exited" ELSE IF x.msg = <<>> THEN "pop" ELSE "index")
        /\ skipped' = skipped + (IF x.kind = "retrain" /\ x.msg = <<>> THEN 1 ELSE 0)
        /\ queue' = Tail(queue) /\ worker = "pop"
        /\ UNCHANGED <<total, completed, miscounted, trainer>>
    BY <1>4 DEF Pop, retraining
  <2>2. queue # <<>>
    BY <1>4, UnitsAreThere DEF Pop
  <2>3. Waiting = Waiting' + IF x.kind = "retrain" THEN 1 ELSE 0
    BY <1>0, <2>1, <2>2, CountTaken DEF Waiting
  <2>4. Waiting' \in Nat
    <3>1. Tail(queue) \in Seq(Items)
      BY <1>0, <2>2
    <3> QED
      BY <2>1, <3>1, CountedIsFinite DEF Waiting
  <2> HIDE DEF x
  <2>5. Held = 0
    BY <2>1 DEF Queueing, Held
  <2>6. Held' + skipped' = skipped + IF x.kind = "retrain" THEN 1 ELSE 0
    <3>1. CASE x.kind = "retrain" /\ x.msg # <<>>
      <4>1. Held' = 1 /\ skipped' = skipped
        BY <1>0, <2>1, <3>1 DEF Held
      <4> QED
        BY <1>0, <3>1, <4>1
    <3>2. CASE x.kind = "retrain" /\ x.msg = <<>>
      <4>1. Held' = 0 /\ skipped' = skipped + 1
        BY <1>0, <2>1, <3>2, NoItemTyped DEF Held
      <4> QED
        BY <1>0, <3>2, <4>1
    <3>3. CASE x.kind # "retrain"
      <4>1. Held' = 0 /\ skipped' = skipped
        BY <1>0, <2>1, <3>3, NoItemTyped DEF Held
      <4> QED
        BY <1>0, <3>3, <4>1
    <3> QED
      BY <3>1, <3>2, <3>3
  <2>7. Done' = Done /\ Pushed' = Pushed
    BY <2>1 DEF Done, Pushed
  <2>8. Held' \in Nat /\ skipped' \in Nat
    BY <1>0, <2>1 DEF Held
  <2>9. Tally' = Tally
    <3> DEFINE one == IF x.kind = "retrain" THEN 1 ELSE 0
    <3>1. one \in Nat /\ Waiting = Waiting' + one /\ Held' + skipped' = skipped + one
      BY <2>3, <2>6
    <3> HIDE DEF one
    <3>2. /\ Done \in Nat /\ skipped \in Nat /\ Waiting \in Nat /\ Pushed \in Nat
          /\ Waiting' \in Nat /\ Held' \in Nat /\ skipped' \in Nat
      BY <1>0, <2>4, <2>8
    <3> DEFINE w == Waiting'
               h == Held'
               s == skipped'
    <3>3. Done + skipped + Waiting + 0 + Pushed = Done + s + w + h + Pushed
      <4>1. /\ one \in Nat /\ w \in Nat /\ h \in Nat /\ s \in Nat
            /\ Waiting = w + one /\ h + s = skipped + one
        BY <3>1, <3>2
      <4> HIDE DEF w, h, s
      <4>2. h = skipped + one - s /\ w = Waiting - one
        BY <3>2, <4>1
      <4> QED
        BY <3>2, <4>1, <4>2
    <3> QED
      BY <2>5, <2>7, <3>3 DEF Tally
  <2> QED
    BY <2>1, <2>9
<1>5. CASE Discard \/ (Update /\ todo' = <<>>)
  <2>1. /\ item' = NoItem /\ worker \in {"index", "table"}
        /\ worker' = (IF item.kind = "retrain" THEN "count" ELSE "pop")
    BY <1>5 DEF Discard, Update, Processed
  <2>2. UNCHANGED <<total, miscounted, completed, skipped, queue, trainer>>
    BY <1>5 DEF Discard, Update, counters, retraining
  <2>3. Held' = Held /\ Done' = Done
    BY <2>1, <2>2, NoItemTyped DEF Held, Done
  <2> QED
    BY <2>2, <2>3 DEF Tally, Waiting, Pushed
<1>6. CASE GetIndices \/ (Update /\ todo' # <<>>)
  <2>1. /\ item' = item /\ worker \in {"index", "table"} /\ worker' \in {"index", "table"}
        /\ UNCHANGED <<total, miscounted, completed, skipped, queue, trainer>>
    BY <1>6 DEF GetIndices, Update, counters, retraining
  <2> QED
    BY <2>1 DEF Tally, Held, Done, Waiting, Pushed
<1>7. CASE Count
  <2>1. /\ worker = "count" /\ worker' \in {"clear_total", "pop"} /\ completed' = completed + 1
        /\ UNCHANGED <<total, miscounted, skipped, queue, trainer, item>>
    BY <1>7 DEF Count, retraining
  <2>2. Held = 1 /\ Held' = 0 /\ Done' = Done + 1
    BY <1>0, <2>1 DEF Queueing, Held, Done
  <2>3. Tally' = Tally
    BY <1>0, <2>1, <2>2 DEF Tally, Waiting, Pushed
  <2> QED
    BY <2>1, <2>3
<1>8. CASE ClearTotal
  <2>1. /\ worker = "clear_total" /\ worker' = "clear_completed" /\ total' = 0
        /\ miscounted' = (miscounted \/ total # completed)
        /\ UNCHANGED <<completed, skipped, queue, trainer, item>>
    BY <1>8 DEF ClearTotal, retraining
  <2>2. Done = completed /\ Done' = 0 /\ Held' = Held
    BY <2>1 DEF Held, Done
  <2>3. UNCHANGED <<Waiting, Pushed>>
    BY <2>1 DEF Waiting, Pushed
  <2>4. ASSUME ~miscounted' PROVE Tally' = 0
    <3>1. total = Tally /\ total = completed
      BY <2>1, <2>4
    <3> QED
      BY <1>0, <2>1, <2>2, <2>3, <3>1 DEF Tally
  <2> QED
    BY <2>1, <2>4
<1>9. CASE ClearCompleted
  <2>1. /\ worker = "clear_completed" /\ worker' = "pop" /\ completed' = 0
        /\ UNCHANGED <<total, miscounted, skipped, queue, trainer, item>>
    BY <1>9 DEF ClearCompleted, retraining
  <2>2. Done = 0 /\ Done' = 0 /\ Held' = Held
    BY <2>1 DEF Held, Done
  <2> QED
    BY <2>1, <2>2 DEF Tally, Waiting, Pushed
<1>10. CASE Load
  <2>1. trainer = "load" /\ trainer' = "store" /\ UNCHANGED <<counters, training, queue>>
    BY <1>10 DEF Load
  <2> QED
    BY <2>1 DEF counters, training, Tally, Done, Held, Waiting, Pushed
<1>11. CASE Store
  <2>1. /\ trainer = "store" /\ trainer' = "push" /\ total' = loaded + 1
        /\ miscounted' = (miscounted \/ total # loaded)
        /\ UNCHANGED <<completed, skipped, worker, item, queue>>
    BY <1>11 DEF Store, training
  <2>2. Pushed = 0 /\ Pushed' = 1 /\ UNCHANGED <<Done, Held, Waiting>>
    BY <2>1 DEF Pushed, Done, Held, Waiting
  <2>3. Tally' = Tally + 1
    BY <1>0, <2>1, <2>2 DEF Tally
  <2> QED
    BY <2>1, <2>3
<1>12. CASE Restart
  <2>1. /\ total' = 0 /\ completed' = 0 /\ skipped' = 0 /\ queue' = <<>> /\ item' = NoItem
        /\ worker' = "pop" /\ trainer' = "idle"
    BY <1>12 DEF Restart
  <2>2. Counted(<<>>) = {}
    BY DEF Counted
  <2>3. Waiting' = 0
    BY <2>1, <2>2, FS_EmptySet DEF Waiting
  <2>4. Done' = 0 /\ Held' = 0 /\ Pushed' = 0
    BY <2>1, NoItemTyped DEF Done, Held, Pushed
  <2> QED
    BY <2>1, <2>3, <2>4 DEF Tally
<1>13. CASE UNCHANGED <<counters, training, queue>> /\ (trainer' = "push" <=> trainer = "push")
  BY <1>13 DEF counters, training, Tally, Done, Held, Waiting, Pushed
<1>14. NotifyPending \/ Reset \/ Watch \/ Seed \/ Grow \/ Read \/ UNCHANGED vars
         => UNCHANGED <<counters, training, queue>> /\ (trainer' = "push" <=> trainer = "push")
  BY DEF NotifyPending, Reset, Watch, Seed, Grow, Read, vars, retraining
<1> QED
  BY <1>1, <1>2, <1>3, <1>4, <1>5, <1>6, <1>7, <1>8, <1>9, <1>10, <1>11, <1>12, <1>13, <1>14
     DEF Next, WorkerStep, TrainerStep

\* The counters agree.
LEMMA CountingStays ==
  ASSUME Bounds, Queueing, Announcing, Counting, [Next]_vars
  PROVE  Counting'
<1>1. Numbers /\ (~miscounted => total = Tally)
  BY AgreeIsTally DEF Tallied, Counting, Numbers
<1>2. Numbers' /\ (~miscounted' => total' = Tally')
  BY <1>1, NumbersStay, SumStays
<1>3. Queueing'
  BY QueueingStays
<1>4. Tallied'
  BY <1>3, AgreeIsTally, PTL
<1> QED
  BY <1>2, <1>4 DEF Tallied, Counting, Numbers

-----------------------------------------------------------------------------
(* The theorems *)

\* The invariant holds at the start of the first process.
LEMMA InitIInv == Bounds /\ Init => IInv
<1> SUFFICES ASSUME Bounds, Init PROVE IInv
  OBVIOUS
<1>0. /\ <<>> \in Seq(Words) /\ Len(<<>>) = 0 /\ DOMAIN <<>> = {} /\ 1..0 = {}
      /\ <<>> \in Seq(Seq(Words)) /\ <<>> \in Seq(AnyPair) /\ <<>> \in Seq(Pairs(LastIndex))
      /\ <<>> \in Seq(Nat) /\ <<>> \in Seq(0..LastIndex) /\ <<>> \in Seq(Items)
  OBVIOUS
<1>1. Entries
  BY <1>0 DEF Init, Entries, Indexed
<1>2. Flags /\ Updating
  BY <1>0 DEF Init, Flags, Updating
<1>3. Generating
  BY <1>0 DEF Init, Generating, Bounds
<1>4. Queueing
  BY <1>0, NoItemTyped DEF Init, Queueing, Items
<1>5. Announcing
  <2>1. log \in Seq(Seq(Words)) /\ Len(log) \in Nat
    BY DEF Init, Bounds, SentencesOfWords
  <2>2. Quiet = 0
    BY DEF Init, Quiet
  <2> QED
    BY <1>0, <2>1, <2>2 DEF Init, Announcing
<1>6. Counting
  <2>1. Counted(<<>>) = {}
    BY DEF Counted
  <2>2. Waiting = 0
    BY <2>1, FS_EmptySet DEF Waiting, Init
  <2>3. Done = 0 /\ Held = 0 /\ Pushed = 0
    BY NoItemTyped DEF Done, Held, Pushed, Init
  <2>4. total = 0 /\ completed = 0 /\ skipped = 0
    BY DEF Init
  <2>5. total = Tally
    BY <2>2, <2>3, <2>4 DEF Tally
  <2>6. CountersAgree
    BY <1>4, <2>4, <2>5, AgreeIsTally DEF Tallied
  <2> QED
    BY <2>6 DEF Init, Counting
<1> QED
  BY <1>1, <1>2, <1>3, <1>4, <1>5, <1>6 DEF IInv

\* However the worker, the trainer, the generators and restarts take turns, the
\* invariant holds.
THEOREM Invariance == Bounds => (Spec => []IInv)
<1> SUFFICES ASSUME Bounds PROVE Spec => []IInv
  OBVIOUS
<1>1. Init => IInv
  BY InitIInv
<1>2. IInv /\ [Next]_vars => IInv'
  BY EntriesStay, FlagsStay, UpdatingStays, GeneratingStays, QueueingStays, AnnouncingStays,
     CountingStays DEF IInv
<1> QED
  BY <1>1, <1>2, PTL DEF Spec

\* The queue, the counters and the indices are what the code takes them for: for any
\* sentences said and logged, resets and restarts at any point.
THEOREM TypeCorrect == Bounds => (Spec => []TypeOK)
<1> SUFFICES ASSUME Bounds PROVE Spec => []TypeOK
  OBVIOUS
<1>1. IInv => TypeOK
  <2> SUFFICES ASSUME IInv PROVE TypeOK
    OBVIOUS
  <2> USE DEF IInv
  <2>1. ASSUME NEW k \in DOMAIN wordIndices
        PROVE  wordIndices[k] \in Nat \ {IDX_START_MARKER, IDX_END_MARKER}
    <3>1. wordList \in Seq(Words) /\ wordIndices[k] \in 2..(Len(wordList) + 1)
      BY DEF Entries, Indexed
    <3> QED
      BY <3>1 DEF IDX_START_MARKER, IDX_END_MARKER
  <2>2. \A u \in table : Len(u[1]) \in 1..MAX_PREFIX_LENGTH /\ u[2] \in Nat
    BY DEF Updating, AnyPair
  <2>3. units \in Nat /\ total \in Nat /\ completed \in Nat /\ skipped \in Nat
        /\ watching \in BOOLEAN /\ miscounted \in BOOLEAN
    BY DEF Announcing, Counting
  <2>4. /\ worker \in {"pop", "index", "table", "count", "clear_total", "clear_completed", "exited"}
        /\ item.kind \in {"none", "said", "retrain"}
    BY DEF Queueing
  <2>5. /\ (todo # <<>> <=> worker = "table")
        /\ trainer \in {"idle", "load", "store", "push", "notify"}
        /\ (rest # <<>> <=> trainer \in {"load", "store", "push"})
    BY DEF Updating, Announcing
  <2>6. generator \in {"idle", "grow", "read"} /\ Len(output) <= MaxOutput
    BY DEF Generating
  <2> QED
    BY <2>1, <2>2, <2>3, <2>4, <2>5, <2>6 DEF TypeOK
<1> QED
  BY <1>1, Invariance, PTL

\* The words and their indices are two views of one set of words, no index is used for
\* a word that is not there unless the model was reset in between, and the counters of
\* a retraining say what is left of it unless an increment was lost: for any sentences,
\* any number of retrainings and restarts (retrain(), process_one(), generateMessage()).
THEOREM ModelAgreesHolds == Bounds => (Spec => []ModelAgrees)
<1> SUFFICES ASSUME Bounds PROVE Spec => []ModelAgrees
  OBVIOUS
<1>1. IInv => ModelAgrees
  <2> SUFFICES ASSUME IInv PROVE ModelAgrees
    OBVIOUS
  <2> USE DEF IInv
  <2>1. wordList \in Seq(Words) /\ Len(wordList) \in Nat /\ DOMAIN wordList = 1..Len(wordList)
    BY DEF Entries, Indexed
  <2>2. Valid = 0..LastIndex /\ 2..(Len(wordList) + 1) \subseteq Valid
    BY <2>1 DEF Valid, LastIndex
  <2>3. IndicesNameTheirWord
    BY <2>1, <2>2 DEF IndicesNameTheirWord, Entries, Indexed
  <2>4. ASSUME NEW p \in Seq(0..LastIndex), NEW i \in DOMAIN p PROVE p[i] \in 0..LastIndex
    <3> DEFINE I == 0..LastIndex
    <3>1. p \in Seq(I)
      OBVIOUS
    <3> HIDE DEF I
    <3>2. p[i] \in I
      BY <3>1
    <3> QED
      BY <3>2 DEF I
  <2>5. TableIsValid
    <3>1. \A u \in Pairs(LastIndex) : u[2] \in 0..LastIndex /\ u[1] \in Seq(0..LastIndex)
      BY DEF Pairs
    <3> QED
      BY <2>2, <2>4, <3>1 DEF TableIsValid, Updating
  <2>6. OutputIsValid
    BY <2>2, <2>4 DEF OutputIsValid, Generating
  <2> QED
    BY <2>3, <2>5, <2>6 DEF ModelAgrees, IndicesAreValid, Counting
<1> QED
  BY <1>1, Invariance, PTL
=============================================================================
