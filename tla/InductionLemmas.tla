--------------------------- MODULE InductionLemmas ---------------------------
(***************************************************************************)
(* Lemmas for proofs about functions that are defined by recursion.        *)
(* Induction is stated for a set of numbers, and proved by counting: no    *)
(* number is the first that is not in the set.  The last part is about     *)
(* joining sequences.                                                      *)
(***************************************************************************)
EXTENDS Integers, Sequences, FiniteSets, Functions, SequencesExt, FiniteSetTheorems,
        SequenceTheorems, TLAPS

\* A set of numbers that has 0 and, with each number, the next has them all.
LEMMA SetInduction ==
    ASSUME NEW S \in SUBSET Nat, 0 \in S, \A n \in S : n + 1 \in S
    PROVE  S = Nat
<1> SUFFICES ASSUME NEW m \in Nat, m \notin S PROVE FALSE
  OBVIOUS
<1> DEFINE D == {k \in 0..m : k \notin S}
           pred == [k \in D |-> k - 1]
<1>1. IsFiniteSet(D) /\ Cardinality(D) \in Nat
  <2>1. IsFiniteSet(0..m)
    BY FS_Interval
  <2>2. D \in SUBSET (0..m)
    OBVIOUS
  <2>3. IsFiniteSet(D)
    BY <2>1, <2>2, FS_Subset
  <2> QED
    BY <2>3, FS_CardinalityType
<1>2. IsFiniteSet(D \ {m}) /\ Cardinality(D \ {m}) = Cardinality(D) - 1
  <2>1. m \in D
    OBVIOUS
  <2> HIDE DEF D
  <2> QED
    BY <1>1, <2>1, FS_RemoveElement
\* With k its predecessor is outside S too: the numbers outside S could be
\* counted again without m.
<1>3. pred \in Injection(D, D \ {m})
  <2>1. ASSUME NEW k \in D PROVE k - 1 \in D \ {m}
    <3>1. k # 0 /\ k \in Nat /\ k <= m
      OBVIOUS
    <3>2. k - 1 \notin S
      <4> SUFFICES ASSUME k - 1 \in S PROVE FALSE
        OBVIOUS
      <4>1. (k - 1) + 1 \in S
        OBVIOUS
      <4> QED
        BY <4>1, <3>1
    <3> QED
      BY <3>1, <3>2
  <2>2. pred \in [D -> D \ {m}]
    BY <2>1
  <2>3. \A a, b \in D : pred[a] = pred[b] => a = b
    OBVIOUS
  <2> QED
    BY <2>2, <2>3 DEF Injection, IsInjective
<1>4. Cardinality(D) <= Cardinality(D \ {m})
  <2> HIDE DEF D, pred
  <2> QED
    BY <1>2, <1>3, FS_Injection
<1> QED
  <2> HIDE DEF D
  <2> QED
    BY <1>1, <1>2, <1>4

\* The running sums of a sequence of numbers.
IsSum(s, w) ==
    /\ s \in [0..Len(w) -> Int]
    /\ s[0] = 0
    /\ \A n \in 1..Len(w) : s[n] = s[n - 1] + w[n]

\* Every sequence of numbers has running sums.
LEMMA SumExists ==
    ASSUME NEW w \in Seq(Int)
    PROVE  \E s : IsSum(s, w)
<1> DEFINE Upto(s, n) == /\ s \in [0..n -> Int]
                         /\ s[0] = 0
                         /\ \A k \in 1..n : s[k] = s[k - 1] + w[k]
           S == {n \in Nat : n <= Len(w) => \E s : Upto(s, n)}
<1>1. 0 \in S
  <2>1. Upto([k \in 0..0 |-> 0], 0)
    OBVIOUS
  <2> HIDE DEF Upto
  <2> QED
    BY <2>1
<1>2. ASSUME NEW n \in Nat, n + 1 <= Len(w), NEW s, Upto(s, n)
      PROVE  \E t : Upto(t, n + 1)
  <2> DEFINE t == [k \in 0..(n + 1) |-> IF k = n + 1 THEN s[n] + w[n + 1] ELSE s[k]]
  <2>1. w[n + 1] \in Int
    BY <1>2
  <2>2. t \in [0..(n + 1) -> Int]
    BY <1>2, <2>1
  <2>3. t[0] = 0 /\ \A k \in 1..(n + 1) : t[k] = t[k - 1] + w[k]
    BY <1>2
  <2>4. Upto(t, n + 1)
    BY <2>2, <2>3
  <2> HIDE DEF Upto, t
  <2> QED
    BY <2>4
<1>3. Len(w) \in S
  <2>1. S \in SUBSET Nat
    OBVIOUS
  <2>2. \A n \in S : n + 1 \in S
    <3> HIDE DEF Upto
    <3> QED
      BY <1>2
  <2>3. S = Nat
    <3> HIDE DEF S
    <3> QED
      BY <1>1, <2>1, <2>2, SetInduction
  <2> QED
    BY <2>3
<1>4. \E s : Upto(s, Len(w))
  <2> HIDE DEF Upto
  <2> QED
    BY <1>3
<1> QED
  BY <1>4 DEF IsSum

\* Running sums are what a recursive definition of them computes.
LEMMA SumUnique ==
    ASSUME NEW w \in Seq(Int), NEW s, IsSum(s, w), NEW t,
           \A n \in 0..Len(w) : t[n] = IF n = 0 THEN 0 ELSE t[n - 1] + w[n]
    PROVE  \A n \in 0..Len(w) : t[n] = s[n]
<1> DEFINE S == {n \in Nat : n <= Len(w) => t[n] = s[n]}
<1>1. 0 \in S
  BY DEF IsSum
<1>2. ASSUME NEW n \in S PROVE n + 1 \in S
  <2> SUFFICES ASSUME n + 1 <= Len(w) PROVE t[n + 1] = s[n + 1]
    OBVIOUS
  <2>1. t[n + 1] = t[n] + w[n + 1]
    OBVIOUS
  <2>2. s[n + 1] = s[n] + w[n + 1]
    BY DEF IsSum
  <2> QED
    BY <2>1, <2>2
<1>3. S = Nat
  <2>1. S \in SUBSET Nat
    OBVIOUS
  <2> HIDE DEF S
  <2> QED
    BY <1>1, <1>2, <2>1, SetInduction
<1> QED
  <2>1. \A n \in 0..Len(w) : n \in S
    <3> HIDE DEF S
    <3> QED
      BY <1>3
  <2> QED
    BY <2>1

\* The running sums of a concatenation go on from the last sum of its first part.
LEMMA SumConcat ==
    ASSUME NEW u \in Seq(Int), NEW v \in Seq(Int), NEW s, NEW t, IsSum(s, u), IsSum(t, v)
    PROVE  \E r : IsSum(r, u \o v) /\ r[Len(u \o v)] = s[Len(u)] + t[Len(v)]
<1> DEFINE a == Len(u)
           b == Len(v)
           r == [n \in 0..(a + b) |-> IF n <= a THEN s[n] ELSE s[a] + t[n - a]]
<1>1. /\ a \in Nat /\ b \in Nat /\ Len(u \o v) = a + b
      /\ \A n \in 1..a : (u \o v)[n] = u[n]
      /\ \A n \in 1..b : (u \o v)[a + n] = v[n] /\ v[n] \in Int
  OBVIOUS
<1>2. /\ s[0] = 0 /\ \A n \in 0..a : s[n] \in Int
      /\ t[0] = 0 /\ \A n \in 0..b : t[n] \in Int
      /\ \A n \in 1..a : s[n] = s[n - 1] + u[n]
      /\ \A n \in 1..b : t[n] = t[n - 1] + v[n]
  BY DEF IsSum
<1> HIDE DEF a, b
<1>3. /\ \A n \in 0..a : r[n] = s[n] /\ r[n] \in Int
      /\ \A n \in 0..b : r[a + n] = s[a] + t[n] /\ r[a + n] \in Int
  <2>1. s[a] \in Int
    BY <1>1, <1>2
  <2>2. \A n \in 0..a : r[n] = s[n]
    BY <1>1
  <2>3. ASSUME NEW n \in 1..b
        PROVE  r[a + n] = s[a] + t[n]
    <3>1. a + n \in 0..(a + b) /\ (a + n) - a = n /\ ~(a + n <= a)
      BY <1>1
    <3>2. r[a + n] = s[a] + t[(a + n) - a]
      BY <3>1
    <3> QED
      BY <3>1, <3>2
  <2>4. r[a + 0] = s[a] + t[0]
    <3>1. a + 0 = a /\ s[a] + 0 = s[a] /\ a \in 0..a
      BY <1>1, <2>1
    <3> QED
      BY <3>1, <2>2, <1>2
  <2>5. \A n \in 0..b : r[a + n] = s[a] + t[n]
    <3> HIDE DEF r
    <3>1. \A n \in 0..b : n = 0 \/ n \in 1..b
      BY <1>1
    <3> QED
      BY <3>1, <2>3, <2>4
  <2> HIDE DEF r
  <2>6. \A n \in 0..b : s[a] + t[n] \in Int
    BY <1>2, <2>1
  <2> QED
    BY <1>2, <2>2, <2>5, <2>6
<1>4. DOMAIN r = 0..(a + b) /\ r = [n \in 0..(a + b) |-> r[n]]
  OBVIOUS
<1> HIDE DEF r
<1>5. ASSUME NEW n \in 0..(a + b)
      PROVE  n \in 0..a \/ \E k \in 1..b : n = a + k
  <2>1. n > a => n - a \in 1..b /\ n = a + (n - a)
    BY <1>1
  <2> QED
    BY <2>1, <1>1
<1>6. r \in [0..(a + b) -> Int]
  <2>1. \A n \in 0..(a + b) : r[n] \in Int
    BY <1>3, <1>5
  <2> QED
    BY <1>4, <2>1
<1>7. r[0] = 0 /\ r[a + b] = s[a] + t[b]
  BY <1>1, <1>2, <1>3
<1>8. ASSUME NEW n \in 1..(a + b)
      PROVE  r[n] = r[n - 1] + (u \o v)[n]
  <2>1. CASE n \in 1..a
    BY <2>1, <1>1, <1>2, <1>3
  <2>2. ASSUME NEW k \in 1..b, n = a + k
        PROVE  r[n] = r[n - 1] + (u \o v)[n]
    <3>1. k - 1 \in 0..b /\ a + (k - 1) = n - 1
      BY <2>2, <1>1
    <3>2. r[n - 1] = s[a] + t[k - 1] /\ r[n] = s[a] + t[k]
      BY <3>1, <2>2, <1>1, <1>3
    <3>3. (u \o v)[n] = v[k] /\ t[k] = t[k - 1] + v[k]
      BY <2>2, <1>1, <1>2
    <3>4. s[a] \in Int /\ t[k - 1] \in Int /\ v[k] \in Int
      BY <3>1, <1>1, <1>2
    <3> QED
      BY <3>2, <3>3, <3>4
  <2> QED
    BY <2>1, <2>2, <1>1, <1>5
<1>9. IsSum(r, u \o v)
  BY <1>1, <1>6, <1>7, <1>8 DEF IsSum
<1> QED
  BY <1>1, <1>7, <1>9 DEF a, b

\* The concatenations of the first so many elements of a sequence of sequences.
IsJoin(r, w, T) ==
    /\ r \in [0..Len(w) -> Seq(T)]
    /\ r[0] = <<>>
    /\ \A n \in 1..Len(w) : r[n] = r[n - 1] \o w[n]

\* Every sequence of sequences can be concatenated.
LEMMA JoinExists ==
    ASSUME NEW T, NEW w \in Seq(Seq(T))
    PROVE  \E r : IsJoin(r, w, T)
<1> DEFINE Upto(r, n) == /\ r \in [0..n -> Seq(T)]
                         /\ r[0] = <<>>
                         /\ \A k \in 1..n : r[k] = r[k - 1] \o w[k]
           S == {n \in Nat : n <= Len(w) => \E r : Upto(r, n)}
<1>1. 0 \in S
  <2>1. Upto([k \in 0..0 |-> <<>>], 0)
    OBVIOUS
  <2> HIDE DEF Upto
  <2> QED
    BY <2>1
<1>2. ASSUME NEW n \in Nat, n + 1 <= Len(w), NEW r, Upto(r, n)
      PROVE  \E t : Upto(t, n + 1)
  <2> DEFINE x == r[n] \o w[n + 1]
             t == [k \in 0..(n + 1) |-> IF k = n + 1 THEN x ELSE r[k]]
  <2>1. x \in Seq(T)
    <3>1. w[n + 1] \in Seq(T) /\ r[n] \in Seq(T)
      BY <1>2
    <3> QED
      BY <3>1
  <2>2. x = r[n] \o w[n + 1]
    OBVIOUS
  <2> HIDE DEF x
  <2>3. t \in [0..(n + 1) -> Seq(T)]
    BY <1>2, <2>1
  <2>4. t[0] = <<>> /\ \A k \in 1..(n + 1) : t[k] = t[k - 1] \o w[k]
    <3>1. t[0] = <<>>
      BY <1>2
    <3>2. ASSUME NEW k \in 1..n PROVE t[k] = t[k - 1] \o w[k]
      <4>1. t[k] = r[k] /\ t[k - 1] = r[k - 1]
        OBVIOUS
      <4> QED
        BY <1>2, <4>1
    <3>3. t[n + 1] = x /\ t[n] = r[n] /\ (n + 1) - 1 = n
      OBVIOUS
    <3>4. \A k \in 1..(n + 1) : k \in 1..n \/ k = n + 1
      OBVIOUS
    <3> HIDE DEF t
    <3> QED
      BY <2>2, <3>1, <3>2, <3>3, <3>4
  <2>5. Upto(t, n + 1)
    BY <2>3, <2>4
  <2> HIDE DEF Upto, t
  <2> QED
    BY <2>5
<1>3. Len(w) \in S
  <2>1. S \in SUBSET Nat
    OBVIOUS
  <2>2. \A n \in S : n + 1 \in S
    <3> HIDE DEF Upto
    <3> QED
      BY <1>2
  <2>3. S = Nat
    <3> HIDE DEF S
    <3> QED
      BY <1>1, <2>1, <2>2, SetInduction
  <2>4. Len(w) \in Nat
    OBVIOUS
  <2> HIDE DEF S
  <2> QED
    BY <2>3, <2>4
<1>4. \E r : Upto(r, Len(w))
  <2> HIDE DEF Upto
  <2> QED
    BY <1>3
<1> QED
  BY <1>4 DEF IsJoin

\* FlattenSeq computes the last of them.
LEMMA JoinIsFlat ==
    ASSUME NEW T, NEW w \in Seq(Seq(T)), NEW r, IsJoin(r, w, T)
    PROVE  FlattenSeq(w) = r[Len(w)]
<1> DEFINE m == Len(w)
           IsRecursion(f) == f = [i \in 1..m |-> IF i = 1 THEN w[i] ELSE f[i - 1] \o w[i]]
           flat == CHOOSE f : IsRecursion(f)
<1>1. m \in Nat /\ \A i \in 1..m : w[i] \in Seq(T)
  OBVIOUS
<1>2. r[0] = <<>> /\ \A i \in 1..m : r[i] = r[i - 1] \o w[i]
  BY DEF IsJoin
<1>5. m # 0 => r[1] = w[1]
  <2> HIDE DEF m, IsRecursion, flat
  <2>1. \A x : x \in Seq(T) => <<>> \o x = x
    OBVIOUS
  <2>2. m # 0 => 1 \in 1..m
    BY <1>1
  <2>3. 1 - 1 = 0
    OBVIOUS
  <2>4. m # 0 => r[1] = r[0] \o w[1]
    BY <1>2, <2>2, <2>3, Zenon
  <2> QED
    BY <1>1, <1>2, <2>1, <2>2, <2>4, Zenon
<1>3. CASE m = 0
  BY <1>2, <1>3 DEF FlattenSeq
<1>4. CASE m # 0
  <2> DEFINE g == [i \in 1..m |-> r[i]]
  <2>1. ASSUME NEW i \in 1..m
        PROVE  g[i] = IF i = 1 THEN w[i] ELSE g[i - 1] \o w[i]
    <3>1. CASE i = 1
      BY <1>4, <1>5, <3>1
    <3>2. CASE i # 1
      <4>1. i - 1 \in 1..m
        BY <1>1, <3>2
      <4> QED
        BY <1>2, <3>2, <4>1
    <3> QED
      BY <3>1, <3>2
  <2>2. IsRecursion(g)
    BY <2>1
  <2>3. IsRecursion(flat)
    <3> HIDE DEF IsRecursion, g
    <3> QED
      BY <2>2
  <2>4. \A i \in 1..m : flat[i] = IF i = 1 THEN w[i] ELSE flat[i - 1] \o w[i]
    <3> HIDE DEF flat
    <3> QED
      BY <2>3
  <2> DEFINE S == {n \in Nat : n + 1 <= m => flat[n + 1] = r[n + 1]}
  <2>5. 0 \in S
    <3>1. 1 \in 1..m
      BY <1>1, <1>4
    <3>2. flat[1] = w[1]
      <4> HIDE DEF flat
      <4> QED
        BY <2>4, <3>1
    <3>3. r[1] = w[1]
      BY <1>4, <1>5
    <3> HIDE DEF flat
    <3> QED
      BY <3>2, <3>3
  <2>6. ASSUME NEW n \in S PROVE n + 1 \in S
    <3> HIDE DEF flat
    <3> SUFFICES ASSUME (n + 1) + 1 <= m PROVE flat[(n + 1) + 1] = r[(n + 1) + 1]
      OBVIOUS
    <3> DEFINE k == n + 2
    <3>1. k \in 1..m /\ k # 1 /\ k - 1 = n + 1 /\ k = (n + 1) + 1 /\ n \in Nat /\ n + 1 <= m
      BY <1>1
    <3>2. flat[n + 1] = r[n + 1]
      BY <3>1
    <3> HIDE DEF k, m, S
    <3>3. flat[k] = flat[k - 1] \o w[k]
      BY <2>4, <3>1
    <3>4. r[k] = r[k - 1] \o w[k]
      BY <1>2, <3>1
    <3> QED
      BY <3>1, <3>2, <3>3, <3>4
  <2>7. S = Nat
    <3>1. S \in SUBSET Nat
      OBVIOUS
    <3> HIDE DEF S
    <3> QED
      BY <2>5, <2>6, <3>1, SetInduction
  <2>8. m - 1 \in Nat /\ (m - 1) + 1 = m /\ m <= m
    BY <1>1, <1>4
  <2>9. flat[m] = r[m]
    <3> HIDE DEF flat, m
    <3>1. (m - 1) + 1 <= m => flat[(m - 1) + 1] = r[(m - 1) + 1]
      BY <2>7, <2>8
    <3> QED
      BY <2>8, <3>1
  <2> QED
    BY <1>4, <2>9 DEF FlattenSeq
<1> QED
  BY <1>3, <1>4

\* Concatenation of sequences of sequences.
LEMMA FlatConcat ==
    ASSUME NEW T, NEW u \in Seq(Seq(T)), NEW v \in Seq(Seq(T))
    PROVE  /\ FlattenSeq(u) \in Seq(T)
           /\ FlattenSeq(u \o v) = FlattenSeq(u) \o FlattenSeq(v)
<1> DEFINE a == Len(u)
           b == Len(v)
           w == u \o v
<1>1. /\ a \in Nat /\ b \in Nat /\ w \in Seq(Seq(T)) /\ Len(w) = a + b
      /\ \A n \in 1..a : w[n] = u[n]
      /\ \A n \in 1..b : w[a + n] = v[n] /\ v[n] \in Seq(T)
  OBVIOUS
<1>2. PICK s : IsJoin(s, u, T)
  BY JoinExists
<1>3. PICK t : IsJoin(t, v, T)
  BY JoinExists
<1>4. /\ s[0] = <<>> /\ \A n \in 0..a : s[n] \in Seq(T)
      /\ t[0] = <<>> /\ \A n \in 0..b : t[n] \in Seq(T)
      /\ \A n \in 1..a : s[n] = s[n - 1] \o u[n]
      /\ \A n \in 1..b : t[n] = t[n - 1] \o v[n]
  BY <1>2, <1>3 DEF IsJoin
<1>5. FlattenSeq(u) = s[a] /\ FlattenSeq(v) = t[b]
  BY <1>2, <1>3, JoinIsFlat
<1> HIDE DEF a, b, w
<1>6. s[a] \in Seq(T)
  BY <1>1, <1>4
<1> DEFINE r == [n \in 0..(a + b) |-> IF n <= a THEN s[n] ELSE s[a] \o t[n - a]]
<1>7. \A n \in 0..a : r[n] = s[n]
  BY <1>1
<1>8. \A n \in 0..b : r[a + n] = s[a] \o t[n]
  <2> SUFFICES ASSUME NEW n \in 0..b PROVE r[a + n] = s[a] \o t[n]
    OBVIOUS
  <2>1. CASE n = 0
    <3>1. r[a + n] = s[a] /\ t[n] = <<>>
      BY <1>1, <1>4, <2>1
    <3> QED
      BY <1>6, <3>1
  <2>2. CASE n # 0
    <3>1. a + n \in 0..(a + b) /\ ~(a + n <= a) /\ (a + n) - a = n
      BY <1>1, <2>2
    <3> QED
      BY <3>1
  <2> QED
    BY <2>1, <2>2
<1>9. ASSUME NEW n \in 0..(a + b)
      PROVE  n \in 0..a \/ \E k \in 1..b : n = a + k
  <2>1. n > a => n - a \in 1..b /\ n = a + (n - a)
    BY <1>1
  <2> QED
    BY <2>1, <1>1
<1>10. r = [n \in 0..(a + b) |-> r[n]]
  OBVIOUS
<1> HIDE DEF r
<1>11. \A n \in 0..(a + b) : r[n] \in Seq(T)
  <2> SUFFICES ASSUME NEW n \in 0..(a + b) PROVE r[n] \in Seq(T)
    OBVIOUS
  <2>1. CASE n \in 0..a
    BY <1>4, <1>7, <2>1
  <2>2. ASSUME NEW k \in 1..b, n = a + k PROVE r[n] \in Seq(T)
    <3>1. k \in 0..b
      OBVIOUS
    <3>2. r[n] = s[a] \o t[k] /\ t[k] \in Seq(T)
      BY <1>4, <1>8, <2>2, <3>1
    <3> QED
      BY <1>6, <3>2
  <2> QED
    BY <1>9, <2>1, <2>2
<1>12. ASSUME NEW n \in 1..(a + b)
       PROVE  r[n] = r[n - 1] \o w[n]
  <2>1. CASE n \in 1..a
    <3>1. n \in 0..a /\ n - 1 \in 0..a
      BY <1>1, <2>1
    <3> QED
      BY <2>1, <3>1, <1>1, <1>4, <1>7
  <2>2. ASSUME NEW k \in 1..b, n = a + k
        PROVE  r[n] = r[n - 1] \o w[n]
    <3>1. k - 1 \in 0..b /\ k \in 0..b /\ a + (k - 1) = n - 1
      BY <2>2, <1>1
    <3>2. r[n - 1] = s[a] \o t[k - 1] /\ r[n] = s[a] \o t[k]
      BY <3>1, <2>2, <1>1, <1>8
    <3>3. w[n] = v[k] /\ t[k] = t[k - 1] \o v[k]
      BY <2>2, <1>1, <1>4
    <3>4. t[k - 1] \in Seq(T) /\ v[k] \in Seq(T)
      BY <3>1, <1>1, <1>4
    <3>5. \A x, y, z \in Seq(T) : (x \o y) \o z = x \o (y \o z)
      BY ConcatAssociative
    <3>6. s[a] \o (t[k - 1] \o v[k]) = (s[a] \o t[k - 1]) \o v[k]
      BY <1>6, <3>4, <3>5, Zenon
    <3> QED
      BY <3>2, <3>3, <3>6
  <2> QED
    BY <2>1, <2>2, <1>1, <1>9
<1>13. r[0] = <<>> /\ r[a + b] = s[a] \o t[b]
  <2>1. 0 \in 0..a /\ b \in 0..b
    BY <1>1
  <2> QED
    BY <1>4, <1>7, <1>8, <2>1
<1>14. IsJoin(r, w, T)
  BY <1>1, <1>10, <1>11, <1>12, <1>13 DEF IsJoin
<1>15. FlattenSeq(w) = r[a + b]
  BY <1>1, <1>14, JoinIsFlat
<1> QED
  BY <1>5, <1>6, <1>13, <1>15 DEF w
==============================================================================
