-------------------------- MODULE Ordering_proofs --------------------------
(***************************************************************************)
(* Lemmas about sequences that sort a finite set, and about flattening a   *)
(* sequence of sequences: what the phases of a revision and the index of a *)
(* catalog are made of.                                                    *)
(***************************************************************************)
EXTENDS Integers, Sequences, FiniteSets, SequencesExt, FiniteSetTheorems,
        SequenceTheorems, WellFoundedInduction, TLAPS

(* A non-empty set of naturals has a least element. *)
LEMMA NatMin ==
  ASSUME NEW T \in SUBSET Nat, T # {}
  PROVE  \E x \in T : \A y \in T : x <= y
PROOF
<1> DEFINE R == OpToRel(<, Nat)
<1>1. IsWellFoundedOn(R, Nat) BY NatLessThanWellFounded
<1>2. PICK x \in T : \A y \in T : ~(<<y, x>> \in R)
  <2> HIDE DEF R
  <2> QED BY <1>1, WFMin
<1>3. \A y \in T : ~(y < x) BY <1>2 DEF OpToRel
<1> QED BY <1>3

(* T orders the elements of S strictly and totally. *)
Orders(T, S) ==
  /\ \A a \in S : <<a, a>> \notin T
  /\ \A a, b, c \in S : <<a, b>> \in T /\ <<b, c>> \in T => <<a, c>> \in T
  /\ \A a, b \in S : a = b \/ <<a, b>> \in T \/ <<b, a>> \in T

(* An enumeration of a finite set is a sequence of all of it. *)
LEMMA Enumeration ==
  ASSUME NEW S, IsFiniteSet(S), NEW f \in SetToSeqs(S)
  PROVE  /\ Cardinality(S) \in Nat
         /\ DOMAIN f = 1..Cardinality(S)
         /\ f \in Seq(S) /\ Len(f) = Cardinality(S)
         /\ \A i \in 1..Cardinality(S) : f[i] \in S
         /\ \A i, j \in 1..Cardinality(S) : f[i] = f[j] => i = j
         /\ \A x \in S : \E i \in 1..Cardinality(S) : f[i] = x
<1> DEFINE n == Cardinality(S)
           D == 1..n
<1>1. n \in Nat
  BY FS_CardinalityType
<1>2. IsFiniteSet(D) /\ Cardinality(D) = n
  BY <1>1, FS_Interval
<1>3. f \in [D -> S] /\ \A i, j \in D : i # j => f[i] # f[j]
  BY DEF SetToSeqs
<1>4. f \in Injection(D, S)
  BY <1>3 DEF Injection, IsInjective
<1>5. f \in Bijection(D, S)
  BY <1>2, <1>4, FS_Injection, FS_Surjection DEF Bijection
<1>6. QED
  BY <1>1, <1>3, <1>5 DEF Bijection, Surjection

(* There is an enumeration in the order: every element stands behind as many
   places as there are elements before it. *)
LEMMA SortExists ==
  ASSUME NEW S, IsFiniteSet(S), NEW T, Orders(T, S)
  PROVE  \E f \in SetToSeqs(S) :
           \A i, j \in DOMAIN f : i < j => <<f[i], f[j]>> \in T
<1> DEFINE n == Cardinality(S)
           D == 1..n
           below(x) == {y \in S : <<y, x>> \in T}
           pos == [x \in S |-> Cardinality(below(x)) + 1]
<1>1. n \in Nat /\ IsFiniteSet(D) /\ Cardinality(D) = n
  BY FS_CardinalityType, FS_Interval
<1>2. ASSUME NEW x \in S
      PROVE  /\ IsFiniteSet(below(x)) /\ Cardinality(below(x)) \in Nat
             /\ Cardinality(below(x)) < n
  <2>1. below(x) \subseteq S /\ below(x) # S
    BY DEF Orders
  <2>2. IsFiniteSet(below(x)) /\ Cardinality(below(x)) <= n /\ Cardinality(below(x)) # n
    BY <2>1, FS_Subset
  <2>3. QED
    BY <2>2, <1>1, FS_CardinalityType
<1>3. /\ pos \in [S -> D]
      /\ \A x \in S : pos[x] = Cardinality(below(x)) + 1
  <2> HIDE DEF below, n
  <2>1. QED
    BY <1>1, <1>2
<1>4. ASSUME NEW x \in S, NEW y \in S, <<x, y>> \in T
      PROVE  pos[x] < pos[y]
  <2>1. below(x) \subseteq below(y) /\ x \in below(y) /\ x \notin below(x)
    BY <1>4 DEF Orders
  <2>2. Cardinality(below(x)) <= Cardinality(below(y)) /\ Cardinality(below(x)) # Cardinality(below(y))
    BY <2>1, <1>2, FS_Subset
  <2> HIDE DEF below, pos
  <2>3. QED
    BY <2>2, <1>2, <1>3
<1> HIDE DEF pos
<1>5. ASSUME NEW x \in S, NEW y \in S, pos[x] = pos[y] PROVE x = y
  <2>1. pos[x] \in Nat /\ pos[y] \in Nat
    BY <1>3, <1>1
  <2>2. <<x, y>> \notin T /\ <<y, x>> \notin T
    BY <1>4, <1>5, <2>1
  <2>3. QED
    BY <2>2 DEF Orders
<1>6. pos \in Injection(S, D)
  BY <1>3, <1>5 DEF Injection, IsInjective
<1>7. \A i \in D : \E x \in S : pos[x] = i
  <2> HIDE DEF D
  <2>1. pos \in Surjection(S, D)
    BY <1>1, <1>6, FS_Injection
  <2>2. QED
    BY <2>1 DEF Surjection
<1> DEFINE f == [i \in D |-> CHOOSE x \in S : pos[x] = i]
<1>8. \A i \in D : f[i] \in S /\ pos[f[i]] = i
  BY <1>7
<1>9. f \in SetToSeqs(S)
  BY <1>8 DEF SetToSeqs
<1>10. ASSUME NEW i \in DOMAIN f, NEW j \in DOMAIN f, i < j
       PROVE  <<f[i], f[j]>> \in T
  <2>1. i \in D /\ j \in D /\ i \in Int /\ j \in Int
    BY <1>1
  <2>2. f[i] \in S /\ f[j] \in S /\ pos[f[i]] = i /\ pos[f[j]] = j
    BY <2>1, <1>8
  <2> HIDE DEF f, D
  <2>3. <<f[j], f[i]>> \notin T /\ f[i] # f[j]
    BY <2>1, <2>2, <1>4, <1>10
  <2>4. QED
    BY <2>2, <2>3 DEF Orders
<1>11. QED
  BY <1>9, <1>10

(* Two enumerations that are sorted by a strict weak order agree, place by
   place, up to what the order does not tell apart. *)
LEMMA SortAgrees ==
  ASSUME NEW S, IsFiniteSet(S), NEW f \in SetToSeqs(S), NEW h \in SetToSeqs(S), NEW B,
         \A a \in S : <<a, a>> \notin B,
         \A a, b, c \in S : <<a, b>> \in B => <<a, c>> \in B \/ <<c, b>> \in B,
         \A i, j \in DOMAIN f : i < j => <<f[j], f[i]>> \notin B,
         \A i, j \in DOMAIN h : i < j => <<h[j], h[i]>> \notin B,
         NEW i \in 1..Cardinality(S)
  PROVE  <<f[i], h[i]>> \notin B
<1>1. SUFFICES ASSUME <<f[i], h[i]>> \in B
               PROVE  FALSE
  OBVIOUS
<1> DEFINE n == Cardinality(S)
           D == 1..n
<1>2. /\ n \in Nat /\ DOMAIN f = D /\ DOMAIN h = D
      /\ \A k \in D : f[k] \in S /\ h[k] \in S
      /\ \A k, l \in D : f[k] = f[l] => k = l
      /\ \A x \in S : \E k \in D : h[k] = x
  BY Enumeration
<1>3. i \in Nat /\ i >= 1 /\ i \in D /\ 1..i \subseteq D
  BY <1>2
<1> DEFINE g == [k \in 1..i |-> CHOOSE l \in D : h[l] = f[k]]
<1>4. \A k \in 1..i : g[k] \in D /\ h[g[k]] = f[k]
  BY <1>2, <1>3
<1> HIDE DEF g
<1>5. ASSUME NEW k \in 1..i
      PROVE  g[k] < i
  <2>0. k \in D /\ k \in Int /\ k <= i /\ f[i] \in S
    BY <1>2, <1>3
  <2>1. <<f[i], f[k]>> \notin B
    <3>1. CASE k = i
      BY <3>1, <2>0
    <3>2. CASE k < i
      BY <3>2, <2>0, <1>2, <1>3
    <3>3. QED
      BY <3>1, <3>2, <2>0, <1>3
  <2>2. <<f[k], h[i]>> \in B
    BY <2>1, <1>1, <1>2, <1>3
  <2>3. g[k] # i
    BY <2>2, <1>4, <1>2, <1>3
  <2>4. ~(i < g[k])
    BY <2>2, <1>4, <1>2, <1>3
  <2>5. QED
    BY <2>3, <2>4, <1>4, <1>3
<1>6. g \in [1..i -> 1..(i - 1)]
  BY <1>3, <1>4, <1>5 DEF g
<1>7. \E k, l \in 1..i : k # l /\ g[k] = g[l]
  <2>1. /\ IsFiniteSet(1..i) /\ Cardinality(1..i) = i
        /\ IsFiniteSet(1..(i - 1)) /\ Cardinality(1..(i - 1)) = i - 1
    BY <1>3, FS_Interval
  <2> DEFINE I == 1..i
             J == 1..(i - 1)
  <2>2. IsFiniteSet(I) /\ IsFiniteSet(J) /\ Cardinality(J) < Cardinality(I) /\ g \in [I -> J]
    BY <2>1, <1>3, <1>6
  <2> HIDE DEF I, J
  <2>3. \E k, l \in I : k # l /\ g[k] = g[l]
    BY <2>2, FS_PigeonHole
  <2>4. QED
    BY <2>3 DEF I
<1>8. PICK k \in 1..i, l \in 1..i : k # l /\ g[k] = g[l]
  BY <1>7
<1>9. f[k] = f[l] /\ k \in D /\ l \in D
  BY <1>8, <1>4, <1>3
<1>10. QED
  BY <1>8, <1>9, <1>2

(* The recursive function of FlattenSeq exists: tables of its values do. *)
FlattenTable(t, ss, n) == t = [i \in 1..n |-> IF i = 1 THEN ss[i] ELSE t[i - 1] \o ss[i]]

LEMMA FlattenValues ==
  ASSUME NEW t, NEW ss, NEW n \in Nat, FlattenTable(t, ss, n)
  PROVE  \A i \in 1..n : t[i] = IF i = 1 THEN ss[i] ELSE t[i - 1] \o ss[i]
<1> DEFINE F(i) == IF i = 1 THEN ss[i] ELSE t[i - 1] \o ss[i]
<1>1. t = [i \in 1..n |-> F(i)]
  BY DEF FlattenTable
<1> HIDE DEF F
<1>2. \A i \in 1..n : t[i] = F(i)
  BY <1>1
<1>3. QED
  BY <1>2 DEF F

LEMMA FlattenTables ==
  ASSUME NEW ss
  PROVE  \A n \in Nat : \E t : FlattenTable(t, ss, n)
<1> DEFINE Bad == {n \in Nat : ~\E t : FlattenTable(t, ss, n)}
<1>1. SUFFICES ASSUME Bad # {} PROVE FALSE
  OBVIOUS
<1>2. PICK m \in Bad : \A n \in Bad : m <= n
  <2>1. Bad \in SUBSET Nat
    OBVIOUS
  <2> HIDE DEF Bad
  <2>2. QED
    BY <1>1, <2>1, NatMin
<1>3. m \in Nat
  OBVIOUS
<1>4. CASE m = 0
  <2> DEFINE t == [i \in 1..0 |-> ss]
  <2>1. FlattenTable(t, ss, 0)
    BY DEF FlattenTable
  <2>2. QED
    BY <1>4, <2>1
<1>5. CASE m # 0
  <2>1. m - 1 \in Nat /\ m - 1 \notin Bad
    <3> HIDE DEF Bad
    <3>1. QED
      BY <1>2, <1>3, <1>5
  <2>2. PICK t : FlattenTable(t, ss, m - 1)
    BY <2>1
  <2> DEFINE u == [i \in 1..m |-> IF i < m THEN t[i] ELSE IF i = 1 THEN ss[i] ELSE t[i - 1] \o ss[i]]
             v == [i \in 1..m |-> IF i = 1 THEN ss[i] ELSE u[i - 1] \o ss[i]]
  <2>3. \A i \in 1..(m - 1) : t[i] = IF i = 1 THEN ss[i] ELSE t[i - 1] \o ss[i]
    BY <2>1, <2>2, FlattenValues
  <2>4. ASSUME NEW i \in 1..m PROVE u[i] = v[i]
    <3>1. CASE i = 1
      <4>1. v[i] = ss[i]
        BY <3>1
      <4>2. u[i] = ss[i]
        <5>1. CASE i < m
          BY <5>1, <3>1, <2>3, <1>3
        <5>2. CASE ~(i < m)
          BY <5>2, <3>1
        <5>3. QED
          BY <5>1, <5>2
      <4>3. QED
        BY <4>1, <4>2
    <3>2. CASE i # 1
      <4>1. i - 1 \in 1..m /\ i - 1 < m
        BY <3>2, <1>3
      <4>2. u[i - 1] = t[i - 1]
        BY <4>1
      <4>3. u[i] = t[i - 1] \o ss[i]
        <5>1. CASE i < m
          <6>1. u[i] = t[i] /\ i \in 1..(m - 1)
            BY <5>1, <1>3
          <6>2. QED
            BY <6>1, <3>2, <2>3
        <5>2. CASE ~(i < m)
          BY <5>2, <3>2
        <5>3. QED
          BY <5>1, <5>2
      <4>4. v[i] = u[i - 1] \o ss[i]
        BY <3>2
      <4>5. QED
        BY <4>2, <4>3, <4>4
    <3>3. QED
      BY <3>1, <3>2
  <2>5. u = v
    <3>1. DOMAIN u = 1..m /\ DOMAIN v = 1..m /\ u = [i \in 1..m |-> u[i]] /\ v = [i \in 1..m |-> v[i]]
      OBVIOUS
    <3> HIDE DEF u, v
    <3>2. QED
      BY <3>1, <2>4
  <2>6. FlattenTable(u, ss, m)
    BY <2>5 DEF FlattenTable
  <2> HIDE DEF u
  <2>7. QED
    BY <2>6
<1>6. QED
  BY <1>4, <1>5

LEMMA FlattenIs ==
  ASSUME NEW ss, Len(ss) \in Nat \ {0}
  PROVE  \E t : FlattenTable(t, ss, Len(ss)) /\ FlattenSeq(ss) = t[Len(ss)]
<1> DEFINE f == CHOOSE t : FlattenTable(t, ss, Len(ss))
<1>1. FlattenTable(f, ss, Len(ss))
  <2>1. \E t : FlattenTable(t, ss, Len(ss))
    BY FlattenTables
  <2>2. QED
    BY <2>1
<1>2. Len(ss) # 0
  OBVIOUS
<1>3. FlattenSeq(ss) = f[Len(ss)]
  BY <1>2, Zenon DEF FlattenSeq, FlattenTable
<1>4. QED
  BY <1>1, <1>3
=============================================================================
