--------------------------- MODULE CountingProofs ---------------------------
(* Lemmas the other proofs share: sums of natural numbers (Counting), the     *)
(* least and the greatest of some numbers, and the sequence a set is put in.  *)
EXTENDS Counting, SequencesExt, FiniteSetTheorems, SequenceTheorems, TLAPS

(* ------------------------------------------------------------------ sums --- *)
LEMMA UnitsAre ==
    \A f, c : c \in Units(f) <=> \E x \in DOMAIN f : c \in {x} \X (1 .. f[x])
  BY DEF Units

LEMMA UnitIs ==
    ASSUME NEW f, NEW x, NEW k
    PROVE  <<x, k>> \in Units(f) <=> x \in DOMAIN f /\ k \in 1 .. f[x]
  BY UnitsAre

LEMMA ProductFinite ==
    ASSUME NEW A, NEW B, IsFiniteSet(A), IsFiniteSet(B), NEW C \in SUBSET (A \X B)
    PROVE  /\ IsFiniteSet(C) /\ Cardinality(C) \in Nat /\ Cardinality(C) <= Cardinality(A) * Cardinality(B)
  <1>1. IsFiniteSet(A \X B) /\ Cardinality(A \X B) = Cardinality(A) * Cardinality(B)
    BY FS_Product
  <1>2. IsFiniteSet(C) /\ Cardinality(C) <= Cardinality(A \X B)
    BY <1>1, FS_Subset
  <1> QED
    BY <1>1, <1>2, FS_CardinalityType

(* What no number exceeds.                                                    *)
LEMMA SumBound ==
    ASSUME NEW S, IsFiniteSet(S), NEW f \in [S -> Int], NEW k \in Nat, \A x \in S : f[x] <= k
    PROVE  IsFiniteSet(Units(f)) /\ SumOf(f) \in Nat /\ SumOf(f) <= Cardinality(S) * k
  <1>1. ASSUME NEW c \in Units(f) PROVE c \in S \X (1 .. k)
    <2>1. PICK x \in S : c \in {x} \X (1 .. f[x])
      BY UnitsAre
    <2>2. \A i \in 1 .. f[x] : i \in 1 .. k
      OBVIOUS
    <2> QED
      BY <2>1, <2>2
  <1>2. IsFiniteSet(1 .. k) /\ Cardinality(1 .. k) = k
    BY FS_Interval
  <1>3. Units(f) \in SUBSET (S \X (1 .. k))
    BY <1>1
  <1> QED
    BY <1>2, <1>3, ProductFinite DEF SumOf

LEMMA UnitsFinite ==
    ASSUME NEW S, IsFiniteSet(S), NEW f \in [S -> Int]
    PROVE  IsFiniteSet(Units(f)) /\ SumOf(f) \in Nat
  <1> DEFINE T == {{x} \X (1 .. f[x]) : x \in S}
             F == [x \in S |-> {x} \X (1 .. f[x])]
  <1>1. F \in Surjection(S, T)
    BY DEF Surjection
  <1>2. IsFiniteSet(T)
    BY <1>1, FS_Surjection
  <1>3. ASSUME NEW t \in T PROVE IsFiniteSet(t)
    <2>1. PICK x \in S : t = {x} \X (1 .. f[x])
      OBVIOUS
    <2>2. 1 \in Int /\ f[x] \in Int
      OBVIOUS
    <2>3. IsFiniteSet(1 .. f[x])
      BY <2>2, FS_Interval
    <2>4. IsFiniteSet({x})
      BY FS_Singleton
    <2> QED
      BY <2>1, <2>3, <2>4, FS_Product
  <1>4. IsFiniteSet(UNION T)
    BY <1>2, <1>3, FS_UNION
  <1>5. Units(f) = UNION T
    BY DEF Units
  <1> QED
    BY <1>4, <1>5, FS_CardinalityType DEF SumOf

LEMMA SumLess ==
    ASSUME NEW A, NEW B, IsFiniteSet(B), A \subseteq B, NEW f \in [A -> Int], NEW g \in [B -> Int],
           \A x \in A : f[x] <= g[x]
    PROVE  SumOf(f) <= SumOf(g)
  <1>1. ASSUME NEW c \in Units(f) PROVE c \in Units(g)
    <2>1. PICK x \in A : c \in {x} \X (1 .. f[x])
      BY UnitsAre
    <2>2. \A i \in 1 .. f[x] : i \in 1 .. g[x]
      OBVIOUS
    <2>3. c \in {x} \X (1 .. g[x])
      BY <2>1, <2>2
    <2> QED
      BY <2>3, UnitsAre
  <1>2. IsFiniteSet(Units(g))
    BY UnitsFinite
  <1> QED
    BY <1>1, <1>2, FS_Subset DEF SumOf

(* What counts as nothing may be left out.                                    *)
LEMMA SumSupport ==
    ASSUME NEW A, NEW B, NEW f \in [A -> Int], NEW g \in [B -> Int],
           \A x \in A : f[x] > 0 => x \in B /\ g[x] = f[x],
           \A x \in B : g[x] > 0 => x \in A /\ g[x] = f[x]
    PROVE  SumOf(f) = SumOf(g)
  <1>1. ASSUME NEW c PROVE c \in Units(f) <=> c \in Units(g)
    <2>1. ASSUME NEW x \in A, c \in {x} \X (1 .. f[x]) PROVE c \in Units(g)
      <3>1. f[x] > 0
        BY <2>1
      <3>2. x \in B /\ c \in {x} \X (1 .. g[x])
        BY <2>1, <3>1
      <3> QED
        BY <3>2, UnitsAre
    <2>2. ASSUME NEW x \in B, c \in {x} \X (1 .. g[x]) PROVE c \in Units(f)
      <3>1. g[x] > 0
        BY <2>2
      <3>2. x \in A /\ c \in {x} \X (1 .. f[x])
        BY <2>2, <3>1
      <3> QED
        BY <3>2, UnitsAre
    <2> QED
      BY <2>1, <2>2, UnitsAre
  <1>2. Units(f) = Units(g)
    BY <1>1
  <1> QED
    BY <1>2 DEF SumOf

LEMMA TwoFinite ==
    ASSUME NEW U, NEW V, IsFiniteSet(U), IsFiniteSet(V), U \cap V = {}
    PROVE  /\ IsFiniteSet(U \union V) /\ Cardinality(U) \in Nat /\ Cardinality(V) \in Nat
           /\ Cardinality(U \union V) = Cardinality(U) + Cardinality(V)
  <1> PICK u, v : u = Cardinality(U) /\ v = Cardinality(V)
    OBVIOUS
  <1>1. u \in Nat /\ v \in Nat
    BY FS_CardinalityType
  <1>2. Cardinality(U \cap V) = 0
    BY FS_EmptySet
  <1>3. Cardinality(U \union V) = u + v - 0 /\ IsFiniteSet(U \union V)
    BY <1>2, FS_Union
  <1>4. Cardinality(U \union V) = u + v
    BY <1>1, <1>3
  <1> QED
    BY <1>1, <1>3, <1>4

LEMMA SumSplit ==
    ASSUME NEW A, NEW B, IsFiniteSet(A), IsFiniteSet(B), A \cap B = {}, NEW f \in [A \union B -> Int],
           NEW a \in [A -> Int], NEW b \in [B -> Int],
           \A x \in A : a[x] = f[x], \A x \in B : b[x] = f[x]
    PROVE  SumOf(f) = SumOf(a) + SumOf(b)
  <1>1. a \in [A -> Int] /\ b \in [B -> Int]
    OBVIOUS
  <1>2. IsFiniteSet(Units(a)) /\ IsFiniteSet(Units(b))
    BY <1>1, UnitsFinite
  <1>3. Units(a) \cap Units(b) = {}
    <2>1. \A c \in Units(a) : \E x \in A : c \in {x} \X (1 .. a[x])
      BY UnitsAre
    <2>2. \A c \in Units(b) : \E x \in B : c \in {x} \X (1 .. b[x])
      BY UnitsAre
    <2> QED
      BY <2>1, <2>2
  <1>4. Units(f) = Units(a) \union Units(b)
    <2>1. \A x \in A : a[x] = f[x]
      OBVIOUS
    <2>2. \A x \in B : b[x] = f[x]
      OBVIOUS
    <2>3. ASSUME NEW c PROVE c \in Units(f) <=> c \in Units(a) \/ c \in Units(b)
      <3>1. c \in Units(f) <=> \E x \in A \union B : c \in {x} \X (1 .. f[x])
        BY UnitsAre
      <3>2. c \in Units(a) <=> \E x \in A : c \in {x} \X (1 .. a[x])
        BY UnitsAre
      <3>3. c \in Units(b) <=> \E x \in B : c \in {x} \X (1 .. b[x])
        BY UnitsAre
      <3> QED
        BY <2>1, <2>2, <3>1, <3>2, <3>3
    <2> QED
      BY <2>3
  <1> QED
    BY <1>2, <1>3, <1>4, TwoFinite DEF SumOf

LEMMA SumOne ==
    ASSUME NEW x, NEW f \in [{x} -> Nat], NEW k \in Nat, f[x] = k
    PROVE  SumOf(f) = k
  <1>1. Units(f) = {x} \X (1 .. k)
    BY UnitsAre
  <1>2. IsFiniteSet(1 .. k) /\ Cardinality(1 .. k) = k
    BY FS_Interval
  <1>3. IsFiniteSet({x}) /\ Cardinality({x}) = 1
    BY FS_Singleton
  <1>4. Cardinality({x} \X (1 .. k)) = 1 * k
    BY <1>2, <1>3, FS_Product
  <1>5. 1 * k = k
    OBVIOUS
  <1> QED
    BY <1>1, <1>4, <1>5 DEF SumOf

LEMMA SumAt ==
    ASSUME NEW S, IsFiniteSet(S), NEW f \in [S -> Int], NEW x \in S, f[x] \in Nat,
           NEW g \in [S \ {x} -> Int], \A y \in S \ {x} : g[y] = f[y]
    PROVE  SumOf(f) = f[x] + SumOf(g)
  <1>1. IsFiniteSet({x}) /\ IsFiniteSet(S \ {x}) /\ {x} \cap (S \ {x}) = {}
    BY FS_Singleton, FS_Difference
  <1>2. f \in [{x} \union (S \ {x}) -> Int]
    OBVIOUS
  <1>0. PICK o : o = [y \in {x} |-> f[y]]
    OBVIOUS
  <1>3. SumOf(f) = SumOf(o) + SumOf(g)
    <2>1. o \in [{x} -> Int] /\ \A y \in {x} : o[y] = f[y]
      BY <1>0
    <2> PICK A, B : A = {x} /\ B = S \ {x}
      OBVIOUS
    <2> QED
      BY <1>1, <1>2, <2>1, SumSplit
  <1>4. SumOf(o) = f[x]
    <2>1. o \in [{x} -> Nat] /\ o[x] = f[x]
      BY <1>0
    <2> QED
      BY <2>1, SumOne
  <1> QED
    BY <1>3, <1>4

(* The second numbers are counted on from the first ones.                     *)
LEMMA SumAdd ==
    ASSUME NEW S, IsFiniteSet(S), NEW f \in [S -> Nat], NEW g \in [S -> Nat],
           NEW h \in [S -> Nat], \A x \in S : h[x] = f[x] + g[x]
    PROVE  SumOf(h) = SumOf(f) + SumOf(g)
  <1> DEFINE F == Units(f)
             G == Units(g)
             P == [c \in G |-> <<c[1], f[c[1]] + c[2]>>]
             Q == {P[c] : c \in G}
  <1>1. f \in [S -> Int] /\ g \in [S -> Int] /\ h \in [S -> Int]
    OBVIOUS
  <1>2. IsFiniteSet(F) /\ IsFiniteSet(G)
    BY <1>1, UnitsFinite
  <1>3. \A c \in G : \E x \in S : \E k \in 1 .. g[x] : c = <<x, k>>
    BY UnitsAre
  <1>4. P \in Bijection(G, Q)
    <2>1. ASSUME NEW c \in G, NEW d \in G, P[c] = P[d] PROVE c = d
      <3>1. PICK x \in S, k \in Nat : k \in 1 .. g[x] /\ c = <<x, k>>
        BY <1>3
      <3>2. PICK y \in S, l \in Nat : l \in 1 .. g[y] /\ d = <<y, l>>
        BY <1>3
      <3>3. P[c] = <<x, f[x] + k>> /\ P[d] = <<y, f[y] + l>>
        BY <3>1, <3>2
      <3>4. x = y /\ f[x] + k = f[y] + l
        BY <2>1, <3>3
      <3> QED
        BY <3>1, <3>2, <3>4
    <2> HIDE DEF P
    <2>2. P \in [G -> Q] /\ \A q \in Q : \E c \in G : P[c] = q
      <3>1. P = [c \in G |-> P[c]]
        BY DEF P
      <3> QED
        BY <3>1
    <2> HIDE DEF Q, G
    <2> QED
      BY <2>1, <2>2 DEF Bijection, Injection, Surjection, IsInjective
  <1>5. IsFiniteSet(Q) /\ Cardinality(Q) = Cardinality(G)
    <2>1. ExistsBijection(G, Q)
      BY <1>4 DEF ExistsBijection
    <2> QED
      BY <1>2, <2>1, FS_Bijection
  <1>6. ASSUME NEW q PROVE q \in Q <=> \E x \in S : \E k \in 1 .. g[x] : q = <<x, f[x] + k>>
    <2>1. ASSUME q \in Q PROVE \E x \in S : \E k \in 1 .. g[x] : q = <<x, f[x] + k>>
      <3>1. PICK c \in G : q = P[c]
        BY <2>1
      <3>2. PICK x \in S, k \in Nat : k \in 1 .. g[x] /\ c = <<x, k>>
        BY <1>3
      <3> QED
        BY <3>1, <3>2
    <2>2. ASSUME NEW x \in S, NEW k \in Nat, k \in 1 .. g[x], q = <<x, f[x] + k>> PROVE q \in Q
      <3>1. <<x, k>> \in G
        BY <2>2, UnitIs
      <3>2. P[<<x, k>>] = q
        BY <2>2, <3>1
      <3> QED
        BY <3>1, <3>2
    <2> QED
      BY <2>1, <2>2
  <1> HIDE DEF Q, P
  <1>7. F \cap Q = {}
    <2> SUFFICES ASSUME NEW c \in F, c \in Q PROVE FALSE
      OBVIOUS
    <2>1. PICK x \in S, k \in Nat : k \in 1 .. f[x] /\ c = <<x, k>>
      BY UnitsAre
    <2>2. PICK y \in S, l \in Nat : l \in 1 .. g[y] /\ c = <<y, f[y] + l>>
      BY <1>6
    <2>3. x = y /\ k = f[y] + l
      BY <2>1, <2>2
    <2> QED
      BY <2>1, <2>2, <2>3
  <1>8. Units(h) = F \union Q
    <2>1. ASSUME NEW c \in Units(h) PROVE c \in F \union Q
      <3>1. PICK x \in S, k \in Nat : k \in 1 .. f[x] + g[x] /\ c = <<x, k>>
        BY UnitsAre
      <3>2. CASE k <= f[x]
        <4>1. k \in 1 .. f[x]
          BY <3>1, <3>2
        <4> QED
          BY <3>1, <4>1, UnitIs
      <3>3. CASE ~ (k <= f[x])
        <4>1. k - f[x] \in 1 .. g[x] /\ k = f[x] + (k - f[x])
          BY <3>1, <3>3
        <4> QED
          BY <1>6, <3>1, <4>1
      <3> QED
        BY <3>2, <3>3
    <2>2. ASSUME NEW c \in F PROVE c \in Units(h)
      <3>1. PICK x \in S, k \in Nat : k \in 1 .. f[x] /\ c = <<x, k>>
        BY UnitsAre
      <3>2. k \in 1 .. h[x] /\ x \in DOMAIN h
        BY <3>1
      <3> QED
        BY <3>1, <3>2, UnitIs
    <2>3. ASSUME NEW c \in Q PROVE c \in Units(h)
      <3>1. PICK x \in S, k \in Nat : k \in 1 .. g[x] /\ c = <<x, f[x] + k>>
        BY <1>6
      <3>2. f[x] + k \in 1 .. h[x] /\ x \in DOMAIN h
        BY <3>1
      <3> QED
        BY <3>1, <3>2, UnitIs
    <2> QED
      BY <2>1, <2>2, <2>3
  <1>9. Cardinality(F \union Q) = Cardinality(F) + Cardinality(Q)
    BY <1>2, <1>5, <1>7, TwoFinite
  <1> QED
    BY <1>5, <1>8, <1>9 DEF SumOf

(* As many as there are, of those with a one.                                 *)
LEMMA SumOnes ==
    ASSUME NEW S, IsFiniteSet(S), NEW T \in SUBSET S,
           NEW f \in [S -> Nat], \A x \in S : f[x] = IF x \in T THEN 1 ELSE 0
    PROVE  SumOf(f) = Cardinality(T)
  <1> DEFINE P == [x \in T |-> <<x, 1>>]
  <1>1. \A c : c \in Units(f) <=> \E x \in T : c = <<x, 1>>
    <2>1. ASSUME NEW c \in Units(f) PROVE \E x \in T : c = <<x, 1>>
      <3>1. PICK x \in S : c \in {x} \X (1 .. f[x])
        BY UnitsAre
      <3>2. x \in T /\ 1 .. f[x] = {1}
        BY <3>1
      <3> QED
        BY <3>1, <3>2
    <2>2. ASSUME NEW x \in T PROVE <<x, 1>> \in Units(f)
      <3>1. x \in DOMAIN f /\ 1 \in 1 .. f[x]
        OBVIOUS
      <3> QED
        BY <3>1, UnitIs
    <2> QED
      BY <2>1, <2>2
  <1>2. P \in Bijection(T, Units(f))
    <2>1. \A x, y \in T : P[x] = P[y] => x = y
      OBVIOUS
    <2>2. P \in [T -> Units(f)] /\ \A c \in Units(f) : \E x \in T : P[x] = c
      BY <1>1
    <2> HIDE DEF P
    <2> QED
      BY <2>1, <2>2 DEF Bijection, Injection, Surjection, IsInjective
  <1>3. ExistsBijection(T, Units(f)) /\ IsFiniteSet(T)
    BY <1>2, FS_Subset DEF ExistsBijection
  <1> QED
    BY <1>3, FS_Bijection DEF SumOf

(* ------------------------------------------- the least, the greatest --- *)
LEMMA LeastOf ==
    ASSUME NEW S \in SUBSET Nat, S # {}
    PROVE  \E n \in S : \A m \in S : n <= m
  <1> DEFINE R == StrictSubsetOrdering(Nat)
             B == {0 .. n : n \in S}
  <1>1. B \subseteq FiniteSubsetsOf(Nat) /\ B # {}
    <2>1. \A n \in S : 0 .. n \subseteq Nat /\ IsFiniteSet(0 .. n)
      BY FS_Interval
    <2> QED
      BY <2>1 DEF FiniteSubsetsOf
  <1>2. \A U, V \in SUBSET Nat : <<U, V>> \in R <=> U \subseteq V /\ U # V
    BY DEF StrictSubsetOrdering
  <1>3. IsWellFoundedOn(R, FiniteSubsetsOf(Nat))
    BY FS_StrictSubsetOrderingWellFounded
  <1> HIDE DEF R
  <1>4. PICK U \in B : \A V \in B : ~(<<V, U>> \in R)
    BY <1>1, <1>3, WFMin
  <1>5. PICK n \in S : U = 0 .. n
    BY <1>4
  <1>6. ASSUME NEW m \in S, m < n PROVE FALSE
    <2>1. 0 .. m \in B /\ 0 .. m \in SUBSET Nat /\ U \in SUBSET Nat
      BY <1>5
    <2>2. 0 .. m \subseteq U /\ 0 .. m # U
      BY <1>5, <1>6
    <2> QED
      BY <1>2, <1>4, <2>1, <2>2
  <1> QED
    BY <1>6

LEMMA LastOf ==
    ASSUME NEW top \in Nat, NEW S \in SUBSET (0 .. top), S # {}
    PROVE  \E n \in S : \A m \in S : m <= n
  <1> DEFINE R == {top - m : m \in S}
  <1>1. R \in SUBSET Nat
    OBVIOUS
  <1>2. R # {}
    OBVIOUS
  <1>3. PICK r \in R : \A q \in R : r <= q
    <2> HIDE DEF R
    <2> QED
      BY <1>1, <1>2, LeastOf
  <1>4. PICK n \in S : r = top - n
    BY <1>3
  <1>5. ASSUME NEW m \in S PROVE m <= n
    <2>1. top - n <= top - m /\ m \in Nat /\ n \in Nat
      BY <1>3, <1>4
    <2> QED
      BY <2>1
  <1> QED
    BY <1>5

(* ------------------------------------------------ a set as a sequence --- *)
Distinct(s) == \A i, j \in 1 .. Len(s) : s[i] = s[j] => i = j

LEMMA SeqOfSet ==
    ASSUME NEW S, IsFiniteSet(S)
    PROVE  SetToSeq(S) \in Seq(S) /\ Range(SetToSeq(S)) = S /\ Distinct(SetToSeq(S))
  <1> DEFINE n == Cardinality(S)
             f == SetToSeq(S)
  <1>1. n \in Nat /\ ExistsBijection(1 .. n, S)
    BY FS_CardinalityType
  <1>2. \E g \in [1 .. n -> S] : IsInjective(g)
    BY <1>1 DEF ExistsBijection, Bijection, Injection, IsInjective
  <1>3. f \in [1 .. n -> S] /\ IsInjective(f)
    BY <1>2 DEF SetToSeq
  <1> HIDE DEF f
  <1>4. f \in Seq(S) /\ Len(f) = n
    BY <1>1, <1>3
  <1>5. Distinct(f)
    BY <1>3, <1>4 DEF Distinct, IsInjective
  <1>6. IsFiniteSet(1 .. n) /\ Cardinality(1 .. n) = n
    BY <1>1, FS_Interval
  <1>7. f \in Injection(1 .. n, S)
    BY <1>3 DEF Injection, IsInjective
  <1>8. f \in Surjection(1 .. n, S)
    BY <1>6, <1>7, FS_Injection
  <1>9. Range(f) = S
    BY <1>3, <1>8 DEF Range, Surjection
  <1> QED
    BY <1>4, <1>5, <1>9 DEF f
=============================================================================
