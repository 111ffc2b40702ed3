---------------------------- MODULE SumTheorems ----------------------------
(* Facts about Sum, for finite index sets and natural terms, and the forms *)
(* of induction over the naturals that the other proofs use.               *)
EXTENDS Sums, FiniteSetTheorems, WellFoundedInduction, TLAPS

\* A nonempty set of naturals has a least element.
LEMMA LeastNatural ==
  ASSUME NEW S \in SUBSET Nat, S # {}
  PROVE  \E n \in S : \A m \in S : n <= m
<1>1. PICK x \in S : \A y \in S : ~(<<y, x>> \in OpToRel(<, Nat))
  BY NatLessThanWellFounded, WFMin, ZenonT(30)
<1>2. \A y \in S : ~(y < x)
  BY <1>1, ZenonT(30) DEF OpToRel
<1> QED BY <1>2

\* Induction: a set of naturals that holds 0 and every successor is Nat.
LEMMA InductiveSet ==
  ASSUME NEW S \in SUBSET Nat, 0 \in S, \A n \in S : n + 1 \in S
  PROVE  S = Nat
<1> SUFFICES ASSUME Nat \ S # {} PROVE FALSE
  BY ZenonT(30)
<1>1. PICK n \in Nat \ S : \A m \in Nat \ S : n <= m
  BY LeastNatural, ZenonT(30)
<1>2. n # 0 /\ n - 1 \in Nat /\ n - 1 \in S
  BY <1>1
<1> QED BY <1>2

\* The units of a finite family of naturals form a finite set, so a sum is a natural.
LEMMA SumType ==
  ASSUME NEW S, IsFiniteSet(S), NEW f, \A x \in S : f[x] \in Nat
  PROVE  IsFiniteSet(Units(f, S)) /\ Sum(f, S) \in Nat
<1> DEFINE blocks == {{x} \X (1..f[x]) : x \in S}
           g == [x \in S |-> {x} \X (1..f[x])]
<1>1. g \in Surjection(S, blocks)
  BY ZenonT(30) DEF Surjection
<1>2. IsFiniteSet(blocks)
  BY <1>1, FS_Surjection
<1>3. ASSUME NEW T \in blocks PROVE IsFiniteSet(T)
  <2>1. PICK x \in S : T = {x} \X (1..f[x])
    OBVIOUS
  <2>2. IsFiniteSet({x}) /\ IsFiniteSet(1..f[x])
    <3>1. f[x] \in Int /\ 1 \in Int
      OBVIOUS
    <3>2. IsFiniteSet(1..f[x])
      BY <3>1, FS_Interval
    <3> QED BY <3>2, FS_Singleton, ZenonT(30)
  <2> QED BY <2>1, <2>2, FS_Product
<1>4. IsFiniteSet(UNION blocks)
  <2> HIDE DEF blocks
  <2> QED BY <1>2, <1>3, FS_UNION
<1> QED BY <1>4, FS_CardinalityType DEF Units, Sum

\* Nothing adds up to zero.
LEMMA SumEmpty == \A f : Sum(f, {}) = 0
BY FS_EmptySet DEF Sum, Units

\* Terms that agree have the same sum.
LEMMA SumCongruence ==
  ASSUME NEW S, NEW f, NEW g, \A x \in S : f[x] = g[x]
  PROVE  Sum(f, S) = Sum(g, S)
<1>1. \A x \in S : {x} \X (1..f[x]) = {x} \X (1..g[x])
  OBVIOUS
<1>2. {{x} \X (1..f[x]) : x \in S} = {{x} \X (1..g[x]) : x \in S}
  BY <1>1
<1> QED BY <1>2, ZenonT(30) DEF Sum, Units

\* A single term is its own sum.
LEMMA SumSingleton ==
  ASSUME NEW f, NEW x, f[x] \in Nat
  PROVE  Sum(f, {x}) = f[x]
<1>1. Units(f, {x}) = {x} \X (1..f[x])
  BY DEF Units
<1>2. IsFiniteSet({x}) /\ Cardinality({x}) = 1
  BY FS_Singleton, ZenonT(30)
<1>3. IsFiniteSet(1..f[x]) /\ Cardinality(1..f[x]) = f[x]
  <2>1. f[x] \in Int /\ 1 \in Int
    OBVIOUS
  <2>2. IsFiniteSet(1..f[x]) /\ Cardinality(1..f[x]) = IF 1 > f[x] THEN 0 ELSE f[x] - 1 + 1
    BY <2>1, FS_Interval, Zenon
  <2>3. (IF 1 > f[x] THEN 0 ELSE f[x] - 1 + 1) = f[x]
    OBVIOUS
  <2> QED BY <2>2, <2>3
<1>4. Cardinality({x} \X (1..f[x])) = Cardinality({x}) * Cardinality(1..f[x])
  BY <1>2, <1>3, FS_Product, Zenon
<1>5. Sum(f, {x}) = 1 * f[x]
  BY <1>1, <1>2, <1>3, <1>4, Zenon DEF Sum
<1> QED BY <1>5

\* Disjoint finite sets: their sizes add up.
LEMMA CardinalityDisjoint ==
  ASSUME NEW A, NEW B, IsFiniteSet(A), IsFiniteSet(B), A \cap B = {}
  PROVE  Cardinality(A \cup B) = Cardinality(A) + Cardinality(B)
<1>1. Cardinality(A \cup B) = Cardinality(A) + Cardinality(B) - Cardinality(A \cap B)
  BY FS_Union
<1>2. Cardinality(A \cap B) = 0
  BY FS_EmptySet, Zenon
<1>3. Cardinality(A) \in Nat /\ Cardinality(B) \in Nat
  BY FS_CardinalityType
<1> QED BY <1>1, <1>2, <1>3

\* Sums over disjoint sets add up.
LEMMA SumDisjoint ==
  ASSUME NEW S, NEW T, IsFiniteSet(S), IsFiniteSet(T), S \cap T = {},
         NEW f, \A x \in S \cup T : f[x] \in Nat
  PROVE  Sum(f, S \cup T) = Sum(f, S) + Sum(f, T)
<1>1. Units(f, S \cup T) = Units(f, S) \cup Units(f, T)
  BY DEF Units
<1>2. Units(f, S) \cap Units(f, T) = {}
  BY DEF Units
<1>3. IsFiniteSet(Units(f, S)) /\ IsFiniteSet(Units(f, T))
  BY SumType
<1> QED BY <1>1, <1>2, <1>3, CardinalityDisjoint, ZenonT(30) DEF Sum

\* Taking one term out of a sum.
LEMMA SumSplit ==
  ASSUME NEW S, IsFiniteSet(S), NEW x \in S, NEW f, \A y \in S : f[y] \in Nat
  PROVE  /\ Sum(f, S) = f[x] + Sum(f, S \ {x})
         /\ Sum(f, S \ {x}) \in Nat
<1>1. IsFiniteSet(S \ {x}) /\ IsFiniteSet({x})
  BY FS_Difference, FS_Singleton, ZenonT(30)
<1>2. Sum(f, {x} \cup (S \ {x})) = Sum(f, {x}) + Sum(f, S \ {x})
  BY <1>1, SumDisjoint
<1>3. {x} \cup (S \ {x}) = S
  OBVIOUS
<1>4. Sum(f, {x}) = f[x]
  BY SumSingleton, ZenonT(30)
<1>5. Sum(f, S \ {x}) \in Nat
  BY <1>1, SumType
<1> QED BY <1>2, <1>3, <1>4, <1>5, ZenonT(30)

\* Changing one term changes the sum by the same difference.
LEMMA SumUpdate ==
  ASSUME NEW S, IsFiniteSet(S), NEW x \in S,
         NEW f, \A y \in S : f[y] \in Nat, NEW g, \A y \in S : g[y] \in Nat,
         \A y \in S \ {x} : g[y] = f[y]
  PROVE  Sum(g, S) = Sum(f, S) - f[x] + g[x]
<1>1. Sum(f, S) = f[x] + Sum(f, S \ {x}) /\ Sum(f, S \ {x}) \in Nat
  BY SumSplit
<1>2. Sum(g, S) = g[x] + Sum(g, S \ {x}) /\ Sum(g, S \ {x}) \in Nat
  BY SumSplit
<1>3. Sum(g, S \ {x}) = Sum(f, S \ {x})
  BY SumCongruence
<1> QED BY <1>1, <1>2, <1>3

\* A term is never larger than the sum.
LEMMA SumBound ==
  ASSUME NEW S, IsFiniteSet(S), NEW x \in S, NEW f, \A y \in S : f[y] \in Nat
  PROVE  f[x] <= Sum(f, S)
<1>1. Sum(f, S) = f[x] + Sum(f, S \ {x}) /\ Sum(f, S \ {x}) \in Nat
  BY SumSplit
<1> QED BY <1>1

\* A finite nonempty set of naturals has a greatest element.
LEMMA GreatestNatural ==
  ASSUME NEW S \in SUBSET Nat, IsFiniteSet(S), S # {}
  PROVE  \E m \in S : \A n \in S : n <= m
<1> DEFINE f == [x \in S |-> x]
           upper == {u \in Nat : \A x \in S : x <= u}
<1>1. Sum(f, S) \in upper
  <2>1. \A x \in S : f[x] \in Nat
    OBVIOUS
  <2>2. Sum(f, S) \in Nat
    BY <2>1, SumType, ZenonT(30)
  <2>3. \A x \in S : f[x] <= Sum(f, S)
    BY <2>1, SumBound, ZenonT(30)
  <2> QED BY <2>2, <2>3
<1>2. PICK u \in upper : \A v \in upper : u <= v
  BY <1>1, LeastNatural, ZenonT(30)
<1>3. u \in S
  <2> SUFFICES ASSUME u \notin S PROVE FALSE
    OBVIOUS
  <2>1. \A x \in S : x <= u - 1 /\ u - 1 \in Nat
    OBVIOUS
  <2>2. u - 1 \in upper
    BY <2>1, ZenonT(30)
  <2> QED BY <1>2, <2>2
<1> QED BY <1>3
\* Induction over a finite set: a family of its subsets that has the empty set, and
\* with a subset also what adding one element makes of it, has the set itself.
LEMMA SubsetInduction ==
  ASSUME NEW S, IsFiniteSet(S), NEW G \in SUBSET SUBSET S, {} \in G,
         \A T \in G : \A x \in S \ T : T \cup {x} \in G
  PROVE  S \in G
<1> DEFINE N == {n \in Nat : \A T \in SUBSET S : Cardinality(T) = n => T \in G}
<1>1. 0 \in N
  <2> SUFFICES ASSUME NEW T \in SUBSET S, Cardinality(T) = 0 PROVE T \in G
    OBVIOUS
  <2>1. IsFiniteSet(T)
    BY FS_Subset
  <2>2. T = {}
    BY <2>1, FS_EmptySet
  <2> QED BY <2>2
<1>2. ASSUME NEW n \in N PROVE n + 1 \in N
  <2> SUFFICES ASSUME NEW T \in SUBSET S, Cardinality(T) = n + 1 PROVE T \in G
    OBVIOUS
  <2>1. IsFiniteSet(T)
    BY FS_Subset
  <2>2. PICK x \in T : TRUE
    <3>1. Cardinality(T) # 0
      OBVIOUS
    <3> QED BY <2>1, <3>1, FS_EmptySet
  <2>3. Cardinality(T \ {x}) = n
    <3>1. Cardinality(T \ {x}) = Cardinality(T) - 1
      BY <2>1, <2>2, FS_RemoveElement, ZenonT(30)
    <3> QED BY <3>1
  <2>4. T \ {x} \in G
    BY <1>2, <2>3
  <2>5. (T \ {x}) \cup {x} \in G
    BY <2>2, <2>4, ZenonT(30)
  <2>6. (T \ {x}) \cup {x} = T
    BY <2>2
  <2> QED BY <2>5, <2>6
<1> HIDE DEF N
<1>3. N = Nat
  <2>1. N \in SUBSET Nat
    BY DEF N
  <2> QED BY <1>1, <1>2, <2>1, InductiveSet
<1>4. Cardinality(S) \in N
  BY <1>3, FS_CardinalityType
<1> QED BY <1>4 DEF N

\* Terms that are zero add up to zero.
LEMMA SumZero ==
  ASSUME NEW S, NEW f, \A x \in S : f[x] = 0
  PROVE  Sum(f, S) = 0
<1>1. Units(f, S) = {}
  BY DEF Units
<1> QED BY <1>1, FS_EmptySet DEF Sum

\* Terms that are zero may be left out.
LEMMA SumSupport ==
  ASSUME NEW S, IsFiniteSet(S), NEW T \in SUBSET S, NEW f, \A x \in S : f[x] \in Nat,
         \A x \in S \ T : f[x] = 0
  PROVE  Sum(f, S) = Sum(f, T)
<1>1. IsFiniteSet(T) /\ IsFiniteSet(S \ T)
  BY FS_Subset, FS_Difference
<1>2. Sum(f, T \cup (S \ T)) = Sum(f, T) + Sum(f, S \ T)
  BY <1>1, SumDisjoint
<1>3. T \cup (S \ T) = S
  OBVIOUS
<1>4. Sum(f, S \ T) = 0
  BY SumZero
<1>5. Sum(f, T) \in Nat
  BY <1>1, SumType
<1>6. Sum(f, S) = Sum(f, T) + 0
  BY <1>2, <1>3, <1>4, Zenon
<1> QED BY <1>5, <1>6

\* Adding one index to a sum.
LEMMA SumExtend ==
  ASSUME NEW S, IsFiniteSet(S), NEW x, x \notin S, NEW f, \A y \in S \cup {x} : f[y] \in Nat
  PROVE  Sum(f, S \cup {x}) = Sum(f, S) + f[x] /\ Sum(f, S) \in Nat
<1>1. IsFiniteSet({x})
  BY FS_Singleton
<1>2. Sum(f, S \cup {x}) = Sum(f, S) + Sum(f, {x})
  BY <1>1, SumDisjoint
<1>3. Sum(f, {x}) = f[x]
  BY SumSingleton, ZenonT(30)
<1> QED BY <1>2, <1>3, SumType

\* The sum of sums, term by term.
LEMMA SumAdd ==
  ASSUME NEW S, IsFiniteSet(S),
         NEW f, \A x \in S : f[x] \in Nat, NEW g, \A x \in S : g[x] \in Nat,
         NEW h, \A x \in S : h[x] = f[x] + g[x]
  PROVE  Sum(h, S) = Sum(f, S) + Sum(g, S)
<1> DEFINE G == {T \in SUBSET S : Sum(h, T) = Sum(f, T) + Sum(g, T)}
<1>1. {} \in G
  BY SumEmpty
<1>2. ASSUME NEW T \in G, NEW x \in S \ T PROVE T \cup {x} \in G
  <2>1. IsFiniteSet(T)
    BY FS_Subset
  <2>2. \A y \in T \cup {x} : f[y] \in Nat /\ g[y] \in Nat /\ h[y] \in Nat
    OBVIOUS
  <2>3. Sum(f, T \cup {x}) = Sum(f, T) + f[x] /\ Sum(f, T) \in Nat
    BY <2>1, <2>2, SumExtend, ZenonT(30)
  <2>4. Sum(g, T \cup {x}) = Sum(g, T) + g[x] /\ Sum(g, T) \in Nat
    BY <2>1, <2>2, SumExtend, ZenonT(30)
  <2>5. Sum(h, T \cup {x}) = Sum(h, T) + h[x] /\ Sum(h, T) \in Nat
    BY <2>1, <2>2, SumExtend, ZenonT(30)
  <2>6. Sum(h, T) = Sum(f, T) + Sum(g, T)
    OBVIOUS
  <2>7. Sum(h, T \cup {x}) = Sum(f, T \cup {x}) + Sum(g, T \cup {x})
    BY <2>2, <2>3, <2>4, <2>5, <2>6
  <2> QED BY <2>7
<1> HIDE DEF G
<1>3. S \in G
  <2>1. G \in SUBSET SUBSET S
    BY DEF G
  <2> QED BY <1>1, <1>2, <2>1, SubsetInduction, ZenonT(30)
<1> QED BY <1>3 DEF G

\* Renaming the indices one by one.
LEMMA SumReindex ==
  ASSUME NEW S, IsFiniteSet(S), NEW f, \A x \in S : f[x] \in Nat,
         NEW b, \A x, y \in S : b[x] = b[y] => x = y,
         NEW g, \A x \in S : g[b[x]] = f[x]
  PROVE  Sum(f, S) = Sum(g, {b[x] : x \in S})
<1> DEFINE im(T) == {b[x] : x \in T}
           G == {T \in SUBSET S : Sum(f, T) = Sum(g, im(T))}
<1>1. {} \in G
  <2>1. im({}) = {}
    OBVIOUS
  <2> QED BY <2>1, SumEmpty
<1>2. ASSUME NEW T \in G, NEW x \in S \ T PROVE T \cup {x} \in G
  <2>1. IsFiniteSet(T)
    BY FS_Subset
  <2>2. im(T \cup {x}) = im(T) \cup {b[x]} /\ b[x] \notin im(T)
    OBVIOUS
  <2>3. IsFiniteSet(im(T))
    <3> DEFINE r == [y \in T |-> b[y]]
    <3>1. r \in Surjection(T, im(T))
      BY DEF Surjection
    <3> QED BY <2>1, <3>1, FS_Surjection
  <2>4. \A y \in im(T) \cup {b[x]} : g[y] \in Nat
    OBVIOUS
  <2>5. Sum(f, T \cup {x}) = Sum(f, T) + f[x] /\ Sum(f, T) \in Nat
    BY <2>1, SumExtend, ZenonT(30)
  <2>6. Sum(g, im(T) \cup {b[x]}) = Sum(g, im(T)) + g[b[x]]
    <3> DEFINE I == im(T)
               z == b[x]
    <3>1. z \notin I /\ IsFiniteSet(I) /\ \A y \in I \cup {z} : g[y] \in Nat
      BY <2>2, <2>3, <2>4
    <3> HIDE DEF I, z
    <3>2. Sum(g, I \cup {z}) = Sum(g, I) + g[z]
      BY <3>1, SumExtend, ZenonT(60)
    <3> QED BY <3>2 DEF I, z
  <2> HIDE DEF im
  <2>7. Sum(f, T \cup {x}) = Sum(g, im(T \cup {x}))
    BY <2>2, <2>5, <2>6
  <2> QED BY <2>7
<1> HIDE DEF G
<1>3. S \in G
  <2>1. G \in SUBSET SUBSET S
    BY DEF G
  <2> QED BY <1>1, <1>2, <2>1, SubsetInduction, ZenonT(30)
<1> QED BY <1>3 DEF G

\* A sum may be taken class by class: p gives every index its class.
LEMMA SumPartition ==
  ASSUME NEW V, IsFiniteSet(V), NEW f, \A x \in V : f[x] \in Nat,
         NEW C, IsFiniteSet(C), NEW p \in [V -> C],
         NEW part, \A c \in C : part[c] = Sum(f, {x \in V : p[x] = c})
  PROVE  Sum(f, V) = Sum(part, C)
<1> DEFINE over(T) == {x \in V : p[x] \in T}
           G == {T \in SUBSET C : Sum(f, over(T)) = Sum(part, T)}
<1>1. {} \in G
  <2>1. over({}) = {}
    OBVIOUS
  <2> QED BY <2>1, SumEmpty
<1>2. ASSUME NEW T \in G, NEW c \in C \ T PROVE T \cup {c} \in G
  <2> DEFINE class == {x \in V : p[x] = c}
  <2>1. over(T \cup {c}) = over(T) \cup class /\ over(T) \cap class = {}
    OBVIOUS
  <2>2. IsFiniteSet(over(T)) /\ IsFiniteSet(class) /\ IsFiniteSet(T)
    BY FS_Subset
  <2>3. \A x \in over(T) \cup class : f[x] \in Nat
    OBVIOUS
  <2>4. part[c] = Sum(f, class)
    OBVIOUS
  <2>5. \A d \in C : part[d] \in Nat
    <3> SUFFICES ASSUME NEW d \in C PROVE part[d] \in Nat
      OBVIOUS
    <3> DEFINE D == {x \in V : p[x] = d}
    <3>1. IsFiniteSet(D) /\ \A x \in D : f[x] \in Nat
      BY FS_Subset
    <3> HIDE DEF D
    <3>2. Sum(f, D) \in Nat
      BY <3>1, SumType
    <3> QED BY <3>2 DEF D
  <2>6. Sum(f, over(T)) = Sum(part, T)
    OBVIOUS
  <2> HIDE DEF over, class
  <2>7. Sum(f, over(T) \cup class) = Sum(f, over(T)) + Sum(f, class)
    BY <2>1, <2>2, <2>3, SumDisjoint
  <2>8. Sum(part, T \cup {c}) = Sum(part, T) + part[c]
    BY <2>2, <2>5, SumExtend, ZenonT(60)
  <2>9. Sum(f, over(T \cup {c})) = Sum(part, T \cup {c})
    BY <2>1, <2>4, <2>6, <2>7, <2>8, ZenonT(30)
  <2> QED BY <2>9
<1> HIDE DEF G
<1>3. C \in G
  <2>1. G \in SUBSET SUBSET C
    BY DEF G
  <2> QED BY <1>1, <1>2, <2>1, SubsetInduction, ZenonT(30)
<1>4. Sum(f, over(C)) = Sum(part, C)
  BY <1>3 DEF G
<1>5. over(C) = V
  OBVIOUS
<1> QED BY <1>4, <1>5
\* Equal terms: their number times the term.
LEMMA SumConstant ==
  ASSUME NEW S, IsFiniteSet(S), NEW c \in Nat, NEW f, \A x \in S : f[x] = c
  PROVE  Sum(f, S) = Cardinality(S) * c
<1> DEFINE G == {T \in SUBSET S : Sum(f, T) = Cardinality(T) * c}
<1>1. {} \in G
  BY SumEmpty, FS_EmptySet
<1>2. ASSUME NEW T \in G, NEW x \in S \ T PROVE T \cup {x} \in G
  <2>1. T \in SUBSET S /\ Sum(f, T) = Cardinality(T) * c /\ IsFiniteSet(T)
    BY FS_Subset
  <2>2. Cardinality(T) \in Nat /\ Cardinality(T \cup {x}) = Cardinality(T) + 1
    BY <2>1, FS_AddElement, FS_CardinalityType
  <2>3. Sum(f, T \cup {x}) = Sum(f, T) + f[x]
    BY <2>1, SumExtend
  <2>4. (Cardinality(T) + 1) * c = Cardinality(T) * c + c
    BY <2>2
  <2> QED BY <2>1, <2>2, <2>3, <2>4
<1> HIDE DEF G
<1>3. S \in G
  <2>1. G \in SUBSET SUBSET S
    BY DEF G
  <2> QED BY <1>1, <1>2, <2>1, SubsetInduction, ZenonT(30)
<1> QED BY <1>3 DEF G
=============================================================================
