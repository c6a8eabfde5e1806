------------------------ MODULE PolicyEngine_proofs ------------------------
(***************************************************************************)
(* Lemmas about the operators of PolicyEngine: what sorted(S)[:n] keeps,   *)
(* what sums over rows are, what the evidence holds and what classify      *)
(* returns, and the inductions they need.  No variables.                   *)
(***************************************************************************)
EXTENDS PolicyEngine, FiniteSetTheorems, WellFoundedInduction, TLAPS

\* A nonempty set of natural numbers has a least member.
LEMMA LeastNat ==
    ASSUME NEW S, S \subseteq Nat, S # {}
    PROVE  \E m \in S : \A k \in S : m <= k
<1>1. \E m \in S : \A k \in S : ~(<<k, m>> \in OpToRel(<, Nat))
  BY NatLessThanWellFounded, WFMin
<1>2. PICK m \in S : \A k \in S : ~(<<k, m>> \in OpToRel(<, Nat))
  BY <1>1
<1>3. ASSUME NEW k \in S PROVE m <= k
  <2>1. ~(<<k, m>> \in OpToRel(<, Nat))
    BY <1>2
  <2>2. <<k, m>> \in Nat \X Nat
    OBVIOUS
  <2>3. ~(k < m)
    BY <2>1, <2>2 DEF OpToRel
  <2> QED BY <2>3
<1> QED BY <1>3

\* A nonempty finite set has a member of greatest rank.
LEMMA Greatest ==
    ASSUME NEW S, S \subseteq Int, IsFiniteSet(S), S # {}
    PROVE  \E m \in S : \A k \in S : k <= m
<1> DEFINE above(x) == {y \in S : y > x}
           sizes == {Cardinality(above(x)) : x \in S}
<1>1. ASSUME NEW x \in S
      PROVE  IsFiniteSet(above(x)) /\ Cardinality(above(x)) \in Nat
  BY FS_Subset, FS_CardinalityType
<1>2. sizes \subseteq Nat /\ sizes # {}
  BY <1>1
<1>3. PICK least \in sizes : \A k \in sizes : least <= k
  <2> HIDE DEF sizes
  <2> QED BY <1>2, LeastNat
<1>4. PICK m \in S : least = Cardinality(above(m))
  OBVIOUS
<1>5. ASSUME NEW k \in S, k > m PROVE FALSE
  <2>1. above(k) \subseteq above(m) /\ k \in above(m) /\ k \notin above(k)
    <3>1. \A y \in S : y \in Int
      OBVIOUS
    <3>2. \A y \in S : y > k => y > m
      BY <1>5, <3>1
    <3>3. ~(k > k)
      BY <3>1
    <3> QED BY <1>5, <3>2, <3>3
  <2>2. Cardinality(above(k)) <= Cardinality(above(m))
        /\ Cardinality(above(k)) # Cardinality(above(m))
    <3>1. IsFiniteSet(above(m))
      BY <1>1
    <3> HIDE DEF above
    <3>2. above(k) # above(m)
      BY <2>1
    <3> QED BY <2>1, <3>1, <3>2, FS_Subset
  <2>3. least <= Cardinality(above(k))
    BY <1>3
  <2> HIDE DEF above
  <2> QED BY <2>2, <2>3, <1>1, <1>4
<1> QED BY <1>5

\* The least member of a finite set of numbers.
LEMMA Least ==
    ASSUME NEW S, S \subseteq Int, IsFiniteSet(S), S # {}
    PROVE  \E m \in S : \A k \in S : m <= k
<1> DEFINE below(x) == {y \in S : y < x}
           sizes == {Cardinality(below(x)) : x \in S}
<1>1. ASSUME NEW x \in S
      PROVE  IsFiniteSet(below(x)) /\ Cardinality(below(x)) \in Nat
  BY FS_Subset, FS_CardinalityType
<1>2. sizes \subseteq Nat /\ sizes # {}
  BY <1>1
<1>3. PICK least \in sizes : \A k \in sizes : least <= k
  <2> HIDE DEF sizes
  <2> QED BY <1>2, LeastNat
<1>4. PICK m \in S : least = Cardinality(below(m))
  OBVIOUS
<1>5. ASSUME NEW k \in S, k < m PROVE FALSE
  <2>1. below(k) \subseteq below(m) /\ k \in below(m) /\ k \notin below(k)
    <3>1. \A y \in S : y \in Int
      OBVIOUS
    <3>2. \A y \in S : y < k => y < m
      BY <1>5, <3>1
    <3>3. ~(k < k)
      BY <3>1
    <3> QED BY <1>5, <3>2, <3>3
  <2>2. Cardinality(below(k)) <= Cardinality(below(m))
        /\ Cardinality(below(k)) # Cardinality(below(m))
    <3>1. IsFiniteSet(below(m))
      BY <1>1
    <3> HIDE DEF below
    <3>2. below(k) # below(m)
      BY <2>1
    <3> QED BY <2>1, <3>1, <3>2, FS_Subset
  <2>3. least <= Cardinality(below(k))
    BY <1>3
  <2> HIDE DEF below
  <2> QED BY <2>2, <2>3, <1>1, <1>4
<1> QED BY <1>5

\* What sorted(S)[:n] keeps: never more than n, and n of them when it cuts any.
LEMMA SmallestKeeps ==
    ASSUME NEW S, S \subseteq Int, IsFiniteSet(S), NEW n \in Nat
    PROVE  /\ Smallest(S, n) \subseteq S
           /\ IsFiniteSet(Smallest(S, n))
           /\ Cardinality(Smallest(S, n)) \in 0..n
           /\ Cardinality(Smallest(S, n)) = n \/ Smallest(S, n) = S
           /\ Cardinality(S) <= n => Smallest(S, n) = S
<1> DEFINE below(x) == {y \in S : y < x}
           T == Smallest(S, n)
<1>1. T = {x \in S : Cardinality(below(x)) < n}
  BY DEF Smallest
<1>2. T \subseteq S /\ IsFiniteSet(T) /\ Cardinality(T) \in Nat
  BY <1>1, FS_Subset, FS_CardinalityType
<1>3. ASSUME NEW x \in S
      PROVE  IsFiniteSet(below(x)) /\ Cardinality(below(x)) \in Nat
  BY FS_Subset, FS_CardinalityType
<1> HIDE DEF T
<1>4. Cardinality(T) <= n
  <2>1. CASE T = {}
    BY <2>1, FS_EmptySet
  <2>2. CASE T # {}
    <3>1. PICK m \in T : \A k \in T : k <= m
      BY <1>2, <2>2, Greatest
    <3>2. T \ {m} \subseteq below(m)
      BY <1>2, <3>1
    <3>3. Cardinality(below(m)) < n
      BY <1>1, <3>1
    <3>4. Cardinality(T \ {m}) <= Cardinality(below(m))
      <4> HIDE DEF below
      <4> QED BY <1>2, <1>3, <3>1, <3>2, FS_Subset
    <3>5. Cardinality(T \ {m}) = Cardinality(T) - 1
      BY <1>2, <3>1, FS_RemoveElement
    <3> HIDE DEF below
    <3> QED BY <1>2, <1>3, <3>1, <3>3, <3>4, <3>5
  <2> QED BY <2>1, <2>2
<1>5. T # S => n <= Cardinality(T)
  <2> SUFFICES ASSUME T # S PROVE n <= Cardinality(T)
    OBVIOUS
  <2>1. S \ T # {} /\ S \ T \subseteq Int /\ IsFiniteSet(S \ T)
    BY <1>2, FS_Subset
  <2>2. PICK m \in S \ T : \A k \in S \ T : m <= k
    BY <2>1, Least
  <2>3. below(m) \subseteq T
    <3> SUFFICES ASSUME NEW y \in S, y < m, y \notin T PROVE FALSE
      OBVIOUS
    <3>1. y \in Int /\ m \in Int /\ m <= y
      BY <2>2
    <3> QED BY <3>1
  <2>4. ~(Cardinality(below(m)) < n)
    BY <1>1, <2>2
  <2>5. Cardinality(below(m)) <= Cardinality(T)
    <3> HIDE DEF below
    <3> QED BY <1>2, <2>3, FS_Subset
  <2> HIDE DEF below
  <2> QED BY <1>2, <1>3, <2>2, <2>4, <2>5
<1>6. Cardinality(S) <= n => T = S
  <2>1. Cardinality(S) \in Nat /\ Cardinality(T) <= Cardinality(S)
        /\ (Cardinality(T) = Cardinality(S) => T = S)
    BY <1>2, FS_Subset, FS_CardinalityType
  <2> QED BY <1>2, <1>5, <2>1
<1> QED BY <1>2, <1>4, <1>5, <1>6 DEF T
-----------------------------------------------------------------------------
(***************************************************************************)
(* Sums of amounts.  f adds up g over the subsets of S the way             *)
(* MapThenSumSet does, one member at a time.                               *)
(***************************************************************************)
Pick(s) == CHOOSE x \in s : TRUE

AddsUp(g, S, f) ==
    f = [s \in SUBSET S |-> IF s = {} THEN 0 ELSE g[Pick(s)] + f[s \ {Pick(s)}]]

\* A set of numbers that has 0 and every successor is Nat.
LEMMA NatByInduction ==
    ASSUME NEW G, G \subseteq Nat, 0 \in G, \A n \in G : n + 1 \in G
    PROVE  \A n \in Nat : n \in G
<1> SUFFICES ASSUME Nat \ G # {} PROVE FALSE
  OBVIOUS
<1>1. PICK m \in Nat \ G : \A k \in Nat \ G : m <= k
  BY LeastNat
<1>2. m # 0 /\ m - 1 \in Nat /\ ~(m <= m - 1)
  BY <1>1
<1>3. m - 1 \in G
  BY <1>1, <1>2
<1> QED BY <1>1, <1>2, <1>3

\* What a member is taken from a finite set.
LEMMA PickOne ==
    ASSUME NEW s, s # {}, IsFiniteSet(s)
    PROVE  /\ Pick(s) \in s /\ IsFiniteSet(s \ {Pick(s)})
           /\ Cardinality(s) \in Nat \ {0}
           /\ Cardinality(s \ {Pick(s)}) = Cardinality(s) - 1
<1>1. Pick(s) \in s
  BY DEF Pick
<1> QED BY <1>1, FS_RemoveElement, FS_CardinalityType, FS_EmptySet

\* A property of the subsets of a finite set, as the set of those that have it.
LEMMA SubsetInduction ==
    ASSUME NEW S, IsFiniteSet(S), NEW G, {} \in G,
           \A s \in SUBSET S : s # {} /\ s \ {Pick(s)} \in G => s \in G
    PROVE  \A s \in SUBSET S : s \in G
<1> DEFINE H == {n \in Nat : \A s \in SUBSET S : Cardinality(s) = n => s \in G}
<1>0. \A s \in SUBSET S : IsFiniteSet(s) /\ Cardinality(s) \in Nat
  BY FS_Subset, FS_CardinalityType
<1>1. 0 \in H
  BY <1>0, FS_EmptySet
<1>2. ASSUME NEW n \in H PROVE n + 1 \in H
  <2> SUFFICES ASSUME NEW s \in SUBSET S, Cardinality(s) = n + 1 PROVE s \in G
    OBVIOUS
  <2>1. s # {} /\ n + 1 # 0
    BY FS_EmptySet
  <2>2. s \ {Pick(s)} \in SUBSET S /\ Cardinality(s \ {Pick(s)}) = n
    BY <1>0, <2>1, PickOne
  <2> QED BY <2>1, <2>2
<1>3. \A n \in Nat : n \in H
  <2> HIDE DEF H
  <2>1. H \subseteq Nat
    BY DEF H
  <2> QED BY <1>1, <1>2, <2>1, NatByInduction
<1> QED BY <1>0, <1>3

\* There is such a function for every finite set of numbers.
LEMMA AddsUpExists ==
    ASSUME NEW S, IsFiniteSet(S), NEW g \in [S -> Int]
    PROVE  \E f \in [SUBSET S -> Int] : AddsUp(g, S, f)
<1> DEFINE upto(n) == {s \in SUBSET S : Cardinality(s) <= n}
           step(f, s) == IF s = {} THEN 0 ELSE g[Pick(s)] + f[s \ {Pick(s)}]
           H == {n \in Nat : \E f \in [upto(n) -> Int] : \A s \in upto(n) : f[s] = step(f, s)}
<1>0. \A s \in SUBSET S : IsFiniteSet(s) /\ Cardinality(s) \in Nat
  BY FS_Subset, FS_CardinalityType
<1>1. 0 \in H
  <2> DEFINE f == [s \in upto(0) |-> 0]
  <2>1. \A s \in upto(0) : s = {}
    BY <1>0, FS_EmptySet
  <2>2. f \in [upto(0) -> Int] /\ \A s \in upto(0) : f[s] = step(f, s)
    BY <2>1
  <2> HIDE DEF f, step, upto
  <2>3. \E h \in [upto(0) -> Int] : \A s \in upto(0) : h[s] = step(h, s)
    BY <2>2
  <2> QED BY <2>3
<1>2. ASSUME NEW n \in H PROVE n + 1 \in H
  <2>1. PICK f \in [upto(n) -> Int] : \A s \in upto(n) : f[s] = step(f, s)
    OBVIOUS
  <2> DEFINE e == [s \in upto(n + 1) |-> step(f, s)]
  <2>2. ASSUME NEW s \in upto(n + 1), s # {}
        PROVE  /\ s \ {Pick(s)} \in upto(n) /\ s \ {Pick(s)} \in upto(n + 1)
               /\ g[Pick(s)] \in Int
    <3>1. s \in SUBSET S /\ Cardinality(s) <= n + 1
      OBVIOUS
    <3>2. /\ Pick(s) \in s /\ Cardinality(s) \in Nat \ {0}
          /\ Cardinality(s \ {Pick(s)}) = Cardinality(s) - 1
      BY <1>0, <2>2, <3>1, PickOne
    <3> QED BY <3>1, <3>2
  <2>3. \A s \in upto(n + 1) : step(f, s) \in Int
    BY <2>2
  <2>4. ASSUME NEW s \in upto(n + 1) PROVE e[s] = step(e, s)
    <3>1. CASE s = {}
      BY <3>1
    <3>2. CASE s # {}
      <4> DEFINE t == s \ {Pick(s)}
      <4>1. t \in upto(n) /\ t \in upto(n + 1)
        BY <3>2, <2>2
      <4>2. e[t] = step(f, t) /\ f[t] = step(f, t)
        BY <2>1, <4>1
      <4> QED BY <3>2, <4>2
    <3> QED BY <3>1, <3>2
  <2>5. e \in [upto(n + 1) -> Int]
    BY <2>3
  <2> HIDE DEF e, step, upto
  <2>6. \E h \in [upto(n + 1) -> Int] : \A s \in upto(n + 1) : h[s] = step(h, s)
    BY <2>4, <2>5
  <2> QED BY <2>6
<1>3. Cardinality(S) \in H /\ upto(Cardinality(S)) = SUBSET S
  <2>1. Cardinality(S) \in Nat /\ \A s \in SUBSET S : Cardinality(s) <= Cardinality(S)
    BY FS_CardinalityType, FS_Subset
  <2>2. upto(Cardinality(S)) = SUBSET S
    BY <2>1
  <2>3. \A n \in Nat : n \in H
    <3>1. H \subseteq Nat
      OBVIOUS
    <3> HIDE DEF H
    <3> QED BY <1>1, <1>2, <3>1, NatByInduction
  <2> QED BY <2>1, <2>2, <2>3
<1>4. PICK f \in [SUBSET S -> Int] : \A s \in SUBSET S : f[s] = step(f, s)
  <2>1. \E f \in [upto(Cardinality(S)) -> Int] : \A s \in upto(Cardinality(S)) : f[s] = step(f, s)
    BY <1>3
  <2> HIDE DEF upto, step
  <2> QED BY <1>3, <2>1
<1> QED BY <1>4 DEF AddsUp

\* Nothing adds up to zero.
LEMMA SumOfNothing == ASSUME NEW S, NEW g, NEW f, AddsUp(g, S, f) PROVE f[{}] = 0
<1>1. {} \in SUBSET S
  OBVIOUS
<1> QED BY <1>1 DEF AddsUp

\* What such a function gives for a set, in terms of a smaller one.
LEMMA AddsUpStep ==
    ASSUME NEW S, IsFiniteSet(S), NEW g, NEW f, AddsUp(g, S, f), NEW s \in SUBSET S
    PROVE  s # {} => /\ Pick(s) \in S /\ s \ {Pick(s)} \in SUBSET S
                     /\ f[s] = g[Pick(s)] + f[s \ {Pick(s)}]
<1>1. f[s] = IF s = {} THEN 0 ELSE g[Pick(s)] + f[s \ {Pick(s)}]
  BY DEF AddsUp
<1>2. s # {} => Pick(s) \in s
  BY DEF Pick
<1> QED BY <1>1, <1>2

\* Sums of whole numbers of cents are whole numbers of cents, and no less than zero if
\* no amount is.
LEMMA SumOfCents ==
    ASSUME NEW S, IsFiniteSet(S), NEW g, NEW f, AddsUp(g, S, f),
           \A x \in S : g[x] \in Int /\ g[x] % 10 = 0
    PROVE  /\ f[S] \in Int /\ f[S] % 10 = 0
           /\ (\A x \in S : g[x] >= 0) => f[S] >= 0
<1> DEFINE G == {s \in SUBSET S :
                    /\ f[s] \in Int /\ f[s] % 10 = 0
                    /\ (\A x \in S : g[x] >= 0) => f[s] >= 0}
<1>1. {} \in G
  <2>1. f[{}] = 0
    BY SumOfNothing
  <2> QED BY <2>1
<1>2. ASSUME NEW s \in SUBSET S, s # {}, s \ {Pick(s)} \in G PROVE s \in G
  <2>1. /\ Pick(s) \in S
        /\ f[s] = g[Pick(s)] + f[s \ {Pick(s)}]
    BY <1>2, AddsUpStep
  <2> DEFINE a == g[Pick(s)]
             b == f[s \ {Pick(s)}]
  <2>2. /\ a \in Int /\ a % 10 = 0 /\ b \in Int /\ b % 10 = 0
        /\ (\A x \in S : g[x] >= 0) => a >= 0 /\ b >= 0
    BY <1>2, <2>1
  <2> HIDE DEF a, b
  <2>3. a + b \in Int /\ (a + b) % 10 = 0 /\ ((\A x \in S : g[x] >= 0) => a + b >= 0)
    BY <2>2
  <2> QED BY <2>1, <2>3 DEF a, b
<1>3. \A s \in SUBSET S : s \in G
  <2> HIDE DEF G
  <2> QED BY <1>1, <1>2, SubsetInduction
<1>4. S \in G
  BY <1>3
<1> QED BY <1>4

\* k is the sum of g and h.
AddsPointwise(g, h, k, S) == \A x \in S : g[x] \in Int /\ h[x] \in Int /\ k[x] = g[x] + h[x]

\* The sum of sums is the sum of what they add.
LEMMA SumOfSums ==
    ASSUME NEW S, IsFiniteSet(S), NEW g, NEW h, NEW k, NEW f, NEW e, NEW d,
           AddsUp(g, S, f), AddsUp(h, S, e), AddsUp(k, S, d),
           AddsPointwise(g, h, k, S)
    PROVE  d[S] = f[S] + e[S]
<1> DEFINE G == {s \in SUBSET S : f[s] \in Int /\ e[s] \in Int /\ d[s] = f[s] + e[s]}
<1>1. {} \in G
  <2>1. f[{}] = 0 /\ e[{}] = 0 /\ d[{}] = 0
    BY SumOfNothing
  <2> QED BY <2>1
<1>2. ASSUME NEW s \in SUBSET S, s # {}, s \ {Pick(s)} \in G PROVE s \in G
  <2> DEFINE t == s \ {Pick(s)}
  <2>1. /\ Pick(s) \in S
        /\ f[s] = g[Pick(s)] + f[t] /\ e[s] = h[Pick(s)] + e[t] /\ d[s] = k[Pick(s)] + d[t]
    BY <1>2, AddsUpStep
  <2>2. f[t] \in Int /\ e[t] \in Int /\ d[t] = f[t] + e[t]
    BY <1>2
  <2>3. g[Pick(s)] \in Int /\ h[Pick(s)] \in Int /\ k[Pick(s)] = g[Pick(s)] + h[Pick(s)]
    BY <2>1 DEF AddsPointwise
  <2> HIDE DEF t
  <2> QED BY <2>1, <2>2, <2>3
<1>3. \A s \in SUBSET S : s \in G
  <2> HIDE DEF G
  <2> QED BY <1>1, <1>2, SubsetInduction
<1>4. S \in G
  BY <1>3
<1> QED BY <1>4

\* ColumnSum adds up a column.
LEMMA ColumnAddsUp ==
    ASSUME NEW S, IsFiniteSet(S), NEW column, \A r \in S : r[column] \in Int
    PROVE  \E f : AddsUp([r \in S |-> r[column]], S, f) /\ ColumnSum(column, S) = f[S]
<1> DEFINE sums(f) == f = [s \in SUBSET S |-> IF s = {} THEN 0
                              ELSE LET x == CHOOSE x \in s : TRUE IN x[column] + f[s \ {x}]]
           iter == CHOOSE f : sums(f)
           g == [r \in S |-> r[column]]
<1>1. ColumnSum(column, S) = iter[S]
  BY Zenon DEF ColumnSum, MapThenSumSet, MapThenFoldSet
<1>2. ASSUME NEW f PROVE sums(f) <=> AddsUp(g, S, f)
  <2>1. \A s \in SUBSET S : s # {} => g[Pick(s)] = Pick(s)[column]
    BY DEF Pick
  <2>2. [s \in SUBSET S |-> IF s = {} THEN 0
            ELSE LET x == CHOOSE x \in s : TRUE IN x[column] + f[s \ {x}]]
        = [s \in SUBSET S |-> IF s = {} THEN 0 ELSE g[Pick(s)] + f[s \ {Pick(s)}]]
    <3> HIDE DEF g
    <3> QED BY <2>1 DEF Pick
  <2> HIDE DEF g
  <2> QED BY <2>2 DEF AddsUp
<1>3. \E f : sums(f)
  <2>1. g \in [S -> Int]
    OBVIOUS
  <2> HIDE DEF sums, g
  <2> QED BY <1>2, <2>1, AddsUpExists
<1>4. sums(iter)
  <2> HIDE DEF sums
  <2> QED BY <1>3, Zenon
<1> HIDE DEF sums, iter
<1> QED BY <1>1, <1>2, <1>4

\* So does a sum of prices with freight.
LEMMA CostAddsUp ==
    ASSUME NEW S, IsFiniteSet(S), \A r \in S : r.price \in Int /\ r.freight \in Int
    PROVE  \E f : /\ AddsUp([r \in S |-> r.price + r.freight], S, f)
                  /\ MapThenSumSet(LAMBDA r : r.price + r.freight, S) = f[S]
<1> DEFINE sums(f) == f = [s \in SUBSET S |-> IF s = {} THEN 0
                              ELSE LET x == CHOOSE x \in s : TRUE
                                   IN  x.price + x.freight + f[s \ {x}]]
           iter == CHOOSE f : sums(f)
           g == [r \in S |-> r.price + r.freight]
<1>1. MapThenSumSet(LAMBDA r : r.price + r.freight, S) = iter[S]
  BY Zenon DEF MapThenSumSet, MapThenFoldSet
<1>2. ASSUME NEW f PROVE sums(f) <=> AddsUp(g, S, f)
  <2>1. \A s \in SUBSET S : s # {} => g[Pick(s)] = Pick(s).price + Pick(s).freight
    BY DEF Pick
  <2>2. [s \in SUBSET S |-> IF s = {} THEN 0
            ELSE LET x == CHOOSE x \in s : TRUE IN x.price + x.freight + f[s \ {x}]]
        = [s \in SUBSET S |-> IF s = {} THEN 0 ELSE g[Pick(s)] + f[s \ {Pick(s)}]]
    <3> HIDE DEF g
    <3> QED BY <2>1 DEF Pick
  <2> HIDE DEF g
  <2> QED BY <2>2 DEF AddsUp
<1>3. \E f : sums(f)
  <2>1. g \in [S -> Int]
    OBVIOUS
  <2> HIDE DEF sums, g
  <2> QED BY <1>2, <2>1, AddsUpExists
<1>4. sums(iter)
  <2> HIDE DEF sums
  <2> QED BY <1>3, Zenon
<1> HIDE DEF sums, iter
<1> QED BY <1>1, <1>2, <1>4

-----------------------------------------------------------------------------
\* Tagging keeps the number of IDs.
LEMMA TaggedKeeps ==
    ASSUME NEW kind, NEW ids, IsFiniteSet(ids)
    PROVE  IsFiniteSet(Tagged(kind, ids)) /\ Cardinality(Tagged(kind, ids)) = Cardinality(ids)
<1> DEFINE f == [x \in ids |-> <<kind, x>>]
<1>1. f \in Bijection(ids, Tagged(kind, ids))
  BY DEF Tagged, Bijection, Injection, Surjection, IsInjective
<1>2. ExistsBijection(ids, Tagged(kind, ids))
  <2> HIDE DEF f
  <2> QED BY <1>1 DEF ExistsBijection
<1> QED BY <1>2, FS_Bijection

\* Disjoint finite sets add up.
LEMMA DisjointUnion ==
    ASSUME NEW S, NEW T, IsFiniteSet(S), IsFiniteSet(T), S \cap T = {}
    PROVE  /\ IsFiniteSet(S \cup T)
           /\ Cardinality(S \cup T) = Cardinality(S) + Cardinality(T)
           /\ Cardinality(S \cup T) \in Nat
<1>1. /\ IsFiniteSet(S \cup T)
      /\ Cardinality(S \cup T) = Cardinality(S) + Cardinality(T) - Cardinality(S \cap T)
  BY FS_Union
<1>2. Cardinality(S \cap T) = 0
  BY FS_EmptySet
<1> QED BY <1>1, <1>2, FS_CardinalityType

\* The IDs of a kind among the evidence.
IdsOf(kind, evidence) == {e[2] : e \in {f \in evidence : f[1] = kind}}

\* They are the tagged ones.
LEMMA IdsOfTagged ==
    ASSUME NEW kind, NEW evidence, NEW ids,
           \A e \in evidence : e[1] = kind => e \in Tagged(kind, ids),
           Tagged(kind, ids) \subseteq evidence
    PROVE  IdsOf(kind, evidence) = ids
<1>1. ASSUME NEW e \in evidence, e[1] = kind PROVE e[2] \in ids
  BY <1>1 DEF Tagged
<1>2. ASSUME NEW x \in ids PROVE x \in IdsOf(kind, evidence)
  <2> DEFINE e == <<kind, x>>
  <2>1. e \in evidence /\ e[1] = kind /\ e[2] = x
    BY DEF Tagged
  <2> HIDE DEF e
  <2> QED BY <2>1 DEF IdsOf
<1> QED BY <1>1, <1>2 DEF IdsOf

\* What the evidence of an output has to do with the IDs it lists and blames
Grounded(issue, item_ids, payment_ids, seller_ids, evidence) ==
    /\ Cardinality(evidence) <= EvidenceLimit
    /\ IdsOf("order", evidence) # {} /\ IdsOf("policy", evidence) = {issue}
    /\ IdsOf("item", evidence) \subseteq item_ids
    /\ IdsOf("payment", evidence) \subseteq payment_ids
    /\ IdsOf("seller", evidence) \subseteq seller_ids
    /\ seller_ids \subseteq IdsOf("seller", evidence) \/ Cardinality(evidence) = EvidenceLimit

\* The evidence never exceeds its limit, keeps the order and the policy, draws on the
\* IDs it is given, and drops a seller only when it is full.
LEMMA EvidenceValue ==
    ASSUME NEW issue, NEW item_ids, NEW payment_ids, NEW seller_ids,
           item_ids \subseteq Int, payment_ids \subseteq Int, seller_ids \subseteq Int,
           IsFiniteSet(item_ids), IsFiniteSet(payment_ids), IsFiniteSet(seller_ids)
    PROVE  Grounded(issue, item_ids, payment_ids, seller_ids,
                    PrioritizeEvidence(issue, item_ids, payment_ids, seller_ids))
<1> DEFINE evidence == PrioritizeEvidence(issue, item_ids, payment_ids, seller_ids)
           room == EvidenceLimit - 2
           I == Smallest(item_ids, room)
           P == Smallest(payment_ids, room - Cardinality(I))
           S == Smallest(seller_ids, room - Cardinality(I) - Cardinality(P))
           fixed == {<<"order", 0>>, <<"policy", issue>>}
<1>1. evidence = fixed \cup Tagged("item", I) \cup Tagged("payment", P) \cup Tagged("seller", S)
  BY DEF PrioritizeEvidence
<1>2. EvidenceLimit \in Nat /\ room \in Nat
  BY LimitsAssumption
<1>3. /\ I \subseteq item_ids /\ IsFiniteSet(I) /\ Cardinality(I) \in 0..room
      /\ room - Cardinality(I) \in Nat
  <2>1. /\ I \subseteq item_ids /\ IsFiniteSet(I) /\ Cardinality(I) \in 0..room
    BY <1>2, SmallestKeeps
  <2> HIDE DEF I, room
  <2> QED BY <1>2, <2>1
<1>4. /\ P \subseteq payment_ids /\ IsFiniteSet(P) /\ Cardinality(P) \in 0..(room - Cardinality(I))
      /\ room - Cardinality(I) - Cardinality(P) \in Nat
  <2>1. /\ P \subseteq payment_ids /\ IsFiniteSet(P)
        /\ Cardinality(P) \in 0..(room - Cardinality(I))
    <3> HIDE DEF I, room
    <3> QED BY <1>3, SmallestKeeps
  <2> HIDE DEF I, P, room
  <2> QED BY <1>2, <1>3, <2>1
<1>5. /\ S \subseteq seller_ids /\ IsFiniteSet(S)
      /\ Cardinality(S) \in 0..(room - Cardinality(I) - Cardinality(P))
      /\ Cardinality(S) = room - Cardinality(I) - Cardinality(P) \/ S = seller_ids
  <2> HIDE DEF I, P, room
  <2> QED BY <1>4, SmallestKeeps
<1> HIDE DEF I, P, S, evidence
<1>6. /\ IdsOf("order", evidence) = {0} /\ IdsOf("policy", evidence) = {issue}
      /\ IdsOf("item", evidence) = I /\ IdsOf("payment", evidence) = P
      /\ IdsOf("seller", evidence) = S
  <2>1. /\ fixed = Tagged("order", {0}) \cup Tagged("policy", {issue})
        /\ \A kind, ids : \A e \in Tagged(kind, ids) : e[1] = kind
    BY DEF Tagged
  <2> HIDE DEF fixed
  <2>2. /\ \A e \in evidence : e[1] = "order" => e \in Tagged("order", {0})
        /\ \A e \in evidence : e[1] = "policy" => e \in Tagged("policy", {issue})
        /\ \A e \in evidence : e[1] = "item" => e \in Tagged("item", I)
        /\ \A e \in evidence : e[1] = "payment" => e \in Tagged("payment", P)
        /\ \A e \in evidence : e[1] = "seller" => e \in Tagged("seller", S)
    BY <1>1, <2>1
  <2> QED BY <1>1, <2>1, <2>2, IdsOfTagged
<1>7. Cardinality(evidence) = 2 + Cardinality(I) + Cardinality(P) + Cardinality(S)
  <2>1. IsFiniteSet(fixed) /\ Cardinality(fixed) = 2
    <3> DEFINE a == {<<"order", 0>>}
               b == {<<"policy", issue>>}
    <3>1. fixed = a \cup b /\ a \cap b = {}
      OBVIOUS
    <3>2. IsFiniteSet(a) /\ Cardinality(a) = 1 /\ IsFiniteSet(b) /\ Cardinality(b) = 1
      BY FS_Singleton
    <3> HIDE DEF fixed, a, b
    <3>3. IsFiniteSet(a \cup b) /\ Cardinality(a \cup b) = Cardinality(a) + Cardinality(b)
      BY <3>1, <3>2, DisjointUnion
    <3> QED BY <3>1, <3>2, <3>3
  <2> DEFINE TI == Tagged("item", I)
             TP == Tagged("payment", P)
             TS == Tagged("seller", S)
  <2>2. /\ fixed \cap TI = {} /\ (fixed \cup TI) \cap TP = {}
        /\ (fixed \cup TI \cup TP) \cap TS = {}
    BY DEF Tagged
  <2>3. /\ IsFiniteSet(TI) /\ Cardinality(TI) = Cardinality(I)
        /\ IsFiniteSet(TP) /\ Cardinality(TP) = Cardinality(P)
        /\ IsFiniteSet(TS) /\ Cardinality(TS) = Cardinality(S)
        /\ Cardinality(I) \in Nat /\ Cardinality(P) \in Nat /\ Cardinality(S) \in Nat
    BY <1>3, <1>4, <1>5, TaggedKeeps, FS_CardinalityType
  <2> HIDE DEF fixed, TI, TP, TS
  <2>4. IsFiniteSet(fixed \cup TI) /\ Cardinality(fixed \cup TI) = 2 + Cardinality(I)
    <3>1. /\ IsFiniteSet(fixed \cup TI)
          /\ Cardinality(fixed \cup TI) = Cardinality(fixed) + Cardinality(TI)
      BY <2>1, <2>2, <2>3, DisjointUnion
    <3> QED BY <2>1, <2>3, <3>1
  <2>5. /\ IsFiniteSet(fixed \cup TI \cup TP)
        /\ Cardinality(fixed \cup TI \cup TP) = 2 + Cardinality(I) + Cardinality(P)
    BY <2>2, <2>3, <2>4, DisjointUnion
  <2>6. Cardinality(fixed \cup TI \cup TP \cup TS)
            = 2 + Cardinality(I) + Cardinality(P) + Cardinality(S)
    BY <2>2, <2>3, <2>5, DisjointUnion
  <2> QED BY <1>1, <2>6 DEF TI, TP, TS
<1>8. \/ Cardinality(evidence) = EvidenceLimit /\ Cardinality(evidence) <= EvidenceLimit
      \/ S = seller_ids /\ Cardinality(evidence) <= EvidenceLimit
  BY <1>2, <1>3, <1>4, <1>5, <1>7
<1> QED BY <1>3, <1>4, <1>5, <1>6, <1>8 DEF evidence, Grounded
-----------------------------------------------------------------------------
\* The first rule that applies decides.
LEMMA ClassifyValue ==
    ASSUME NEW ctx
    PROVE  Classify(ctx) =
               IF Applies("canceled_order_paid", ctx) THEN "canceled_order_paid"
               ELSE IF Applies("unavailable_order_paid", ctx) THEN "unavailable_order_paid"
               ELSE IF Applies("late_delivery_seller", ctx) THEN "late_delivery_seller"
               ELSE IF Applies("late_delivery_logistics", ctx) THEN "late_delivery_logistics"
               ELSE IF Applies("valid_split_payment", ctx) THEN "valid_split_payment"
               ELSE IF Applies("unsupported_late_claim", ctx) THEN "unsupported_late_claim"
               ELSE NoMatch
<1> DEFINE hits == {k \in DOMAIN Precedence : Applies(Precedence[k], ctx)}
<1>1. /\ DOMAIN Precedence = {1, 2, 3, 4, 5, 6}
      /\ Precedence[1] = "canceled_order_paid" /\ Precedence[2] = "unavailable_order_paid"
      /\ Precedence[3] = "late_delivery_seller" /\ Precedence[4] = "late_delivery_logistics"
      /\ Precedence[5] = "valid_split_payment" /\ Precedence[6] = "unsupported_late_claim"
  BY DEF Precedence
<1>2. Classify(ctx) = IF hits = {} THEN NoMatch ELSE Precedence[Min(hits)]
  BY DEF Classify
<1>3. /\ hits \subseteq {1, 2, 3, 4, 5, 6}
      /\ 1 \in hits <=> Applies("canceled_order_paid", ctx)
      /\ 2 \in hits <=> Applies("unavailable_order_paid", ctx)
      /\ 3 \in hits <=> Applies("late_delivery_seller", ctx)
      /\ 4 \in hits <=> Applies("late_delivery_logistics", ctx)
      /\ 5 \in hits <=> Applies("valid_split_payment", ctx)
      /\ 6 \in hits <=> Applies("unsupported_late_claim", ctx)
  BY <1>1
<1> HIDE DEF hits
<1>4. ASSUME NEW k \in hits, \A j \in hits : k <= j
      PROVE  Classify(ctx) = Precedence[k]
  <2> DEFINE first == Min(hits)
  <2>1. first \in hits /\ \A j \in hits : first <= j
    BY <1>4 DEF Min
  <2>2. hits \subseteq Int
    BY <1>3
  <2>3. first = k
    <3> HIDE DEF first
    <3> QED BY <1>4, <2>1, <2>2
  <2> QED BY <1>2, <1>4, <2>3
<1>5. CASE 1 \in hits
  BY <1>1, <1>3, <1>4, <1>5
<1>6. CASE 1 \notin hits /\ 2 \in hits
  BY <1>1, <1>3, <1>4, <1>6
<1>7. CASE 1 \notin hits /\ 2 \notin hits /\ 3 \in hits
  BY <1>1, <1>3, <1>4, <1>7
<1>8. CASE 1 \notin hits /\ 2 \notin hits /\ 3 \notin hits /\ 4 \in hits
  BY <1>1, <1>3, <1>4, <1>8
<1>9. CASE 1 \notin hits /\ 2 \notin hits /\ 3 \notin hits /\ 4 \notin hits /\ 5 \in hits
  BY <1>1, <1>3, <1>4, <1>9
<1>10. CASE hits = {6}
  BY <1>1, <1>3, <1>4, <1>10
<1>11. CASE hits = {}
  BY <1>2, <1>3, <1>11
<1> QED BY <1>3, <1>5, <1>6, <1>7, <1>8, <1>9, <1>10, <1>11

\* An issue that is found is one of the six, and its rule applies.
LEMMA IssueFound ==
    ASSUME NEW ctx, Classify(ctx) # NoMatch
    PROVE  /\ Classify(ctx) \in {"canceled_order_paid", "unavailable_order_paid",
                  "late_delivery_seller", "late_delivery_logistics", "valid_split_payment",
                  "unsupported_late_claim"}
           /\ Applies(Classify(ctx), ctx)
BY ClassifyValue
-----------------------------------------------------------------------------
\* The verifier's table of refunds is that of the rules.
LEMMA ExpectedRefundIsBasis ==
    ASSUME NEW issue \in Issues, NEW fin
    PROVE  Money(ExpectedRefund(issue, fin)) = BasisAmount(issue, fin)
<1>1. Issues = {"canceled_order_paid", "unavailable_order_paid", "late_delivery_seller",
               "late_delivery_logistics", "valid_split_payment", "unsupported_late_claim"}
  BY DEF Issues, Rules
<1>2. CASE issue \in {"canceled_order_paid", "unavailable_order_paid"}
  <2>1. Rules[issue].basis = "payment_total"
    BY <1>2 DEF Rules
  <2> QED BY <1>2, <2>1 DEF ExpectedRefund, BasisAmount
<1>3. CASE issue \in {"late_delivery_seller", "late_delivery_logistics"}
  <2>1. Rules[issue].basis = "freight_total"
    BY <1>3 DEF Rules
  <2> QED BY <1>3, <2>1 DEF ExpectedRefund, BasisAmount
<1>4. CASE issue \in {"valid_split_payment", "unsupported_late_claim"}
  <2>1. Rules[issue].basis = "zero" /\ Money(0) = 0
    BY <1>4 DEF Rules, Money
  <2> QED BY <1>4, <2>1 DEF ExpectedRefund, BasisAmount
<1> QED BY <1>1, <1>2, <1>3, <1>4

\* The only policy among the evidence is the issue.
LEMMA EvidenceBuilt ==
    ASSUME NEW board, NEW decision
    PROVE  EvidenceValid(BuildFinalOutput(board, decision)) <=> decision.issue \in Issues
<1> DEFINE out == BuildFinalOutput(board, decision)
<1>1. \A kind, ids : \A e \in Tagged(kind, ids) : e[1] = kind
  BY DEF Tagged
<1>2. PICK items, payments, sellers :
          out.evidence = {<<"order", 0>>, <<"policy", decision.issue>>}
              \cup Tagged("item", items) \cup Tagged("payment", payments)
              \cup Tagged("seller", sellers)
  BY DEF BuildFinalOutput, PrioritizeEvidence
<1> HIDE DEF out
<1>3. \A e \in out.evidence : e[1] = "policy" => e = <<"policy", decision.issue>>
  BY <1>1, <1>2
<1>4. <<"policy", decision.issue>> \in out.evidence
  BY <1>2
<1>5. EvidenceValid(out) <=> decision.issue \in Issues
  BY <1>3, <1>4 DEF EvidenceValid
<1> QED BY <1>5 DEF out

\* The agents that a repair can go to.
Targets == {"policy_agent", "payment_agent", "order_seller_agent"}

\* What the verifier appends its errors for, in their order.
Verdicts(c1, c2, c3, c4, c5, c6) == <<
    <<c1, "policy_agent">>, <<c2, "payment_agent">>, <<c3, "policy_agent">>,
    <<c4, "policy_agent">>, <<c5, "order_seller_agent">>, <<c6, "policy_agent">> >>

\* A verdict on six checks is Passed exactly if all hold, and names the
\* target of a failed check otherwise.
LEMMA FirstTargetValue ==
    ASSUME NEW c1 \in BOOLEAN, NEW c2 \in BOOLEAN, NEW c3 \in BOOLEAN,
           NEW c4 \in BOOLEAN, NEW c5 \in BOOLEAN, NEW c6 \in BOOLEAN
    PROVE  /\ FirstTarget(Verdicts(c1, c2, c3, c4, c5, c6)) = Passed
                  <=> c1 /\ c2 /\ c3 /\ c4 /\ c5 /\ c6
           /\ FirstTarget(Verdicts(c1, c2, c3, c4, c5, c6)) \in Targets \cup {Passed}
<1> DEFINE checks == Verdicts(c1, c2, c3, c4, c5, c6)
           failed == {k \in DOMAIN checks : ~checks[k][1]}
<1>1. DOMAIN checks = {1, 2, 3, 4, 5, 6}
  BY DEF Verdicts
<1>2. \A k \in {1, 2, 3, 4, 5, 6} : checks[k][2] \in Targets
  BY DEF Verdicts, Targets
<1>3. /\ checks[1][1] = c1 /\ checks[2][1] = c2 /\ checks[3][1] = c3
      /\ checks[4][1] = c4 /\ checks[5][1] = c5 /\ checks[6][1] = c6
  BY DEF Verdicts
<1> HIDE DEF checks
<1>4. CASE failed = {}
  <2>1. FirstTarget(checks) = Passed
    BY <1>4 DEF FirstTarget
  <2>2. \A k \in {1, 2, 3, 4, 5, 6} : checks[k][1]
    BY <1>1, <1>4
  <2> QED BY <2>1, <2>2, <1>3 DEF checks
<1>5. CASE failed # {}
  <2>1. \E k \in failed : \A j \in failed : k <= j
    <3>1. failed \subseteq {1, 2, 3, 4, 5, 6}
      BY <1>1
    <3> HIDE DEF failed
    <3>2. CASE 1 \in failed
      BY <3>1, <3>2
    <3>3. CASE 1 \notin failed /\ 2 \in failed
      BY <3>1, <3>3
    <3>4. CASE 1 \notin failed /\ 2 \notin failed /\ 3 \in failed
      BY <3>1, <3>4
    <3>5. CASE 1 \notin failed /\ 2 \notin failed /\ 3 \notin failed /\ 4 \in failed
      BY <3>1, <3>5
    <3>6. CASE /\ 1 \notin failed /\ 2 \notin failed /\ 3 \notin failed /\ 4 \notin failed
               /\ 5 \in failed
      BY <3>1, <3>6
    <3>7. CASE failed = {6}
      BY <3>7
    <3> QED BY <1>5, <3>1, <3>2, <3>3, <3>4, <3>5, <3>6, <3>7
  <2>2. Min(failed) \in failed
    BY <2>1 DEF Min
  <2>3. FirstTarget(checks) = checks[Min(failed)][2]
    BY <1>5 DEF FirstTarget
  <2>4. FirstTarget(checks) \in Targets
    BY <2>2, <2>3, <1>1, <1>2
  <2>5. Passed \notin Targets
    BY DEF Passed, Targets
  <2>6. ~(c1 /\ c2 /\ c3 /\ c4 /\ c5 /\ c6)
    BY <1>1, <1>3, <1>5
  <2> QED BY <2>4, <2>5, <2>6 DEF checks
<1> QED BY <1>4, <1>5

\* What a verdict is, and what a passing one says of the board and the decision.
LEMMA VerifyValue ==
    ASSUME NEW board, NEW decision, NEW expected, NEW ctx, NEW items, NEW payments,
           NEW result, result = Verify(board, decision, expected, ctx, items, payments)
    PROVE  /\ result \in Targets \cup {Passed}
           /\ result = Passed <=>
                  /\ PolicyAgrees(decision, expected)
                  /\ TotalsAgree(board.fin, ctx.fin)
                  /\ RefundAgrees(decision, ctx.fin)
                  /\ SchemaValid(BuildFinalOutput(board, decision))
                  /\ ReferencesValid(BuildFinalOutput(board, decision), items, payments)
                  /\ decision.issue \in Issues
<1> DEFINE out == BuildFinalOutput(board, decision)
           c1 == PolicyAgrees(decision, expected)
           c2 == TotalsAgree(board.fin, ctx.fin)
           c3 == RefundAgrees(decision, ctx.fin)
           c4 == SchemaValid(out)
           c5 == SchemaValid(out) => ReferencesValid(out, items, payments)
           c6 == SchemaValid(out) => EvidenceValid(out)
           checks == Verdicts(c1, c2, c3, c4, c5, c6)
<1>1. /\ c1 \in BOOLEAN /\ c2 \in BOOLEAN /\ c3 \in BOOLEAN
      /\ c4 \in BOOLEAN /\ c5 \in BOOLEAN /\ c6 \in BOOLEAN
  BY DEF PolicyAgrees, TotalsAgree, RefundAgrees, SchemaValid
<1>2. result = FirstTarget(checks)
  BY DEF Verify, Verdicts
<1>3. EvidenceValid(out) <=> decision.issue \in Issues
  BY EvidenceBuilt
<1> HIDE DEF c1, c2, c3, c4, c5, c6
<1>4. /\ FirstTarget(checks) = Passed <=> c1 /\ c2 /\ c3 /\ c4 /\ c5 /\ c6
      /\ FirstTarget(checks) \in Targets \cup {Passed}
  BY <1>1, FirstTargetValue
<1> QED BY <1>2, <1>3, <1>4 DEF c1, c2, c3, c4, c5, c6
=============================================================================
