----------------------------- MODULE SumProofs -----------------------------
(***************************************************************************)
(* Sums of natural numbers over finite sets, as the community modules fold *)
(* them.  A fold follows CHOOSE through the subsets of its set; what it    *)
(* adds up is the number of pairs of an element and a number up to its     *)
(* value, which no order enters.                                           *)
(***************************************************************************)
EXTENDS Naturals, FiniteSets, Functions, FiniteSetsExt, FiniteSetTheorems,
        NaturalsInduction, WellFoundedInduction, TLAPS

\* One unit for each 1 that f has on T.
Units(f, T) == {p \in T \X Nat : 0 < p[2] /\ p[2] <= f[p[1]]}

\* The fold of + over the subsets of S.
Folded(f, S) ==
    CHOOSE iter :
        iter = [s \in SUBSET S |->
                   IF s = {} THEN 0
                   ELSE LET x == CHOOSE x \in s : TRUE IN f[x] + iter[s \ {x}]]

LEMMA SumIsFolded ==
    ASSUME NEW f, NEW S
    PROVE  SumFunctionOnSet(f, S) = Folded(f, S)[S]
BY DEF SumFunctionOnSet, FoldFunctionOnSet, MapThenFoldSet, Folded
\* The units of one element are as many as its value.
LEMMA UnitsOfOne ==
    ASSUME NEW x, NEW n \in Nat
    PROVE  IsFiniteSet({x} \X (1..n)) /\ Cardinality({x} \X (1..n)) = n
<1> DEFINE one == {x}
           many == 1..n
<1>1. IsFiniteSet(one) /\ Cardinality(one) = 1
  BY FS_Singleton
<1>2. IsFiniteSet(many) /\ Cardinality(many) = n
  BY FS_Interval
<1>3. IsFiniteSet(one \X many) /\ Cardinality(one \X many) = Cardinality(one) * Cardinality(many)
  <2> HIDE DEF one, many
  <2> QED
    BY <1>1, <1>2, FS_Product
<1>4. Cardinality(one) * Cardinality(many) = n
  BY <1>1, <1>2
<1> QED
  BY <1>3, <1>4

\* So those of a finite set are finitely many.
LEMMA UnitsAreFinite ==
    ASSUME NEW S, NEW f \in [S -> Nat], NEW T \in SUBSET S, IsFiniteSet(T)
    PROVE  IsFiniteSet(Units(f, T))
<1> DEFINE of(x) == {x} \X (1..f[x])
           all == {of(x) : x \in T}
<1>1. \A x \in T : IsFiniteSet(of(x))
  BY UnitsOfOne
<1>2. IsFiniteSet(all)
  <2> DEFINE g == [x \in T |-> of(x)]
  <2>1. g \in Surjection(T, all)
    BY DEF Surjection
  <2> QED
    BY <2>1, FS_Surjection
<1>3. IsFiniteSet(UNION all)
  BY <1>1, <1>2, FS_UNION
<1>4. Units(f, T) \subseteq UNION all
  <2> SUFFICES ASSUME NEW p \in Units(f, T) PROVE \E x \in T : p \in of(x)
    OBVIOUS
  <2>1. p \in T \X Nat /\ 0 < p[2] /\ p[2] <= f[p[1]] /\ f[p[1]] \in Nat
    BY DEF Units
  <2>2. p = <<p[1], p[2]>> /\ p[2] \in 1..f[p[1]] /\ p[1] \in T
    BY <2>1
  <2>3. p \in of(p[1])
    BY <2>2
  <2> QED
    BY <2>2, <2>3
<1> QED
  BY <1>3, <1>4, FS_Subset

\* An element brings its units with it.
LEMMA UnitsAdd ==
    ASSUME NEW S, NEW f \in [S -> Nat], NEW T \in SUBSET S, IsFiniteSet(T), NEW x \in T
    PROVE  /\ Cardinality(Units(f, T)) \in Nat
           /\ Cardinality(Units(f, T \ {x})) \in Nat
           /\ Cardinality(Units(f, T)) = f[x] + Cardinality(Units(f, T \ {x}))
<1> DEFINE own == {x} \X (1..f[x])
           rest == Units(f, T \ {x})
<1>1. f[x] \in Nat
  OBVIOUS
<1>2. IsFiniteSet(own) /\ Cardinality(own) = f[x]
  BY <1>1, UnitsOfOne
<1>3. IsFiniteSet(rest) /\ IsFiniteSet(Units(f, T))
  BY FS_Subset, UnitsAreFinite
<1>4. Units(f, T) = own \cup rest
  BY <1>1 DEF Units
<1>5. own \cap rest = {}
  BY DEF Units
<1>6. Cardinality(own \cup rest) = f[x] + Cardinality(rest) - Cardinality({})
  <2> HIDE DEF own, rest
  <2> QED
    BY <1>2, <1>3, <1>5, FS_Union
<1>7. Cardinality({}) = 0 /\ Cardinality(rest) \in Nat /\ Cardinality(Units(f, T)) \in Nat
  BY <1>3, FS_EmptySet, FS_CardinalityType
<1> QED
  BY <1>1, <1>4, <1>6, <1>7

\* A nonempty set of numbers has a least one.
LEMMA LeastNumber ==
    ASSUME NEW S \in SUBSET Nat, S # {}
    PROVE  \E m \in S : \A n \in S : m <= n
<1> DEFINE R == {ss \in Nat \X Nat : ss[1] < ss[2]}
<1>1. IsWellFoundedOn(R, Nat)
  BY NatLessThanWellFounded DEF OpToRel
<1>2. PICK m \in S : \A n \in S : ~(<<n, m>> \in R)
  <2> HIDE DEF R
  <2> QED
    BY <1>1, WFMin
<1>3. \A n \in S : ~(n < m)
  BY <1>2
<1> QED
  BY <1>3

\* The fold over subsets counts their units: what starts it off is no matter,
\* and a smallest subset on which it did not would have a smaller one.
LEMMA FoldCounts ==
    ASSUME NEW D, NEW f \in [D -> Nat], NEW S \in SUBSET D, IsFiniteSet(S)
    PROVE  Folded(f, S)[S] = Cardinality(Units(f, S))
<1> DEFINE chosen(s) == CHOOSE x \in s : TRUE
           IsFold(iter) ==
               iter = [s \in SUBSET S |-> IF s = {} THEN 0
                                          ELSE f[chosen(s)] + iter[s \ {chosen(s)}]]
           counts == [s \in SUBSET S |-> Cardinality(Units(f, s))]
<1>1. \A s \in SUBSET S : s # {} => chosen(s) \in s
  OBVIOUS
<1>2. \A s \in SUBSET S : IsFiniteSet(s)
  BY FS_Subset
<1>3. Cardinality(Units(f, {})) = 0
  <2>1. Units(f, {}) = {}
    BY DEF Units
  <2> QED
    BY <2>1, FS_EmptySet
<1>4. ASSUME NEW s \in SUBSET S, s # {}
      PROVE  counts[s] = f[chosen(s)] + counts[s \ {chosen(s)}]
  <2>1. chosen(s) \in s /\ IsFiniteSet(s)
    BY <1>1, <1>2, <1>4
  <2>2. Cardinality(Units(f, s)) = f[chosen(s)] + Cardinality(Units(f, s \ {chosen(s)}))
    <3> HIDE DEF chosen
    <3> QED
      BY <2>1, UnitsAdd
  <2>3. s \ {chosen(s)} \in SUBSET S
    OBVIOUS
  <2> QED
    BY <2>2, <2>3
<1>5. IsFold(counts)
  BY <1>3, <1>4
<1>6. IsFold(Folded(f, S))
  BY <1>5 DEF Folded
<1> DEFINE sum == Folded(f, S)
<1>7. sum[{}] = 0 /\ counts[{}] = 0
  BY <1>3, <1>6
<1>8. \A s \in SUBSET S : s # {} => sum[s] = f[chosen(s)] + sum[s \ {chosen(s)}]
  BY <1>6
<1> HIDE DEF sum, counts, IsFold, chosen
<1> DEFINE Wrong == {n \in Nat : \E s \in SUBSET S : Cardinality(s) = n /\ sum[s] # counts[s]}
<1>9. Wrong = {}
  <2> SUFFICES ASSUME Wrong # {} PROVE FALSE
    OBVIOUS
  <2>1. PICK n \in Wrong : \A m \in Wrong : n <= m
    <3>1. Wrong \in SUBSET Nat
      OBVIOUS
    <3> HIDE DEF Wrong
    <3> QED
      BY <3>1, LeastNumber
  <2>2. PICK s \in SUBSET S : Cardinality(s) = n /\ sum[s] # counts[s]
    BY <2>1
  <2>3. s # {}
    BY <1>7, <2>2
  <2> DEFINE x == chosen(s)
             t == s \ {chosen(s)}
  <2>4. x \in s /\ t \in SUBSET S /\ IsFiniteSet(s)
    BY <1>1, <1>2, <2>3
  <2>5. Cardinality(t) = n - 1 /\ n \in Nat /\ n - 1 \in Nat
    <3>1. Cardinality(t) = Cardinality(s) - 1
      BY <2>4, FS_RemoveElement
    <3>2. Cardinality(t) \in Nat
      BY <1>2, <2>4, FS_CardinalityType
    <3> QED
      BY <2>1, <2>2, <3>1, <3>2
  <2>6. sum[t] = counts[t]
    <3>1. n - 1 \notin Wrong
      BY <2>1, <2>5
    <3> QED
      BY <2>4, <2>5, <3>1
  <2>7. sum[s] = counts[s]
    BY <1>4, <1>8, <2>3, <2>6
  <2> QED
    BY <2>2, <2>7
<1>10. Cardinality(S) \in Nat /\ S \in SUBSET S
  BY FS_CardinalityType
<1>11. sum[S] = counts[S]
  BY <1>9, <1>10
<1> QED
  BY <1>11 DEF sum, counts

\* A sum of zeros is zero; a sum is a number, stays as its terms do, and changes
\* as its only changed term does.
LEMMA SumOfZeros ==
    ASSUME NEW D, NEW f \in [D -> Nat], NEW S \in SUBSET D, IsFiniteSet(S),
           \A x \in S : f[x] = 0
    PROVE  SumFunctionOnSet(f, S) = 0
<1>1. Units(f, S) = {}
  BY DEF Units
<1>2. SumFunctionOnSet(f, S) = Cardinality(Units(f, S))
  BY SumIsFolded, FoldCounts
<1> QED
  BY <1>1, <1>2, FS_EmptySet

LEMMA SumStays ==
    ASSUME NEW D, NEW f \in [D -> Nat], NEW g \in [D -> Nat],
           NEW S \in SUBSET D, IsFiniteSet(S), \A x \in S : g[x] = f[x]
    PROVE  /\ SumFunctionOnSet(f, S) \in Nat
           /\ SumFunctionOnSet(g, S) = SumFunctionOnSet(f, S)
<1>1. Units(f, S) = Units(g, S)
  BY DEF Units
<1>2. Cardinality(Units(f, S)) \in Nat
  BY UnitsAreFinite, FS_CardinalityType
<1> QED
  BY <1>1, <1>2, SumIsFolded, FoldCounts

LEMMA SumChanges ==
    ASSUME NEW D, NEW f \in [D -> Nat], NEW g \in [D -> Nat],
           NEW S \in SUBSET D, IsFiniteSet(S), NEW x \in S, \A y \in S \ {x} : g[y] = f[y]
    PROVE  /\ SumFunctionOnSet(f, S) \in Nat
           /\ SumFunctionOnSet(g, S) \in Nat
           /\ SumFunctionOnSet(g, S) - g[x] = SumFunctionOnSet(f, S) - f[x]
<1>1. Units(f, S \ {x}) = Units(g, S \ {x})
  BY DEF Units
<1>2. /\ Cardinality(Units(f, S)) = f[x] + Cardinality(Units(f, S \ {x}))
      /\ Cardinality(Units(f, S)) \in Nat /\ Cardinality(Units(f, S \ {x})) \in Nat
  BY UnitsAdd
<1>3. /\ Cardinality(Units(g, S)) = g[x] + Cardinality(Units(g, S \ {x}))
      /\ Cardinality(Units(g, S)) \in Nat
  BY UnitsAdd
<1>4. f[x] \in Nat /\ g[x] \in Nat
  OBVIOUS
<1>5. /\ SumFunctionOnSet(f, S) = Cardinality(Units(f, S))
      /\ SumFunctionOnSet(g, S) = Cardinality(Units(g, S))
  BY SumIsFolded, FoldCounts
<1> QED
  BY <1>1, <1>2, <1>3, <1>4, <1>5

=============================================================================
