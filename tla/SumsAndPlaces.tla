--------------------------- MODULE SumsAndPlaces ---------------------------
(***************************************************************************)
(* Facts about finite sets that the proofs of several modules need: how a  *)
(* sum over a set changes with one of its terms, and that counting those   *)
(* before it numbers the elements of an ordered set.                       *)
(***************************************************************************)
EXTENDS FiniteSetTheorems, TLAPS

-----------------------------------------------------------------------------
(* Sums.  MapThenSumSet adds up a set in an order nobody knows.  Its sums  *)
(* are studied by a smallest counterexample.                               *)

\* The element that is added first, the sums over the subsets of S, and the sum over S
Pick(s) == CHOOSE x \in s : TRUE
IsSum(g, f, S) == g = [s \in SUBSET S |-> IF s = {} THEN 0 ELSE f[Pick(s)] + g[s \ {Pick(s)}]]
SumOf(f, S) == CHOOSE g : IsSum(g, f, S)
Total(f, S) == SumOf(f, S)[S]

\* Of some subsets of a finite set one contains none of the others.
LEMMA SmallestSubset ==
  ASSUME NEW S, IsFiniteSet(S), NEW T, T \subseteq SUBSET S, T # {}
  PROVE  \E x \in T : \A y \in T : ~(y \subseteq x /\ y # x)
<1>1. SUBSET S = FiniteSubsetsOf(S)
  BY FS_FiniteSubsetsOfFinite
<1>2. IsWellFoundedOn(StrictSubsetOrdering(S), SUBSET S)
  BY <1>1, FS_StrictSubsetOrderingWellFounded
<1>3. PICK x \in T : \A y \in T : <<y, x>> \notin StrictSubsetOrdering(S)
  BY <1>2, WFMin
<1>4. QED
  BY <1>3 DEF StrictSubsetOrdering

\* Taking out the element that is summed first leaves a smaller set.
LEMMA PickIn ==
  ASSUME NEW S, NEW s \in SUBSET S, s # {}
  PROVE  /\ Pick(s) \in s /\ Pick(s) \in S
         /\ s \ {Pick(s)} \in SUBSET S
         /\ s \ {Pick(s)} \subseteq s /\ s \ {Pick(s)} # s
BY DEF Pick

\* What the sum function says of one set
LEMMA SumStep ==
  ASSUME NEW S, NEW f, NEW g, IsSum(g, f, S), NEW s \in SUBSET S
  PROVE  /\ s = {} => g[s] = 0
         /\ s # {} => g[s] = f[Pick(s)] + g[s \ {Pick(s)}]
<1>1. g[s] = IF s = {} THEN 0 ELSE f[Pick(s)] + g[s \ {Pick(s)}]
  BY DEF IsSum
<1>2. QED
  BY <1>1

\* Nothing adds up to zero.
LEMMA NothingAddsUp ==
  ASSUME NEW S, NEW f, NEW g, IsSum(g, f, S)
  PROVE  g[{}] = 0
BY SumStep

\* Two sums of one function agree wherever both are defined.
LEMMA SumsAgree ==
  ASSUME NEW S, IsFiniteSet(S), NEW T, NEW f, NEW g, NEW h, IsSum(g, f, S), IsSum(h, f, T)
  PROVE  \A s \in SUBSET S : s \in SUBSET T => g[s] = h[s]
<1> DEFINE Bad == {s \in SUBSET S : s \in SUBSET T /\ g[s] # h[s]}
<1> SUFFICES ASSUME Bad # {}  PROVE FALSE
  OBVIOUS
<1>0. Bad \subseteq SUBSET S
  OBVIOUS
<1>1. PICK x \in Bad : \A y \in Bad : ~(y \subseteq x /\ y # x)
  <2> HIDE DEF Bad
  <2> QED  BY <1>0, SmallestSubset
<1>2. CASE x = {}
  BY <1>1, <1>2, SumStep
<1>3. CASE x # {}
  <2> DEFINE y == x \ {Pick(x)}
  <2>1. y \in SUBSET S /\ y \in SUBSET T /\ y \subseteq x /\ y # x
    BY <1>1, <1>3, PickIn
  <2>2. g[x] = f[Pick(x)] + g[y] /\ h[x] = f[Pick(x)] + h[y]
    BY <1>1, <1>3, SumStep
  <2>3. g[y] = h[y]
    BY <1>1, <2>1
  <2>4. QED
    BY <1>1, <2>2, <2>3
<1>4. QED
  BY <1>2, <1>3

\* A sum over a smaller set is a piece of the sum over a larger one.
LEMMA SumExists ==
  ASSUME NEW S, IsFiniteSet(S), NEW f
  PROVE  IsSum(SumOf(f, S), f, S)
<1> DEFINE Bad == {T \in SUBSET S : ~ \E g : IsSum(g, f, T)}
<1>1. CASE Bad # {}
  <2>0. Bad \subseteq SUBSET S
    OBVIOUS
  <2>1. PICK T \in Bad : \A y \in Bad : ~(y \subseteq T /\ y # T)
    <3> HIDE DEF Bad
    <3> QED  BY <1>1, <2>0, SmallestSubset
  <2> DEFINE G(s) == SumOf(f, s)
             Less(s) == s \in SUBSET T /\ s # T
             h == [s \in SUBSET T |-> IF s = {} THEN 0 ELSE f[Pick(s)] + G(s \ {Pick(s)})[s \ {Pick(s)}]]
  <2>2. ASSUME NEW s, Less(s)  PROVE IsSum(G(s), f, s) /\ IsFiniteSet(s)
    <3>1. \E g : IsSum(g, f, s)
      BY <2>1, <2>2
    <3>2. IsFiniteSet(s)
      BY <2>1, <2>2, FS_Subset
    <3>3. QED
      BY <3>1, <3>2 DEF SumOf
  <2>3. ASSUME NEW s, Less(s)  PROVE h[s] = G(s)[s]
    <3>1. CASE s = {}
      <4>1. G(s)[s] = 0
        <5> HIDE DEF G
        <5> QED  BY <2>2, <2>3, <3>1, SumStep
      <4>2. QED
        BY <2>3, <3>1, <4>1
    <3>2. CASE s # {}
      <4> DEFINE y == s \ {Pick(s)}
      <4>1. Less(y) /\ y \in SUBSET s
        BY <2>3, <3>2, PickIn
      <4>2. G(s)[s] = f[Pick(s)] + G(s)[y]
        BY <2>2, <2>3, <3>2, SumStep
      <4>3. G(s)[y] = G(y)[y]
        <5> HIDE DEF y, G
        <5> QED  BY <2>2, <2>3, <4>1, SumsAgree
      <4>4. h[s] = f[Pick(s)] + G(y)[y]
        BY <2>3, <3>2
      <4>5. QED
        BY <4>2, <4>3, <4>4
    <3>3. QED
      BY <3>1, <3>2
  <2>4. IsSum(h, f, T)
    <3>1. ASSUME NEW s \in SUBSET T, s # {}
          PROVE  G(s \ {Pick(s)})[s \ {Pick(s)}] = h[s \ {Pick(s)}]
      <4>1. Less(s \ {Pick(s)})
        BY <3>1, PickIn
      <4> HIDE DEF h, G, Less
      <4> QED  BY <2>3, <4>1
    <3>2. h = [s \in SUBSET T |-> IF s = {} THEN 0 ELSE f[Pick(s)] + h[s \ {Pick(s)}]]
      BY <3>1
    <3>3. QED
      BY <3>2 DEF IsSum
  <2>5. QED
    BY <2>1, <2>4
<1>2. CASE Bad = {}
  BY <1>2 DEF SumOf
<1>3. QED
  BY <1>1, <1>2

\* Amounts add up to an amount.
LEMMA SumIsNat ==
  ASSUME NEW S, IsFiniteSet(S), NEW f \in [S -> Nat], NEW g, IsSum(g, f, S)
  PROVE  \A s \in SUBSET S : g[s] \in Nat
<1> DEFINE Bad == {s \in SUBSET S : g[s] \notin Nat}
<1> SUFFICES ASSUME Bad # {}  PROVE FALSE
  OBVIOUS
<1>0. Bad \subseteq SUBSET S
  OBVIOUS
<1>1. PICK x \in Bad : \A y \in Bad : ~(y \subseteq x /\ y # x)
  <2> HIDE DEF Bad
  <2> QED  BY <1>0, SmallestSubset
<1>2. CASE x = {}
  <2>1. g[x] = 0
    BY <1>0, <1>1, <1>2, SumStep
  <2>2. QED
    BY <1>1, <2>1
<1>3. CASE x # {}
  <2>1. x \ {Pick(x)} \in SUBSET S /\ g[x \ {Pick(x)}] \in Nat /\ f[Pick(x)] \in Nat
    BY <1>1, <1>3, PickIn
  <2>2. QED
    BY <1>1, <1>3, <2>1, SumStep
<1>4. QED
  BY <1>2, <1>3

\* Changing one amount changes every sum that counts it by the difference.
LEMMA SumChanges ==
  ASSUME NEW S, IsFiniteSet(S), NEW f \in [S -> Nat], NEW fn \in [S -> Nat], NEW y \in S,
         \A x \in S \ {y} : fn[x] = f[x],
         NEW g, IsSum(g, f, S), NEW gn, IsSum(gn, fn, S)
  PROVE  \A s \in SUBSET S : IF y \in s THEN gn[s] + f[y] = g[s] + fn[y] ELSE gn[s] = g[s]
<1> DEFINE Right(s) == IF y \in s THEN gn[s] + f[y] = g[s] + fn[y] ELSE gn[s] = g[s]
           Bad == {s \in SUBSET S : ~Right(s)}
<1> SUFFICES ASSUME Bad # {}  PROVE FALSE
  OBVIOUS
<1>0. Bad \subseteq SUBSET S
  OBVIOUS
<1>1. PICK x \in Bad : \A z \in Bad : ~(z \subseteq x /\ z # x)
  <2> HIDE DEF Bad
  <2> QED  BY <1>0, SmallestSubset
<1>2. CASE x = {}
  <2>1. g[x] = 0 /\ gn[x] = 0
    BY <1>2, NothingAddsUp
  <2>2. QED
    BY <1>1, <1>2, <2>1
<1>3. CASE x # {}
  <2> DEFINE z == x \ {Pick(x)}
  <2>1. z \in SUBSET S /\ z \subseteq x /\ z # x /\ Pick(x) \in S /\ Pick(x) \in x
    BY <1>1, <1>3, PickIn
  <2>2. Right(z)
    BY <1>1, <2>1
  <2>3. g[x] = f[Pick(x)] + g[z] /\ gn[x] = fn[Pick(x)] + gn[z]
    <3> HIDE DEF Bad
    <3> QED  BY <1>0, <1>1, <1>3, SumStep
  <2>4. g[z] \in Nat /\ gn[z] \in Nat
    BY <2>1, SumIsNat
  <2>5. f[Pick(x)] \in Nat /\ fn[Pick(x)] \in Nat /\ f[y] \in Nat /\ fn[y] \in Nat
    BY <2>1
  <2>6. CASE Pick(x) = y
    <3>1. y \in x /\ gn[z] = g[z]
      BY <2>1, <2>2, <2>6
    <3>2. gn[x] + f[y] = g[x] + fn[y]
      BY <2>3, <2>4, <2>5, <2>6, <3>1
    <3>3. QED
      BY <1>1, <3>1, <3>2
  <2>7. CASE Pick(x) # y
    <3>1. fn[Pick(x)] = f[Pick(x)] /\ (y \in x <=> y \in z)
      BY <2>1, <2>7
    <3>2. Right(x)
      BY <2>2, <2>3, <2>4, <2>5, <3>1
    <3>3. QED
      BY <1>1, <3>2
  <2>8. QED
    BY <2>6, <2>7
<1>4. QED
  BY <1>2, <1>3

\* The same of the total of all amounts
LEMMA TotalChanges ==
  ASSUME NEW S, IsFiniteSet(S), NEW f \in [S -> Nat], NEW fn \in [S -> Nat], NEW y \in S,
         \A x \in S \ {y} : fn[x] = f[x]
  PROVE  Total(fn, S) + f[y] = Total(f, S) + fn[y]
BY SumExists, SumChanges DEF Total

LEMMA TotalIsNat ==
  ASSUME NEW S, IsFiniteSet(S), NEW f \in [S -> Nat]
  PROVE  Total(f, S) \in Nat
BY SumExists, SumIsNat DEF Total

\* Nothing anywhere is nothing in total.
LEMMA TotalOfNothing ==
  ASSUME NEW S, IsFiniteSet(S), NEW f, \A x \in S : f[x] = 0
  PROVE  Total(f, S) = 0
<1> DEFINE g == [s \in SUBSET S |-> 0]
<1>1. IsSum(g, f, S)
  <2>1. ASSUME NEW s \in SUBSET S, s # {}  PROVE f[Pick(s)] + g[s \ {Pick(s)}] = 0
    BY <2>1, PickIn
  <2>2. QED
    BY <2>1 DEF IsSum
<1>2. g[S] = 0
  OBVIOUS
<1> HIDE DEF g
<1>3. QED
  BY <1>1, <1>2, SumExists, SumsAgree DEF Total

-----------------------------------------------------------------------------
(* Places.  R[x] are the elements before x.                                *)

\* The place of an element is one more than the number of elements before it: places are
\* the numbers up to the size of the set, and they follow the order.
LEMMA PlacesAreNumbered ==
  ASSUME NEW S, IsFiniteSet(S), NEW R,
         \A x \in S : R[x] \subseteq S \ {x},
         \A x \in S : \A y \in R[x] : R[y] \subseteq R[x],
         \A x \in S : \A y \in S \ {x} : x \in R[y] \/ y \in R[x]
  PROVE  /\ {1 + Cardinality(R[x]) : x \in S} = 1 .. Cardinality(S)
         /\ \A x \in S : IsFiniteSet(R[x]) /\ Cardinality(R[x]) \in Nat
         /\ \A x \in S : \A y \in R[x] : Cardinality(R[y]) < Cardinality(R[x])
<1> DEFINE n == Cardinality(S)
           place == [x \in S |-> 1 + Cardinality(R[x])]
<1>1. n \in Nat
  BY FS_CardinalityType
<1>2. ASSUME NEW x \in S
      PROVE  IsFiniteSet(R[x]) /\ Cardinality(R[x]) \in Nat /\ Cardinality(R[x]) < n
  <2>1. IsFiniteSet(S \ {x}) /\ Cardinality(S \ {x}) = n - 1
    BY FS_RemoveElement
  <2>2. R[x] \in SUBSET (S \ {x})
    OBVIOUS
  <2>3. IsFiniteSet(R[x]) /\ Cardinality(R[x]) <= Cardinality(S \ {x})
    BY <2>1, <2>2, FS_Subset
  <2>4. QED
    BY <1>1, <2>1, <2>3, FS_CardinalityType
<1>3. ASSUME NEW x \in S, NEW y \in R[x]
      PROVE  Cardinality(R[y]) < Cardinality(R[x])
  <2>1. y \in S /\ R[y] \in SUBSET (R[x] \ {y})
    OBVIOUS
  <2>2. IsFiniteSet(R[x] \ {y}) /\ Cardinality(R[x] \ {y}) = Cardinality(R[x]) - 1
    BY <1>2, FS_RemoveElement
  <2>3. Cardinality(R[y]) <= Cardinality(R[x] \ {y})
    BY <2>1, <2>2, FS_Subset
  <2>4. QED
    BY <1>2, <2>1, <2>2, <2>3
<1>4. place \in [S -> 1 .. n]
  BY <1>1, <1>2
<1>5. ASSUME NEW x \in S, NEW y \in S, x # y  PROVE place[x] # place[y]
  <2>1. CASE x \in R[y]
    BY <1>2, <1>3, <2>1
  <2>2. CASE y \in R[x]
    BY <1>2, <1>3, <2>2
  <2>3. QED
    BY <1>5, <2>1, <2>2
<1>6. place \in Injection(S, 1 .. n)
  <2> HIDE DEF place, n
  <2> QED  BY <1>4, <1>5 DEF Injection, IsInjective
<1>7. IsFiniteSet(1 .. n) /\ Cardinality(1 .. n) = n
  BY <1>1, FS_Interval
<1>8. place \in Surjection(S, 1 .. n)
  BY <1>6, <1>7, FS_Injection
<1>9. {place[x] : x \in S} = 1 .. n
  <2> HIDE DEF place, n
  <2> QED  BY <1>4, <1>8 DEF Surjection
<1>10. QED
  BY <1>2, <1>3, <1>9

\* An element that comes before every other one
LEMMA FirstPlace ==
  ASSUME NEW S, IsFiniteSet(S), S # {}, NEW R,
         \A x \in S : R[x] \subseteq S \ {x},
         \A x \in S : \A y \in R[x] : R[y] \subseteq R[x],
         \A x \in S : \A y \in S \ {x} : x \in R[y] \/ y \in R[x]
  PROVE  \E x \in S : \A y \in S \ {x} : x \in R[y]
<1>1. Cardinality(S) \in Nat /\ Cardinality(S) # 0
  BY FS_CardinalityType, FS_EmptySet
<1>2. 1 \in {1 + Cardinality(R[x]) : x \in S}
  BY <1>1, PlacesAreNumbered
<1>3. PICK x \in S : 1 = 1 + Cardinality(R[x])
  BY <1>2
<1>4. R[x] = {}
  <2>1. IsFiniteSet(R[x]) /\ Cardinality(R[x]) \in Nat
    BY PlacesAreNumbered
  <2>2. QED
    BY <1>3, <2>1, FS_EmptySet
<1>5. QED
  BY <1>4
=============================================================================
