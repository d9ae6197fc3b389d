---------------------------- MODULE UnitsProofs ----------------------------
(***************************************************************************)
(* What changing a function does to the sum Units counts, and the least-   *)
(* element principle the loop proofs use in place of induction.            *)
(***************************************************************************)
EXTENDS Units, FiniteSetTheorems, WellFoundedInduction, TLAPS

\* A non-empty set of naturals has a least element: the form in which the proofs
\* use induction on a number of loop iterations.
LEMMA LeastNat ==
  ASSUME NEW T, T \subseteq Nat, T # {}
  PROVE  \E k \in T : \A j \in T : k <= j
<1>1. \E k \in T : \A j \in T : ~ (<<j, k>> \in OpToRel(<, Nat))
  BY WFMin, NatLessThanWellFounded
<1>2. \A j, k \in Nat : <<j, k>> \in OpToRel(<, Nat) <=> j < k
  BY DEF OpToRel
<1>3. PICK k \in T : \A j \in T : ~ (<<j, k>> \in OpToRel(<, Nat))
  BY <1>1
<1>4. \A j \in T : ~ (j < k)
  BY <1>2, <1>3
<1> QED
  BY <1>4

\* The k units of x that follow its first i.
Block(x, i, k) == {x} \X ((i + 1)..(i + k))

\* A block has as many units as its interval.
LEMMA BlockCount ==
  ASSUME NEW x, NEW i \in Nat, NEW k \in Nat
  PROVE  IsFiniteSet(Block(x, i, k)) /\ Cardinality(Block(x, i, k)) = k
<1>1. IsFiniteSet({x}) /\ Cardinality({x}) = 1
  BY FS_Singleton
<1>2. IsFiniteSet((i + 1)..(i + k)) /\ Cardinality((i + 1)..(i + k)) = k
  <2>1. i + 1 \in Int /\ i + k \in Int
    OBVIOUS
  <2>2. /\ IsFiniteSet((i + 1)..(i + k))
        /\ Cardinality((i + 1)..(i + k)) = IF i + 1 > i + k THEN 0 ELSE (i + k) - (i + 1) + 1
    BY <2>1, FS_Interval
  <2> QED
    BY <2>2
<1> QED
  BY <1>1, <1>2, FS_Product DEF Block

\* The heap of a natural-valued function on a finite domain is finite, so its
\* sum is a natural number.
LEMMA TotalType ==
  ASSUME NEW D, IsFiniteSet(D), NEW f \in [D -> Nat]
  PROVE  IsFiniteSet(UnitsOf(f)) /\ Total(f) \in Nat
<1> DEFINE blocks == {{x} \X (1..f[x]) : x \in D}
           block == [x \in D |-> {x} \X (1..f[x])]
<1>1. block \in Surjection(D, blocks)
  BY DEF Surjection
<1>2. IsFiniteSet(blocks)
  BY <1>1, FS_Surjection
<1>3. \A b \in blocks : IsFiniteSet(b)
  <2> SUFFICES ASSUME NEW x \in D PROVE IsFiniteSet({x} \X (1..f[x]))
    OBVIOUS
  <2>1. IsFiniteSet(Block(x, 0, f[x]))
    BY BlockCount
  <2> QED
    BY <2>1 DEF Block
<1>4. UnitsOf(f) = UNION blocks
  BY DEF UnitsOf
<1>5. IsFiniteSet(UnitsOf(f))
  <2> HIDE DEF blocks
  <2> QED BY <1>2, <1>3, <1>4, FS_UNION
<1> QED
  BY <1>5, FS_CardinalityType DEF Total

\* Raising a function by k at one point raises its sum by k.
LEMMA TotalAdd ==
  ASSUME NEW D, IsFiniteSet(D), NEW f \in [D -> Nat], NEW x \in D, NEW k \in Nat,
         NEW g \in [D -> Nat], g[x] = f[x] + k, \A y \in D : y # x => g[y] = f[y]
  PROVE  Total(g) = Total(f) + k
<1> DEFINE new == Block(x, f[x], k)
<1>1. UnitsOf(g) = UnitsOf(f) \cup new
  <2>1. ASSUME NEW u \in UnitsOf(g) PROVE u \in UnitsOf(f) \cup new
    <3>1. PICK y \in D : u \in {y} \X (1..g[y])
      BY <2>1 DEF UnitsOf
    <3>2. PICK n \in 1..g[y] : u = <<y, n>>
      BY <3>1
    <3>3. CASE y = x /\ n > f[x]
      <4>1. n \in (f[x] + 1)..(f[x] + k)
        BY <3>2, <3>3
      <4> QED BY <4>1, <3>2, <3>3 DEF Block
    <3>4. CASE ~(y = x /\ n > f[x])
      <4>1. n \in 1..f[y]
        BY <3>2, <3>4
      <4>2. u \in {y} \X (1..f[y])
        BY <4>1, <3>2
      <4> QED BY <4>2 DEF UnitsOf
    <3> QED BY <3>3, <3>4
  <2>2. ASSUME NEW u \in UnitsOf(f) PROVE u \in UnitsOf(g)
    <3>1. PICK y \in D : u \in {y} \X (1..f[y])
      BY <2>2 DEF UnitsOf
    <3>2. 1..f[y] \subseteq 1..g[y]
      <4>1. f[y] \in Nat /\ g[y] \in Nat /\ f[y] <= g[y]
        BY y \in D
      <4> QED BY <4>1
    <3>3. u \in {y} \X (1..g[y])
      BY <3>1, <3>2
    <3> QED BY <3>3 DEF UnitsOf
  <2>3. new \subseteq UnitsOf(g)
    <3>1. (f[x] + 1)..(f[x] + k) \subseteq 1..g[x]
      <4>1. f[x] \in Nat
        OBVIOUS
      <4> QED BY <4>1
    <3>2. new \subseteq {x} \X (1..g[x])
      BY <3>1 DEF Block
    <3> QED BY <3>2 DEF UnitsOf
  <2> QED BY <2>1, <2>2, <2>3
<1>2. UnitsOf(f) \cap new = {}
  <2> SUFFICES ASSUME NEW u \in UnitsOf(f), u \in new PROVE FALSE
    OBVIOUS
  <2>1. PICK y \in D : u \in {y} \X (1..f[y])
    BY DEF UnitsOf
  <2>2. PICK n \in (f[x] + 1)..(f[x] + k) : u = <<x, n>>
    BY DEF Block
  <2>3. PICK m \in 1..f[y] : u = <<y, m>>
    BY <2>1
  <2>4. y = x /\ m = n
    BY <2>2, <2>3
  <2>5. f[x] \in Nat
    OBVIOUS
  <2> QED BY <2>2, <2>3, <2>4, <2>5
<1>3. IsFiniteSet(new) /\ Cardinality(new) = k
  <2>1. f[x] \in Nat
    OBVIOUS
  <2> QED BY <2>1, BlockCount
<1>4. IsFiniteSet(UnitsOf(f)) /\ Total(f) \in Nat
  BY TotalType
<1>5. Cardinality(UnitsOf(f) \cup new) =
        Cardinality(UnitsOf(f)) + Cardinality(new) - Cardinality(UnitsOf(f) \cap new)
  <2> HIDE DEF new
  <2> QED BY <1>3, <1>4, FS_Union
<1>6. Cardinality(UnitsOf(f) \cap new) = 0
  BY <1>2, FS_EmptySet, Zenon
<1> HIDE DEF new
<1> QED
  BY <1>1, <1>3, <1>4, <1>5, <1>6 DEF Total

\* A new point adds its value to the sum.
LEMMA TotalExtend ==
  ASSUME NEW D, IsFiniteSet(D), NEW f \in [D -> Nat], NEW x, x \notin D,
         NEW g \in [D \cup {x} -> Nat], \A y \in D : g[y] = f[y]
  PROVE  Total(g) = Total(f) + g[x]
<1> DEFINE z == [y \in D \cup {x} |-> IF y = x THEN 0 ELSE f[y]]
<1>1. UnitsOf(z) = UnitsOf(f)
  <2>1. ASSUME NEW u \in UnitsOf(z) PROVE u \in UnitsOf(f)
    <3>1. PICK y \in D \cup {x} : u \in {y} \X (1..z[y])
      BY <2>1, Zenon DEF UnitsOf
    <3>2. y # x
      <4> SUFFICES ASSUME y = x PROVE FALSE
        OBVIOUS
      <4>1. 1..z[y] = {}
        OBVIOUS
      <4> QED BY <4>1, <3>1
    <3> QED BY <3>1, <3>2 DEF UnitsOf
  <2>2. ASSUME NEW u \in UnitsOf(f) PROVE u \in UnitsOf(z)
    <3>1. PICK y \in D : u \in {y} \X (1..f[y])
      BY <2>2 DEF UnitsOf
    <3>2. z[y] = f[y]
      OBVIOUS
    <3>3. u \in {y} \X (1..z[y])
      BY <3>1, <3>2
    <3> QED BY <3>3 DEF UnitsOf
  <2> QED BY <2>1, <2>2
<1>2. IsFiniteSet(D \cup {x})
  BY FS_AddElement
<1>3. z \in [D \cup {x} -> Nat] /\ z[x] = 0 /\ \A y \in D \cup {x} : y # x => g[y] = z[y]
  OBVIOUS
<1>4. g[x] \in Nat /\ g[x] = z[x] + g[x]
  BY <1>3
<1> HIDE DEF z
<1>5. Total(g) = Total(z) + g[x]
  BY <1>2, <1>3, <1>4, TotalAdd
<1> QED
  BY <1>1, <1>5 DEF Total

\* No single value exceeds the sum.
LEMMA TotalBounds ==
  ASSUME NEW D, IsFiniteSet(D), NEW f \in [D -> Nat], NEW x \in D
  PROVE  f[x] <= Total(f)
<1> DEFINE z == [f EXCEPT ![x] = 0]
<1>1. z \in [D -> Nat] /\ z[x] = 0 /\ \A y \in D : y # x => f[y] = z[y]
  OBVIOUS
<1>2. f[x] \in Nat /\ f[x] = z[x] + f[x]
  BY <1>1
<1> HIDE DEF z
<1>3. Total(f) = Total(z) + f[x]
  BY <1>1, <1>2, TotalAdd
<1>4. Total(z) \in Nat
  BY <1>1, TotalType
<1> QED
  BY <1>2, <1>3, <1>4

\* The sum of zeros, over any domain, is zero.
LEMMA TotalZero ==
  ASSUME NEW D, NEW f \in [D -> {0}]
  PROVE  Total(f) = 0
<1>1. UnitsOf(f) = {}
  <2> SUFFICES ASSUME NEW x \in D PROVE {x} \X (1..f[x]) = {}
    BY DEF UnitsOf
  <2>1. 1..f[x] = {}
    OBVIOUS
  <2> QED BY <2>1
<1> QED
  BY <1>1, FS_EmptySet DEF Total
=============================================================================
