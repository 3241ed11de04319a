----------------------------- MODULE TotalProofs ------------------------------
(***************************************************************************)
(* Sums over finite sets: what they are, how they change, how they compare.*)
(***************************************************************************)
EXTENDS Totals, FiniteSetTheorems, WellFoundedInduction, TLAPS

\* The product of two naturals is a natural.
LEMMA ProductIsNat == ASSUME NEW a \in Nat, NEW b \in Nat PROVE a * b \in Nat
  OBVIOUS

\* A natural divided by a positive natural is a natural, at most itself.
LEMMA QuotientIsNat ==
  ASSUME NEW n \in Nat, NEW c \in Nat \ {0}
  PROVE  n \div c \in Nat /\ c * (n \div c) <= n
  OBVIOUS

\* The units a sum counts.
Units(f, S) == UNION {{x} \X (1..f[x]) : x \in S}

\* Finitely many summands have finitely many units.
LEMMA UnitsFinite ==
  ASSUME NEW S, IsFiniteSet(S), NEW f, \A x \in S : f[x] \in Int
  PROVE  IsFiniteSet(Units(f, S))
<1> DEFINE part(x) == {x} \X (1..f[x])
           g == [x \in S |-> part(x)]
           parts == {part(x) : x \in S}
<1>1. ASSUME NEW x \in S PROVE IsFiniteSet(part(x))
  <2>1. IsFiniteSet(1..f[x]) BY FS_Interval
  <2>2. IsFiniteSet({x}) BY FS_Singleton
  <2> QED BY <2>1, <2>2, FS_Product
<1>2. IsFiniteSet(parts)
  <2>1. g \in Surjection(S, parts) BY DEF Surjection
  <2> QED BY <2>1, FS_Surjection
<1>3. \A T \in parts : IsFiniteSet(T) BY <1>1
<1> HIDE DEF parts
<1>4. IsFiniteSet(UNION parts) BY <1>2, <1>3, FS_UNION
<1> QED BY <1>4 DEF Units, parts

\* A sum is a natural number, whatever the signs of its summands.
LEMMA TotalOfSigned ==
  ASSUME NEW S, IsFiniteSet(S), NEW f, \A x \in S : f[x] \in Int
  PROVE  Total(f, S) \in Nat
BY UnitsFinite, FS_CardinalityType DEF Total, Units

\* A sum of naturals is a natural number.
LEMMA TotalIsNat ==
  ASSUME NEW S, IsFiniteSet(S), NEW f, \A x \in S : f[x] \in Nat
  PROVE  Total(f, S) \in Nat
<1>1. \A x \in S : f[x] \in Int OBVIOUS
<1> QED BY <1>1, TotalOfSigned

\* What a summand adds to a sum.
PositivePart(n) == IF n > 0 THEN n ELSE 0

\* Taking one summand out, of either sign.
LEMMA TotalSplitSigned ==
  ASSUME NEW S, IsFiniteSet(S), NEW f, \A x \in S : f[x] \in Int, NEW y \in S
  PROVE  Total(f, S) = Total(f, S \ {y}) + PositivePart(f[y])
<1> DEFINE mine == {y} \X (1..f[y])
           rest == Units(f, S \ {y})
           n == PositivePart(f[y])
<1>1. IsFiniteSet(S \ {y}) BY FS_RemoveElement
<1>2. IsFiniteSet(rest) BY <1>1, UnitsFinite
<1>3. IsFiniteSet(mine) /\ Cardinality(mine) = n
  <2>1. IsFiniteSet(1..f[y]) /\ Cardinality(1..f[y]) = n
    <3>1. f[y] \in Int OBVIOUS
    <3>2. IsFiniteSet(1..f[y])
          /\ Cardinality(1..f[y]) = (IF 1 > f[y] THEN 0 ELSE f[y] - 1 + 1)
      BY <3>1, FS_Interval
    <3> QED BY <3>1, <3>2 DEF PositivePart
  <2>2. IsFiniteSet({y}) /\ Cardinality({y}) = 1 BY FS_Singleton
  <2>3. IsFiniteSet(mine) /\ Cardinality(mine) = Cardinality({y}) * Cardinality(1..f[y])
    BY <2>1, <2>2, FS_Product
  <2>4. 1 * n = n BY DEF PositivePart
  <2> QED BY <2>1, <2>2, <2>3, <2>4
<1>4. rest \cap mine = {} BY DEF Units
<1>5. Units(f, S) = rest \cup mine
  <2>1. Units(f, S) \subseteq rest \cup mine BY DEF Units
  <2>2. rest \cup mine \subseteq Units(f, S) BY DEF Units
  <2> QED BY <2>1, <2>2
<1>6. n \in Nat BY DEF PositivePart
<1> HIDE DEF mine, rest, n
<1>7. Cardinality(rest \cup mine) = Cardinality(rest) + Cardinality(mine) - Cardinality({})
  BY <1>2, <1>3, <1>4, FS_Union
<1>8. Cardinality(rest) \in Nat /\ Cardinality({}) = 0
  BY <1>2, FS_CardinalityType, FS_EmptySet
<1>9. Cardinality(Units(f, S)) = Cardinality(rest) + n
  BY <1>3, <1>5, <1>6, <1>7, <1>8
<1> QED BY <1>9 DEF Total, Units, rest, n

\* Taking one summand out.
LEMMA TotalSplit ==
  ASSUME NEW S, IsFiniteSet(S), NEW f, \A x \in S : f[x] \in Nat, NEW y \in S
  PROVE  Total(f, S) = Total(f, S \ {y}) + f[y]
<1>1. \A x \in S : f[x] \in Int OBVIOUS
<1>2. PositivePart(f[y]) = f[y] BY DEF PositivePart
<1> QED BY <1>1, <1>2, TotalSplitSigned

\* A sum looks at the summands only.
LEMMA TotalSame ==
  ASSUME NEW S, NEW f, NEW g, \A x \in S : f[x] = g[x]
  PROVE  Total(f, S) = Total(g, S)
<1>1. Units(f, S) = Units(g, S) BY DEF Units
<1> QED BY <1>1 DEF Total, Units

\* An empty sum, or one of nothing positive, is zero.
LEMMA TotalOfNone ==
  ASSUME NEW S, NEW f, \A x \in S : f[x] \in Int /\ f[x] <= 0
  PROVE  Total(f, S) = 0
<1>1. Units(f, S) = {}
  <2>1. \A x \in S : 1..f[x] = {} OBVIOUS
  <2> QED BY <2>1 DEF Units
<1> QED BY <1>1, FS_EmptySet DEF Total, Units

\* A sum of zeros is zero.
LEMMA TotalZero ==
  ASSUME NEW S, NEW f, \A x \in S : f[x] = 0
  PROVE  Total(f, S) = 0
<1>1. \A x \in S : f[x] \in Int /\ f[x] <= 0 OBVIOUS
<1> QED BY <1>1, TotalOfNone

\* Changing one summand changes the sum by as much.
LEMMA TotalChange ==
  ASSUME NEW S, IsFiniteSet(S), NEW f, NEW g, NEW y \in S,
         \A x \in S : f[x] \in Nat /\ g[x] \in Nat,
         \A x \in S \ {y} : g[x] = f[x]
  PROVE  Total(g, S) = Total(f, S) - f[y] + g[y]
<1>1. Total(f, S) = Total(f, S \ {y}) + f[y] BY TotalSplit
<1>2. Total(g, S) = Total(g, S \ {y}) + g[y] BY TotalSplit
<1>3. Total(g, S \ {y}) = Total(f, S \ {y}) BY TotalSame
<1>4. Total(f, S \ {y}) \in Nat BY FS_RemoveElement, TotalIsNat
<1> QED BY <1>1, <1>2, <1>3, <1>4

\* A summand is at most the sum.
LEMMA TotalBounds ==
  ASSUME NEW S, IsFiniteSet(S), NEW f, \A x \in S : f[x] \in Nat, NEW y \in S
  PROVE  f[y] <= Total(f, S)
<1>1. Total(f, S) = Total(f, S \ {y}) + f[y] BY TotalSplit
<1>2. Total(f, S \ {y}) \in Nat BY FS_RemoveElement, TotalIsNat
<1> QED BY <1>1, <1>2

\* Summands that are, scaled, at most other summands add up to at most their sum.
\* By descent: among the subsets of S where the sums fail there is a smallest one,
\* and taking one summand out of it leaves a smaller one.
LEMMA TotalOfParts ==
  ASSUME NEW S, IsFiniteSet(S), NEW f, NEW g, NEW a \in Nat, NEW s \in Nat,
         \A x \in S : f[x] \in Nat /\ g[x] \in Nat /\ f[x] * s <= g[x] * a
  PROVE  Total(f, S) * s <= Total(g, S) * a
<1> DEFINE Fails == {T \in SUBSET S : ~(Total(f, T) * s <= Total(g, T) * a)}
           R == StrictSubsetOrdering(S)
<1>1. Fails \subseteq FiniteSubsetsOf(S)
  BY FS_Subset DEF FiniteSubsetsOf
<1>2. IsWellFoundedOn(R, FiniteSubsetsOf(S))
  BY FS_StrictSubsetOrderingWellFounded
<1>3. ASSUME Fails # {} PROVE FALSE
  <2>1. PICK T \in Fails : \A U \in Fails : ~(<<U, T>> \in R)
    <3> HIDE DEF R, Fails
    <3>1. \E x \in Fails : \A y \in Fails : ~(<<y, x>> \in R)
      BY <1>1, <1>2, <1>3, WFMin
    <3> QED BY <3>1
  <2>2. T \subseteq S /\ IsFiniteSet(T) BY FS_Subset
  <2>3. CASE T = {}
    <3>1. Total(f, T) = 0 /\ Total(g, T) = 0 BY <2>3, TotalZero
    <3> QED BY <3>1
  <2>4. CASE T # {}
    <3>1. PICK y \in T : TRUE BY <2>4
    <3> DEFINE U == T \ {y}
    <3>2. U \in SUBSET S /\ <<U, T>> \in R
      BY <2>2, <3>1 DEF StrictSubsetOrdering
    <3>3. Total(f, U) * s <= Total(g, U) * a BY <2>1, <3>2
    <3>4. /\ Total(f, T) = Total(f, U) + f[y]
          /\ Total(g, T) = Total(g, U) + g[y]
      BY <2>2, <3>1, TotalSplit
    <3>5. IsFiniteSet(U) BY <2>2, FS_RemoveElement
    <3>6. Total(f, U) \in Nat /\ Total(g, U) \in Nat BY <2>2, <3>5, TotalIsNat
    <3>7. f[y] \in Nat /\ g[y] \in Nat /\ f[y] * s <= g[y] * a BY <2>2, <3>1
    <3> HIDE DEF U
    <3>8. /\ (Total(f, U) + f[y]) * s = Total(f, U) * s + f[y] * s
          /\ (Total(g, U) + g[y]) * a = Total(g, U) * a + g[y] * a
      BY <3>6, <3>7
    <3>9. /\ Total(f, U) * s \in Nat /\ f[y] * s \in Nat
          /\ Total(g, U) * a \in Nat /\ g[y] * a \in Nat
      BY <3>6, <3>7, ProductIsNat
    <3>10. (Total(f, U) + f[y]) * s <= (Total(g, U) + g[y]) * a
      BY <3>3, <3>7, <3>8, <3>9
    <3> QED BY <3>4, <3>10
  <2> QED BY <2>3, <2>4
<1> QED BY <1>3

\* A sum is at most another one into whose summands its own go, each to one of
\* its own that is no smaller.
LEMMA TotalInjected ==
  ASSUME NEW S, IsFiniteSet(S), NEW T, IsFiniteSet(T), NEW f, NEW g, NEW h,
         \A x \in S : f[x] \in Nat, \A y \in T : g[y] \in Nat,
         \A x \in S : h[x] \in T /\ f[x] <= g[h[x]],
         \A x \in S, y \in S : h[x] = h[y] => x = y
  PROVE  Total(f, S) <= Total(g, T)
<1> DEFINE U == Units(f, S)
           V == Units(g, T)
           m == [w \in U |-> <<h[w[1]], w[2]>>]
<1>1. IsFiniteSet(U) /\ IsFiniteSet(V) BY UnitsFinite
<1>2. \A w \in U : w[1] \in S /\ w[2] \in 1..f[w[1]] /\ w = <<w[1], w[2]>> BY DEF Units
<1>3. ASSUME NEW w \in U PROVE <<h[w[1]], w[2]>> \in V
  <2>1. w[1] \in S /\ w[2] \in 1..f[w[1]] BY <1>2
  <2>2. h[w[1]] \in T /\ f[w[1]] \in Nat /\ g[h[w[1]]] \in Nat /\ f[w[1]] <= g[h[w[1]]] BY <2>1
  <2>3. w[2] \in 1..g[h[w[1]]] BY <2>1, <2>2
  <2> QED BY <2>2, <2>3 DEF Units
<1> HIDE DEF U, V
<1>4. m \in Injection(U, V)
  <2>1. m \in [U -> V] BY <1>3
  <2>2. \A v, w \in U : m[v] = m[w] => v = w BY <1>2
  <2> QED BY <2>1, <2>2 DEF Injection, IsInjective
<1>5. Cardinality(U) <= Cardinality(V)
  <2> HIDE DEF m
  <2> QED BY <1>1, <1>4, FS_Injection
<1> QED BY <1>5 DEF Total, Units, U, V

-----------------------------------------------------------------------------
(* Sums of either sign *)

\* A signed sum is an integer.
LEMMA NetIsInt ==
  ASSUME NEW S, IsFiniteSet(S), NEW f, \A x \in S : f[x] \in Int
  PROVE  Net(f, S) \in Int
<1> DEFINE m == [x \in S |-> -f[x]]
<1>1. \A x \in S : m[x] \in Int OBVIOUS
<1> HIDE DEF m
<1>2. Total(f, S) \in Nat /\ Total(m, S) \in Nat BY <1>1, TotalOfSigned
<1> QED BY <1>2 DEF Net, m

\* Taking one summand out of a signed sum.
LEMMA NetSplit ==
  ASSUME NEW S, IsFiniteSet(S), NEW f, \A x \in S : f[x] \in Int, NEW y \in S
  PROVE  Net(f, S) = Net(f, S \ {y}) + f[y]
<1> DEFINE T == S \ {y}
           m == [x \in S |-> -f[x]]
           k == [x \in T |-> -f[x]]
<1>1. /\ \A x \in S : m[x] \in Int
      /\ \A x \in T : f[x] \in Int /\ k[x] \in Int /\ m[x] = k[x]
      /\ m[y] = -f[y] /\ f[y] \in Int
  OBVIOUS
<1>2. IsFiniteSet(T) BY FS_RemoveElement
<1> HIDE DEF m, k
<1>3. Total(m, T) = Total(k, T)
  <2> HIDE DEF T
  <2> QED BY <1>1, TotalSame
<1>4. /\ Total(f, S) = Total(f, T) + PositivePart(f[y])
      /\ Total(m, S) = Total(m, T) + PositivePart(m[y])
  BY <1>1, TotalSplitSigned
<1>5. Total(f, T) \in Nat /\ Total(k, T) \in Nat
  <2> HIDE DEF T
  <2> QED BY <1>1, <1>2, TotalOfSigned
<1>6. PositivePart(f[y]) - PositivePart(m[y]) = f[y]
  BY <1>1 DEF PositivePart
<1>7. PositivePart(f[y]) \in Int /\ PositivePart(m[y]) \in Int
  BY <1>1 DEF PositivePart
<1>8. Total(f, S) - Total(m, S) = Total(f, T) - Total(k, T) + f[y]
  <2> HIDE DEF T
  <2> QED BY <1>1, <1>3, <1>4, <1>5, <1>6, <1>7
<1> QED BY <1>8 DEF Net, m, k

\* A signed sum looks at the summands only.
LEMMA NetSame ==
  ASSUME NEW S, NEW f, NEW g, \A x \in S : f[x] = g[x]
  PROVE  Net(f, S) = Net(g, S)
<1>1. Total(f, S) = Total(g, S) BY TotalSame
<1>2. [x \in S |-> -f[x]] = [x \in S |-> -g[x]] OBVIOUS
<1> QED BY <1>1, <1>2 DEF Net

\* Changing one summand changes a signed sum by as much.
LEMMA NetChange ==
  ASSUME NEW S, IsFiniteSet(S), NEW f, NEW g, NEW y \in S,
         \A x \in S : f[x] \in Int /\ g[x] \in Int,
         \A x \in S \ {y} : g[x] = f[x]
  PROVE  Net(g, S) = Net(f, S) - f[y] + g[y]
<1>1. Net(f, S) = Net(f, S \ {y}) + f[y] BY NetSplit
<1>2. Net(g, S) = Net(g, S \ {y}) + g[y] BY NetSplit
<1>3. Net(g, S \ {y}) = Net(f, S \ {y}) BY NetSame
<1>4. Net(f, S \ {y}) \in Int
  <2>1. IsFiniteSet(S \ {y}) /\ \A x \in S \ {y} : f[x] \in Int BY FS_RemoveElement
  <2> QED BY <2>1, NetIsInt
<1> QED BY <1>1, <1>2, <1>3, <1>4

\* Of naturals, the signed sum is the sum.
LEMMA NetOfNats ==
  ASSUME NEW S, IsFiniteSet(S), NEW f, \A x \in S : f[x] \in Nat
  PROVE  Net(f, S) = Total(f, S)
<1> DEFINE m == [x \in S |-> -f[x]]
<1>1. \A x \in S : m[x] \in Int /\ m[x] <= 0 OBVIOUS
<1> HIDE DEF m
<1>2. Total(m, S) = 0 BY <1>1, TotalOfNone
<1>3. Total(f, S) \in Nat BY TotalIsNat
<1> QED BY <1>2, <1>3 DEF Net, m

\* A signed sum of zeros is zero.
LEMMA NetZero ==
  ASSUME NEW S, IsFiniteSet(S), NEW f, \A x \in S : f[x] = 0
  PROVE  Net(f, S) = 0
<1>1. Net(f, S) = Total(f, S) BY NetOfNats
<1>2. Total(f, S) = 0 BY TotalZero
<1> QED BY <1>1, <1>2
=============================================================================
