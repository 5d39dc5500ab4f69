---------------------------- MODULE NumberLemmas ----------------------------
(***************************************************************************)
(* What the proofs about notes need to know of numbers and finite sets:    *)
(* minima and maxima, rounding, induction over the natural numbers, and    *)
(* the rank of a value among others.                                       *)
(***************************************************************************)
EXTENDS Integers, FiniteSets, FiniteSetsExt, Rounding, FiniteSetTheorems,
        WellFoundedInduction, TLAPS

-----------------------------------------------------------------------------
(* Minima and maxima.                                                      *)

\* The smallest and the largest of a few numbers.
LEMMA MinOfTwo ==
  ASSUME NEW a \in Int, NEW b \in Int
  PROVE  Min({a, b}) \in {a, b} /\ Min({a, b}) <= a /\ Min({a, b}) <= b
<1>1. \E x \in {a, b} : \A y \in {a, b} : x =< y
  OBVIOUS
<1>. QED  BY <1>1 DEF Min

LEMMA MinOfThree ==
  ASSUME NEW a \in Int, NEW b \in Int, NEW c \in Int
  PROVE  /\ Min({a, b, c}) \in {a, b, c}
         /\ Min({a, b, c}) <= a /\ Min({a, b, c}) <= b /\ Min({a, b, c}) <= c
<1>1. \E x \in {a, b, c} : \A y \in {a, b, c} : x =< y
  OBVIOUS
<1>. QED  BY <1>1 DEF Min

LEMMA MaxOfTwo ==
  ASSUME NEW a \in Int, NEW b \in Int
  PROVE  Max({a, b}) \in {a, b} /\ Max({a, b}) >= a /\ Max({a, b}) >= b
<1>1. \E x \in {a, b} : \A y \in {a, b} : x >= y
  OBVIOUS
<1>. QED  BY <1>1 DEF Max

\* The first of some natural numbers.
LEMMA MinOfNaturals ==
  ASSUME NEW S, S \subseteq Nat, S # {}
  PROVE  Min(S) \in S /\ \A y \in S : Min(S) <= y
<1> DEFINE R == {p \in Nat \X Nat : p[1] < p[2]}
<1>1. IsWellFoundedOn(R, Nat)
  BY NatLessThanWellFounded DEF OpToRel
<1>2. \E x \in S : \A y \in S : ~ (<<y, x>> \in R)
  <2> HIDE DEF R
  <2>. QED  BY <1>1, WFMin
<1>3. PICK x \in S : \A y \in S : ~ (<<y, x>> \in R)
  BY <1>2
<1>4. ASSUME NEW y \in S PROVE x =< y
  <2>1. <<y, x>> \in Nat \X Nat /\ ~ (<<y, x>> \in R)
    BY <1>3
  <2>2. ~ (y < x)
    BY <2>1
  <2>. QED  BY <2>2
<1>. QED  BY <1>4 DEF Min

\* Induction, with a set for the property.
LEMMA SetInduction ==
  ASSUME NEW S, 0 \in S, \A n \in Nat : n \in S => n + 1 \in S
  PROVE  Nat \subseteq S
<1> DEFINE T == Nat \ S
<1>. SUFFICES ASSUME T # {} PROVE FALSE
  OBVIOUS
<1>1. Min(T) \in T /\ \A y \in T : Min(T) <= y
  <2>1. T \subseteq Nat
    OBVIOUS
  <2> HIDE DEF T
  <2>. QED  BY <2>1, MinOfNaturals
<1>2. PICK m \in T : \A y \in T : m <= y
  BY <1>1
<1>3. m \in Nat \ {0} /\ m \notin S /\ m - 1 \in Nat
  OBVIOUS
<1>4. m - 1 \in S
  BY <1>2, <1>3
<1>5. (m - 1) + 1 \in S
  BY <1>3, <1>4
<1>. QED  BY <1>3, <1>5

\* The largest of some natural numbers below a bound.
LEMMA MaxOfNaturals ==
  ASSUME NEW S, S \subseteq Nat, S # {}, NEW b \in Nat, \A x \in S : x <= b
  PROVE  Max(S) \in S /\ \A y \in S : y <= Max(S)
<1> DEFINE B == {n \in Nat : \A x \in S : x <= n}
<1>1. B \subseteq Nat /\ B # {}
  OBVIOUS
<1>2. PICK m \in B : \A n \in B : m <= n
  <2> HIDE DEF B
  <2>. QED  BY <1>1, MinOfNaturals
<1>3. m \in Nat /\ \A x \in S : x <= m
  OBVIOUS
<1>4. m \in S
  <2>. SUFFICES ASSUME m \notin S PROVE FALSE
    OBVIOUS
  <2>1. \A x \in S : x \in Nat /\ x <= m - 1
    BY <1>3
  <2>2. m - 1 \in Nat
    <3>1. PICK x \in S : TRUE
      OBVIOUS
    <3>. QED  BY <1>3, <2>1, <3>1
  <2>3. m - 1 \in B
    BY <2>1, <2>2
  <2>. QED  BY <1>2, <1>3, <2>3
<1>5. \E x \in S : \A y \in S : x >= y
  BY <1>3, <1>4
<1>6. Max(S) \in S /\ \A y \in S : Max(S) >= y
  BY <1>5 DEF Max
<1>. QED  BY <1>6

-----------------------------------------------------------------------------
(* Rounding.                                                               *)

\* round() is off by a half at most.
LEMMA RoundError ==
  ASSUME NEW n \in Nat, NEW d \in Nat \ {0}
  PROVE  /\ Round(n, d) \in Nat
         /\ 2 * (d * Round(n, d)) <= 2 * n + d
         /\ 2 * n <= 2 * (d * Round(n, d)) + d
<1> DEFINE q == n \div d
           r == n % d
<1>1. q \in Nat /\ r \in 0..(d - 1) /\ n = d * q + r
  OBVIOUS
<1>2. d * (q + 1) = d * q + d /\ d * q \in Nat
  BY <1>1
<1>3. CASE Round(n, d) = q /\ 2 * r <= d
  BY <1>1, <1>2, <1>3
<1>4. CASE Round(n, d) = q + 1 /\ 2 * r >= d
  BY <1>1, <1>2, <1>4
<1>5. \/ Round(n, d) = q /\ 2 * r <= d
      \/ Round(n, d) = q + 1 /\ 2 * r >= d
  BY <1>1 DEF Round
<1>. QED  BY <1>3, <1>4, <1>5

-----------------------------------------------------------------------------
(* Ranks.                                                                  *)

\* How many members of S have a smaller value than x.
Rank(S, v, x) == Cardinality({y \in S : v[y] < v[x]})

\* Different values have different ranks, 0 to |S| - 1, in their order.
LEMMA Ranks ==
  ASSUME NEW S, IsFiniteSet(S), NEW v \in [S -> Nat],
         \A x, y \in S : v[x] = v[y] => x = y
  PROVE  /\ \A x \in S : Rank(S, v, x) \in 0..(Cardinality(S) - 1)
         /\ \A x, y \in S : v[x] < v[y] <=> Rank(S, v, x) < Rank(S, v, y)
         /\ \A k \in 0..(Cardinality(S) - 1) : \E x \in S : Rank(S, v, x) = k
<1> DEFINE Below(x) == {y \in S : v[y] < v[x]}
           n == Cardinality(S)
           f == [x \in S |-> Rank(S, v, x)]
<1>1. n \in Nat
  BY FS_CardinalityType
<1>2. ASSUME NEW T, T \subseteq S, NEW x \in S, x \notin T
      PROVE  Cardinality(T) \in Nat /\ Cardinality(T) < n
  <2>1. IsFiniteSet(T) /\ Cardinality(T) <= n /\ (n = Cardinality(T) => S = T)
    BY <1>2, FS_Subset
  <2>2. Cardinality(T) \in Nat
    BY <2>1, FS_CardinalityType
  <2>3. Cardinality(T) # n
    BY <1>2, <2>1
  <2>. QED  BY <1>1, <2>1, <2>2, <2>3
<1>3. ASSUME NEW x \in S
      PROVE  Rank(S, v, x) \in 0..(n - 1)
  <2>1. Below(x) \subseteq S /\ x \notin Below(x)
    OBVIOUS
  <2>2. Cardinality(Below(x)) \in Nat /\ Cardinality(Below(x)) < n
    <3> HIDE DEF Below, n
    <3>. QED  BY <1>2, <2>1
  <2>. QED  BY <1>1, <2>2 DEF Rank
<1>4. ASSUME NEW x \in S, NEW y \in S, v[x] < v[y]
      PROVE  Rank(S, v, x) < Rank(S, v, y)
  <2>1. Below(x) \subseteq Below(y) /\ x \in Below(y) /\ x \notin Below(x)
    BY <1>4
  <2>2. IsFiniteSet(Below(y))
    BY FS_Subset
  <2> HIDE DEF Below
  <2>3. /\ IsFiniteSet(Below(x)) /\ Cardinality(Below(x)) <= Cardinality(Below(y))
        /\ (Cardinality(Below(y)) = Cardinality(Below(x)) => Below(y) = Below(x))
    BY <2>1, <2>2, FS_Subset
  <2>4. Cardinality(Below(x)) \in Nat /\ Cardinality(Below(y)) \in Nat
    BY <2>2, <2>3, FS_CardinalityType
  <2>5. Cardinality(Below(y)) # Cardinality(Below(x))
    BY <2>1, <2>3
  <2>. QED  BY <2>3, <2>4, <2>5 DEF Rank, Below
<1>5. ASSUME NEW x \in S, NEW y \in S
      PROVE  /\ v[x] < v[y] <=> Rank(S, v, x) < Rank(S, v, y)
             /\ Rank(S, v, x) = Rank(S, v, y) => x = y
  <2>1. v[x] \in Nat /\ v[y] \in Nat
    OBVIOUS
  <2>2. Rank(S, v, x) \in Int /\ Rank(S, v, y) \in Int
    BY <1>1, <1>3
  <2>3. CASE v[x] < v[y]
    BY <1>4, <2>1, <2>2, <2>3
  <2>4. CASE v[y] < v[x]
    BY <1>4, <2>1, <2>2, <2>4
  <2>5. CASE v[x] = v[y]
    BY <2>2, <2>5
  <2>. QED  BY <2>1, <2>3, <2>4, <2>5
<1>6. f \in [S -> 0..(n - 1)] /\ \A x, y \in S : f[x] = f[y] => x = y
  BY <1>3, <1>5
<1>7. f \in Injection(S, 0..(n - 1))
  <2> HIDE DEF f, n
  <2>. QED  BY <1>6, Zenon DEF Injection, IsInjective
<1>8. IsFiniteSet(0..(n - 1)) /\ Cardinality(0..(n - 1)) = n
  BY <1>1, FS_Interval
<1>9. f \in Surjection(S, 0..(n - 1))
  <2> HIDE DEF f
  <2>. QED  BY <1>7, <1>8, FS_Injection
<1>10. \A k \in 0..(n - 1) : \E x \in S : f[x] = k
  <2> HIDE DEF f, n
  <2>. QED  BY <1>9, Zenon DEF Surjection
<1>. QED  BY <1>3, <1>5, <1>10

\* As many members have their rank in an interval as it has numbers.
LEMMA RanksInInterval ==
  ASSUME NEW S, IsFiniteSet(S), NEW v \in [S -> Nat],
         \A x, y \in S : v[x] = v[y] => x = y,
         NEW a \in Nat, NEW b \in Int, a <= b + 1, b < Cardinality(S)
  PROVE  Cardinality({x \in S : a <= Rank(S, v, x) /\ Rank(S, v, x) <= b}) = b - a + 1
<1> DEFINE n == Cardinality(S)
           r == [x \in S |-> Rank(S, v, x)]
           A == {x \in S : a <= r[x] /\ r[x] <= b}
           f == [x \in A |-> r[x]]
<1>1. n \in Nat
  BY FS_CardinalityType
<1>2. /\ r \in [S -> 0..(n - 1)]
      /\ \A x, y \in S : v[x] < v[y] <=> r[x] < r[y]
      /\ \A k \in 0..(n - 1) : \E x \in S : r[x] = k
  BY Ranks
<1>3. A = {x \in S : a <= Rank(S, v, x) /\ Rank(S, v, x) <= b}
  OBVIOUS
<1>4. \A x, y \in S : r[x] = r[y] => x = y
  <2>. SUFFICES ASSUME NEW x \in S, NEW y \in S, r[x] = r[y] PROVE x = y
    OBVIOUS
  <2> HIDE DEF r, n
  <2>1. v[x] \in Nat /\ v[y] \in Nat /\ r[x] \in Int
    BY <1>2
  <2>2. ~ (v[x] < v[y]) /\ ~ (v[y] < v[x])
    BY <1>2, <2>1
  <2>3. v[x] = v[y]
    BY <2>1, <2>2
  <2>. QED  BY <2>3
<1>5. A \subseteq S /\ IsFiniteSet(A)
  BY FS_Subset
<1> HIDE DEF r
<1>6. f \in [A -> a..b] /\ \A x, y \in A : f[x] = f[y] => x = y
  <2>1. ASSUME NEW x \in A PROVE r[x] \in a..b
    <3>1. r[x] \in 0..(n - 1) /\ a <= r[x] /\ r[x] <= b
      BY <1>2
    <3>. QED  BY <1>1, <3>1
  <2>. QED  BY <1>4, <1>5, <2>1
<1>7. \A k \in a..b : \E x \in A : f[x] = k
  <2>. SUFFICES ASSUME NEW k \in a..b PROVE \E x \in A : f[x] = k
    OBVIOUS
  <2>1. k \in 0..(n - 1)
    BY <1>1
  <2>2. PICK x \in S : r[x] = k
    BY <1>2, <2>1
  <2>. QED  BY <2>2
<1>8. ExistsBijection(A, a..b)
  <2>1. f \in Injection(A, a..b)
    <3> HIDE DEF A, f
    <3>. QED  BY <1>6, Zenon DEF Injection, IsInjective
  <2>2. f \in Surjection(A, a..b)
    <3> HIDE DEF A, f
    <3>. QED  BY <1>6, <1>7, Zenon DEF Surjection
  <2> HIDE DEF A, f
  <2>. QED  BY <2>1, <2>2 DEF ExistsBijection, Bijection
<1>9. Cardinality(a..b) = Cardinality(A)
  <2> HIDE DEF A
  <2>. QED  BY <1>5, <1>8, FS_Bijection
<1>10. Cardinality(a..b) = b - a + 1
  <2>1. Cardinality(a..b) = IF a > b THEN 0 ELSE b - a + 1
    <3>1. a \in Int /\ b \in Int
      OBVIOUS
    <3>. QED  BY <3>1, FS_Interval, Zenon
  <2>. QED  BY <2>1
<1>. QED  BY <1>3, <1>9, <1>10
=============================================================================
