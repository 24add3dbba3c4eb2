----------------------------- MODULE DataLemmas -----------------------------
(***************************************************************************)
(* Facts the proofs of several components need about integers, about the   *)
(* greatest and the least of a finite set and about sums: those of the     *)
(* values of a function over a finite set, the fold of the community       *)
(* modules.                                                                *)
(*                                                                         *)
(* A fold is a recursive function over the subsets of the set.  The        *)
(* induction is on those subsets: a set of them that holds each one whose  *)
(* proper subsets it holds has them all (SubsetInduction), which WFMin     *)
(* gives as a statement about sets.                                        *)
(***************************************************************************)
EXTENDS Integers, FiniteSets, Functions, FiniteSetsExt, FiniteSetTheorems,
        WellFoundedInduction, TLAPS

-----------------------------------------------------------------------------
(* Division.                                                               *)
LEMMA Distribute ==
  \A i, j, m \in Int :
    /\ (i + j) * m = i * m + j * m /\ (i - j) * m = i * m - j * m
    /\ m * (i + j) = i * m + j * m /\ m * (i - j) = i * m - j * m
    /\ i * m = m * i /\ i * m \in Int
  OBVIOUS

LEMMA ModIs ==
  ASSUME NEW x \in Int, NEW m \in Nat \ {0}
  PROVE  \E k \in Int, r \in 0..(m - 1) : x = k * m + r /\ x % m = r
<1>1. x = (x \div m) * m + (x % m) /\ x \div m \in Int /\ x % m \in 0..(m-1)
  OBVIOUS
<1> QED
  BY <1>1

LEMMA ModUnique ==
  ASSUME NEW x \in Int, NEW m \in Nat \ {0}, NEW k \in Int, NEW r \in 0..(m-1), x = k * m + r
  PROVE  x % m = r
<1>1. PICK j \in Int, s \in 0..(m - 1) : x = j * m + s /\ x % m = s
  BY ModIs
<1>2. (j - k) * m = j * m - k * m
  BY Distribute
<1>3. (j - k) * m = r - s
  BY <1>1, <1>2
<1>4. CASE j - k >= 1
  <2>1. (j - k) * m >= m
    BY <1>4
  <2> QED
  BY <2>1, <1>3
<1>5. CASE j - k <= -1
  <2>1. (j - k) * m <= -m
    BY <1>5
  <2> QED
  BY <2>1, <1>3
<1>6. CASE j = k
  BY <1>6, <1>1
<1> QED
  BY <1>4, <1>5, <1>6

LEMMA ModShift ==
  ASSUME NEW x \in Int, NEW m \in Nat \ {0}, NEW d \in Nat, (x % m) + d < m
  PROVE  (x + d) % m = (x % m) + d
<1>1. PICK k \in Int, r \in 0..(m - 1) : x = k * m + r /\ x % m = r
  BY ModIs
<1>2. x + d \in Int /\ r + d \in 0..(m - 1) /\ x + d = k * m + (r + d)
  BY <1>1
<1>3. (x + d) % m = r + d
  BY <1>2, ModUnique
<1> QED
  BY <1>1, <1>3

\* What was taken modulo m before may be taken again.
LEMMA ModMinus ==
  ASSUME NEW x \in Int, NEW m \in Nat \ {0}, NEW y \in Int
  PROVE  ((x % m) - y) % m = (x - y) % m
<1>1. PICK k \in Int, r \in 0..(m - 1) : x = k * m + r /\ x % m = r
  BY ModIs
<1>2. x - y \in Int
  OBVIOUS
<1>3. PICK j \in Int, s \in 0..(m - 1) : x - y = j * m + s /\ (x - y) % m = s
  BY <1>2, ModIs
<1>4. (j - k) * m = j * m - k * m
  BY Distribute
<1>5. r - y \in Int /\ j - k \in Int /\ r - y = (j - k) * m + s
  BY <1>1, <1>3, <1>4
<1>6. (r - y) % m = s
  BY <1>5, ModUnique
<1> QED
  BY <1>1, <1>3, <1>6
LEMMA DivFloor ==
  ASSUME NEW x \in Int, NEW m \in Nat \ {0}
  PROVE  x \div m \in Int /\ (x \div m) * m <= x /\ x < (x \div m) * m + m /\ (x >= 0 => x \div m \in Nat)
  OBVIOUS

-----------------------------------------------------------------------------
(* Induction.                                                              *)
\* Induction over the subsets of a finite set: T is the set of those the
\* statement holds of.
LEMMA SubsetInduction ==
  ASSUME NEW S, IsFiniteSet(S), NEW T,
         \A s \in SUBSET S : (\A u \in SUBSET s : u # s => u \in T) => s \in T
  PROVE  \A s \in SUBSET S : s \in T
<1> DEFINE Rest == {s \in SUBSET S : s \notin T}
<1>1. IsWellFoundedOn(StrictSubsetOrdering(S), SUBSET S)
  BY FS_StrictSubsetOrderingWellFounded, FS_FiniteSubsetsOfFinite
<1>2. SUFFICES ASSUME Rest # {} PROVE FALSE
  OBVIOUS
<1>3. Rest \subseteq SUBSET S
  OBVIOUS
<1> HIDE DEF Rest
<1>4. PICK s \in Rest : \A u \in Rest : <<u, s>> \notin StrictSubsetOrdering(S)
  BY <1>1, <1>2, <1>3, WFMin
<1>5. \A u \in SUBSET s : u # s => u \in T
  BY <1>4, <1>3 DEF Rest, StrictSubsetOrdering
<1> QED
  BY <1>4, <1>5 DEF Rest

\* A set of natural numbers has a least one.
LEMMA LeastExists ==
  ASSUME NEW S \in SUBSET Nat, S # {}
  PROVE  \E x \in S : \A y \in S : x <= y
<1> DEFINE R == OpToRel(<, Nat)
<1>1. IsWellFoundedOn(R, Nat)
  BY NatLessThanWellFounded, Zenon
<1>2. \A x, y \in Nat : y < x => <<y, x>> \in R
  BY DEF OpToRel
<1> HIDE DEF R
<1>3. PICK x \in S : \A y \in S : ~ (<<y, x>> \in R)
  BY <1>1, WFMin
<1>4. \A y \in S : x <= y
  <2> SUFFICES ASSUME NEW y \in S PROVE ~ (y < x)
    OBVIOUS
  <2> QED
    BY <1>2, <1>3
<1> QED
  BY <1>4

\* Induction up to N, over a set of natural numbers.
LEMMA InductionUpTo ==
  ASSUME NEW N \in Nat, NEW S \in SUBSET Nat, 0 \in S,
         \A n \in S : n < N => n + 1 \in S
  PROVE  0..N \subseteq S
<1> SUFFICES ASSUME (0..N) \ S # {} PROVE FALSE
  OBVIOUS
<1>1. (0..N) \ S \in SUBSET Nat
  OBVIOUS
<1>2. PICK m \in (0..N) \ S : \A y \in (0..N) \ S : m <= y
  BY <1>1, LeastExists
<1>3. m # 0 /\ m - 1 \in 0..N /\ m - 1 < N /\ ~(m <= m - 1)
  BY <1>2
<1>4. m - 1 \in S
  BY <1>2, <1>3
<1>5. (m - 1) + 1 \in S
  BY <1>3, <1>4
<1> QED
  BY <1>2, <1>5

LEMMA LeastIs ==
  ASSUME NEW S \in SUBSET Nat, NEW x \in S, \A y \in S : x <= y
  PROVE  Min(S) = x
<1>1. Min(S) \in S /\ \A y \in S : Min(S) <= y
  BY DEF Min
<1> DEFINE m == Min(S)
<1> HIDE DEF m
<1>2. m \in S /\ \A y \in S : m <= y
  BY <1>1 DEF m
<1>3. m \in Nat /\ x \in Nat /\ x <= m /\ m <= x
  BY <1>2
<1> QED
  BY <1>3 DEF m

-----------------------------------------------------------------------------
(* The greatest and the least of a finite set of integers.                 *)
LEMMA MaxIn ==
  ASSUME NEW S, S \subseteq Int, IsFiniteSet(S), S # {}
  PROVE  Max(S) \in S /\ \A y \in S : y <= Max(S)
<1> DEFINE T == {s \in SUBSET S : s # {} => \E x \in s : \A y \in s : x >= y}
<1>1. ASSUME NEW s \in SUBSET S, \A u \in SUBSET s : u # s => u \in T PROVE s \in T
  <2> SUFFICES ASSUME s # {} PROVE \E x \in s : \A y \in s : x >= y
    OBVIOUS
  <2>1. PICK a \in s : TRUE
    OBVIOUS
  <2>2. CASE s \ {a} = {}
    BY <2>1, <2>2
  <2>3. CASE s \ {a} # {}
    <3>0. s \ {a} \in T
      BY <1>1, <2>1
    <3>1. PICK b \in s \ {a} : \A y \in s \ {a} : b >= y
      BY <2>3, <3>0
    <3>2. \A y \in s : y \in Int
      OBVIOUS
    <3>3. CASE a >= b
      BY <2>1, <3>1, <3>2, <3>3
    <3>4. CASE b >= a
      BY <2>1, <3>1, <3>2, <3>4
    <3> QED
      BY <2>1, <3>1, <3>2, <3>3, <3>4
  <2> QED
    BY <2>2, <2>3
<1> HIDE DEF T
<1>2. S \in T
  BY <1>1, SubsetInduction
<1>3. \E x \in S : \A y \in S : x >= y
  BY <1>2 DEF T
<1>4. Max(S) \in S /\ \A y \in S : Max(S) >= y
  BY <1>3 DEF Max
<1> QED
  BY <1>4

LEMMA MinIn ==
  ASSUME NEW S, S \subseteq Int, IsFiniteSet(S), S # {}
  PROVE  Min(S) \in S /\ \A y \in S : Min(S) <= y
<1> DEFINE T == {s \in SUBSET S : s # {} => \E x \in s : \A y \in s : x <= y}
<1>1. ASSUME NEW s \in SUBSET S, \A u \in SUBSET s : u # s => u \in T PROVE s \in T
  <2> SUFFICES ASSUME s # {} PROVE \E x \in s : \A y \in s : x <= y
    OBVIOUS
  <2>1. PICK a \in s : TRUE
    OBVIOUS
  <2>2. CASE s \ {a} = {}
    BY <2>1, <2>2
  <2>3. CASE s \ {a} # {}
    <3>0. s \ {a} \in T
      BY <1>1, <2>1
    <3>1. PICK b \in s \ {a} : \A y \in s \ {a} : b <= y
      BY <2>3, <3>0
    <3>2. \A y \in s : y \in Int
      OBVIOUS
    <3>3. CASE a <= b
      BY <2>1, <3>1, <3>2, <3>3
    <3>4. CASE b <= a
      BY <2>1, <3>1, <3>2, <3>4
    <3> QED
      BY <2>1, <3>1, <3>2, <3>3, <3>4
  <2> QED
    BY <2>2, <2>3
<1> HIDE DEF T
<1>2. S \in T
  BY <1>1, SubsetInduction
<1>3. \E x \in S : \A y \in S : x <= y
  BY <1>2 DEF T
<1> QED
  BY <1>3 DEF Min

-----------------------------------------------------------------------------
(* The recursive function behind a sum.                                    *)
Pick(s) == CHOOSE x \in s : TRUE
Unfolded(f, g, s) == IF s = {} THEN 0 ELSE f[Pick(s)] + g[s \ {Pick(s)}]
IsSum(f, S, g) == g = [s \in SUBSET S |-> Unfolded(f, g, s)]

LEMMA PickIn == \A s : s # {} => Pick(s) \in s /\ s \ {Pick(s)} \subseteq s /\ s \ {Pick(s)} # s
  BY DEF Pick

LEMMA SumRestricts ==
  ASSUME NEW f, NEW S, NEW g, IsSum(f, S, g), NEW U, U \subseteq S
  PROVE  IsSum(f, U, [s \in SUBSET U |-> g[s]])
<1> DEFINE h == [s \in SUBSET U |-> g[s]]
<1>1. ASSUME NEW s \in SUBSET U PROVE g[s] = Unfolded(f, h, s)
  <2>1. g[s] = Unfolded(f, g, s)
    BY DEF IsSum
  <2>2. CASE s = {}
    BY <2>1, <2>2 DEF Unfolded
  <2>3. CASE s # {}
    <3>1. s \ {Pick(s)} \in SUBSET U
      OBVIOUS
    <3>2. h[s \ {Pick(s)}] = g[s \ {Pick(s)}]
      BY <3>1
    <3> HIDE DEF h
    <3> QED
      BY <2>1, <2>3, <3>2 DEF Unfolded
  <2> QED
    BY <2>2, <2>3
<1> HIDE DEF h
<1>2. h = [s \in SUBSET U |-> Unfolded(f, h, s)]
  <2>1. h = [s \in SUBSET U |-> g[s]]
    BY DEF h
  <2> QED
    BY <1>1, <2>1
<1> QED
  BY <1>2 DEF IsSum, h

LEMMA SumUnique ==
  ASSUME NEW f, NEW S, IsFiniteSet(S), NEW g, NEW h, IsSum(f, S, g), IsSum(f, S, h)
  PROVE  g = h
<1> DEFINE T == {s \in SUBSET S : g[s] = h[s]}
<1>1. ASSUME NEW s \in SUBSET S, \A u \in SUBSET s : u # s => u \in T PROVE s \in T
  <2>1. g[s] = Unfolded(f, g, s) /\ h[s] = Unfolded(f, h, s)
    BY DEF IsSum
  <2>2. CASE s = {}
    BY <2>1, <2>2 DEF Unfolded
  <2>3. CASE s # {}
    <3>1. s \ {Pick(s)} \in T
      BY <1>1, <2>3, PickIn
    <3> QED
      BY <2>1, <2>3, <3>1 DEF Unfolded
  <2> QED
    BY <2>2, <2>3
<1> HIDE DEF T
<1>2. \A s \in SUBSET S : s \in T
  BY <1>1, SubsetInduction
<1>3. \A s \in SUBSET S : g[s] = h[s]
  BY <1>2 DEF T
<1>4. g = [s \in SUBSET S |-> g[s]] /\ h = [s \in SUBSET S |-> h[s]]
  BY DEF IsSum
<1> QED
  BY <1>3, <1>4

LEMMA SumExists ==
  ASSUME NEW f, NEW S, IsFiniteSet(S)
  PROVE  \E g : IsSum(f, S, g)
<1> DEFINE T == {s \in SUBSET S : \E g : IsSum(f, s, g)}
<1>1. ASSUME NEW s \in SUBSET S, \A u \in SUBSET s : u # s => u \in T PROVE s \in T
  <2> DEFINE part(u) == CHOOSE g : IsSum(f, u, g)
             value(u) == part(u)[u]
             rest == s \ {Pick(s)}
             whole == [u \in SUBSET s |->
                         IF u = s THEN IF s = {} THEN 0 ELSE f[Pick(s)] + value(rest)
                                  ELSE value(u)]
  <2>1. \A u \in SUBSET s : u # s => IsSum(f, u, part(u))
    BY <1>1
  <2>2. ASSUME NEW u \in SUBSET s, u # s, u # {}
        PROVE  value(u) = f[Pick(u)] + value(u \ {Pick(u)})
    <3> DEFINE v == u \ {Pick(u)}
    <3>0. v \subseteq u /\ v # u /\ v \in SUBSET s /\ v # s
      BY <2>2, PickIn
    <3>1. IsSum(f, u, part(u)) /\ IsSum(f, v, part(v))
      BY <2>1, <2>2, <3>0
    <3> HIDE DEF part, v
    <3>2. part(u)[u] = f[Pick(u)] + part(u)[v]
      BY <3>1, <2>2 DEF IsSum, Unfolded, v
    <3>3. IsSum(f, v, [t \in SUBSET v |-> part(u)[t]])
      BY <3>0, <3>1, SumRestricts
    <3>4. IsFiniteSet(v)
      BY <3>0, FS_Subset
    <3>5. part(v) = [t \in SUBSET v |-> part(u)[t]]
      BY <3>1, <3>3, <3>4, SumUnique
    <3>6. part(v)[v] = part(u)[v]
      BY <3>5
    <3> QED
      BY <3>2, <3>6 DEF v
  <2>3. ASSUME NEW u \in SUBSET s, u # s, u = {} PROVE value(u) = 0
    <3>1. IsSum(f, u, part(u))
      BY <2>1, <2>3
    <3> HIDE DEF part
    <3> QED
      BY <3>1, <2>3 DEF IsSum, Unfolded
  <2> HIDE DEF part
  <2>4. ASSUME NEW u \in SUBSET s PROVE whole[u] = Unfolded(f, whole, u)
    <3>1. CASE u = s
      <4>1. CASE s = {}
        BY <3>1, <4>1 DEF Unfolded
      <4>2. CASE s # {}
        <5>1. rest \in SUBSET s /\ rest # s
          BY <4>2, PickIn
        <5>2. whole[rest] = value(rest)
          BY <5>1
        <5>3. whole[u] = f[Pick(s)] + value(rest)
          BY <3>1, <4>2
        <5> HIDE DEF whole
        <5> QED
          BY <3>1, <4>2, <5>2, <5>3 DEF Unfolded
      <4> QED
        BY <4>1, <4>2
    <3>2. CASE u # s
      <4>1. whole[u] = value(u)
        BY <3>2
      <4>2. CASE u = {}
        <5> HIDE DEF whole
        <5> QED
          BY <2>3, <3>2, <4>1, <4>2 DEF Unfolded
      <4>3. CASE u # {}
        <5>1. u \ {Pick(u)} \in SUBSET s /\ u \ {Pick(u)} # s
          BY <3>2, <4>3, PickIn
        <5>2. whole[u \ {Pick(u)}] = value(u \ {Pick(u)})
          BY <5>1
        <5> HIDE DEF whole
        <5> QED
          BY <2>2, <3>2, <4>1, <4>3, <5>2 DEF Unfolded
      <4> QED
        BY <4>2, <4>3
    <3> QED
      BY <3>1, <3>2
  <2>5. \E F : whole = [u \in SUBSET s |-> F[u]]
    <3>1. whole = [u \in SUBSET s |-> whole[u]]
      OBVIOUS
    <3> QED
      BY <3>1
  <2> HIDE DEF whole
  <2>6. whole = [u \in SUBSET s |-> Unfolded(f, whole, u)]
    BY <2>4, <2>5
  <2>7. IsSum(f, s, whole)
    BY <2>6 DEF IsSum
  <2> QED
    BY <2>7
<1> HIDE DEF T
<1>2. S \in T
  BY <1>1, SubsetInduction
<1> QED
  BY <1>2 DEF T

-----------------------------------------------------------------------------
(* Sums.                                                                   *)
LEMMA SumIs ==
  ASSUME NEW f, NEW S, IsFiniteSet(S), NEW g, IsSum(f, S, g)
  PROVE  SumFunctionOnSet(f, S) = g[S]
<1>1. g = CHOOSE h : IsSum(f, S, h)
  BY SumUnique
<1> QED
  BY <1>1 DEF SumFunctionOnSet, FoldFunctionOnSet, MapThenFoldSet, IsSum, Unfolded, Pick

LEMMA SumOfNone == ASSUME NEW f PROVE SumFunctionOnSet(f, {}) = 0
<1>1. IsFiniteSet({})
  BY FS_EmptySet
<1>2. PICK g : IsSum(f, {}, g)
  BY <1>1, SumExists
<1>3. g[{}] = Unfolded(f, g, {})
  BY <1>2 DEF IsSum
<1>4. Unfolded(f, g, {}) = 0
  BY DEF Unfolded
<1>5. SumFunctionOnSet(f, {}) = g[{}]
  BY <1>1, <1>2, SumIs
<1> QED
  BY <1>3, <1>4, <1>5

LEMMA SumUnfolds ==
  ASSUME NEW f, NEW S, IsFiniteSet(S), S # {}
  PROVE  SumFunctionOnSet(f, S) = f[Pick(S)] + SumFunctionOnSet(f, S \ {Pick(S)})
<1> DEFINE v == S \ {Pick(S)}
<1>1. PICK g : IsSum(f, S, g)
  BY SumExists
<1>2. v \subseteq S /\ IsFiniteSet(v)
  BY PickIn, FS_Subset
<1> HIDE DEF v
<1>3. IsSum(f, v, [s \in SUBSET v |-> g[s]])
  BY <1>1, <1>2, SumRestricts
<1>4. SumFunctionOnSet(f, v) = [s \in SUBSET v |-> g[s]][v]
  BY <1>2, <1>3, SumIs
<1>5. SumFunctionOnSet(f, S) = g[S]
  BY <1>1, SumIs
<1>6. g[S] = f[Pick(S)] + g[v]
  BY <1>1 DEF IsSum, Unfolded, v
<1> QED
  BY <1>4, <1>5, <1>6 DEF v

LEMMA SumType ==
  ASSUME NEW f, NEW S, IsFiniteSet(S), \A x \in S : f[x] \in Int
  PROVE  SumFunctionOnSet(f, S) \in Int
<1> DEFINE T == {s \in SUBSET S : SumFunctionOnSet(f, s) \in Int}
<1>1. ASSUME NEW s \in SUBSET S, \A u \in SUBSET s : u # s => u \in T PROVE s \in T
  <2>1. CASE s = {}
    BY <2>1, SumOfNone
  <2>2. CASE s # {}
    <3>1. Pick(s) \in s /\ s \ {Pick(s)} \in T
      BY <1>1, <2>2, PickIn
    <3>2. IsFiniteSet(s)
      BY FS_Subset
    <3> QED
      BY <2>2, <3>1, <3>2, SumUnfolds
  <2> QED
    BY <2>1, <2>2
<1> HIDE DEF T
<1>2. S \in T
  BY <1>1, SubsetInduction
<1> QED
  BY <1>2 DEF T

\* Any element may be taken out first.
LEMMA SumRemove ==
  ASSUME NEW f, NEW S, IsFiniteSet(S), \A x \in S : f[x] \in Int
  PROVE  \A x \in S : SumFunctionOnSet(f, S) = f[x] + SumFunctionOnSet(f, S \ {x})
<1> DEFINE T == {s \in SUBSET S : \A x \in s :
                   SumFunctionOnSet(f, s) = f[x] + SumFunctionOnSet(f, s \ {x})}
<1>1. ASSUME NEW s \in SUBSET S, \A u \in SUBSET s : u # s => u \in T PROVE s \in T
  <2> SUFFICES ASSUME NEW x \in s
               PROVE  SumFunctionOnSet(f, s) = f[x] + SumFunctionOnSet(f, s \ {x})
    OBVIOUS
  <2> DEFINE y == Pick(s)
  <2>1. y \in s /\ IsFiniteSet(s) /\ IsFiniteSet(s \ {y}) /\ IsFiniteSet(s \ {x})
           /\ IsFiniteSet((s \ {x}) \ {y})
    BY PickIn, FS_Subset
  <2>2. SumFunctionOnSet(f, s) = f[y] + SumFunctionOnSet(f, s \ {y})
    BY <2>1, SumUnfolds
  <2>3. CASE x = y
    BY <2>2, <2>3
  <2>4. CASE x # y
    <3> HIDE DEF y
    <3>1. s \ {y} \in T /\ s \ {x} \in T
      BY <1>1, <2>1
    <3>2. SumFunctionOnSet(f, s \ {y}) = f[x] + SumFunctionOnSet(f, (s \ {y}) \ {x})
      BY <3>1, <2>1, <2>4
    <3>3. SumFunctionOnSet(f, s \ {x}) = f[y] + SumFunctionOnSet(f, (s \ {x}) \ {y})
      BY <3>1, <2>1, <2>4
    <3>4. (s \ {x}) \ {y} = (s \ {y}) \ {x}
      OBVIOUS
    <3>5. SumFunctionOnSet(f, (s \ {x}) \ {y}) \in Int
      BY <2>1, SumType
    <3>6. f[x] \in Int /\ f[y] \in Int
      BY <2>1
    <3>7. SumFunctionOnSet(f, (s \ {y}) \ {x}) = SumFunctionOnSet(f, (s \ {x}) \ {y})
      BY <3>4
    <3>8. \A a, b, c, d, p, q : /\ p \in Int /\ q \in Int /\ d \in Int
                               /\ a = q + b /\ b = p + d /\ c = q + d => a = p + c
      OBVIOUS
    <3> QED
      BY <2>2, <3>2, <3>3, <3>5, <3>6, <3>7, <3>8
  <2> QED
    BY <2>3, <2>4
<1> HIDE DEF T
<1>2. S \in T
  BY <1>1, SubsetInduction
<1> QED
  BY <1>2 DEF T

LEMMA SumSame ==
  ASSUME NEW f, NEW g, NEW S, IsFiniteSet(S), \A x \in S : f[x] = g[x]
  PROVE  SumFunctionOnSet(f, S) = SumFunctionOnSet(g, S)
<1> DEFINE T == {s \in SUBSET S : SumFunctionOnSet(f, s) = SumFunctionOnSet(g, s)}
<1>1. ASSUME NEW s \in SUBSET S, \A u \in SUBSET s : u # s => u \in T PROVE s \in T
  <2>1. CASE s = {}
    BY <2>1, SumOfNone
  <2>2. CASE s # {}
    <3>1. Pick(s) \in s /\ s \ {Pick(s)} \in T
      BY <1>1, <2>2, PickIn
    <3>2. IsFiniteSet(s)
      BY FS_Subset
    <3> QED
      BY <2>2, <3>1, <3>2, SumUnfolds
  <2> QED
    BY <2>1, <2>2
<1> HIDE DEF T
<1>2. S \in T
  BY <1>1, SubsetInduction
<1> QED
  BY <1>2 DEF T

\* Sums are no less than sums of lesser values.
LEMMA SumMonotone ==
  ASSUME NEW f, NEW g, NEW S, IsFiniteSet(S),
         \A x \in S : f[x] \in Int /\ g[x] \in Int /\ f[x] <= g[x]
  PROVE  SumFunctionOnSet(f, S) <= SumFunctionOnSet(g, S)
<1> DEFINE T == {s \in SUBSET S : SumFunctionOnSet(f, s) <= SumFunctionOnSet(g, s)}
<1>1. ASSUME NEW s \in SUBSET S, \A u \in SUBSET s : u # s => u \in T PROVE s \in T
  <2>1. CASE s = {}
    BY <2>1, SumOfNone
  <2>2. CASE s # {}
    <3> DEFINE x == Pick(s)
    <3>1. x \in s /\ s \ {x} \in T
      BY <1>1, <2>2, PickIn
    <3>2. IsFiniteSet(s) /\ IsFiniteSet(s \ {x})
      BY FS_Subset
    <3>3. /\ SumFunctionOnSet(f, s) = f[x] + SumFunctionOnSet(f, s \ {x})
          /\ SumFunctionOnSet(g, s) = g[x] + SumFunctionOnSet(g, s \ {x})
      BY <2>2, <3>2, SumUnfolds
    <3>4. SumFunctionOnSet(f, s \ {x}) \in Int /\ SumFunctionOnSet(g, s \ {x}) \in Int
      BY <3>2, SumType
    <3>5. f[x] \in Int /\ g[x] \in Int /\ f[x] <= g[x]
      BY <3>1
    <3> HIDE DEF x
    <3> QED
      BY <3>1, <3>3, <3>4, <3>5
  <2> QED
    BY <2>1, <2>2
<1> HIDE DEF T
<1>2. S \in T
  BY <1>1, SubsetInduction
<1> QED
  BY <1>2 DEF T

\* A sum of sums, taken in one or apart.
LEMMA SumPlus ==
  ASSUME NEW f, NEW g, NEW h, NEW S, IsFiniteSet(S),
         \A x \in S : f[x] \in Int /\ g[x] \in Int /\ h[x] = f[x] + g[x]
  PROVE  SumFunctionOnSet(h, S) = SumFunctionOnSet(f, S) + SumFunctionOnSet(g, S)
<1> DEFINE T == {s \in SUBSET S : SumFunctionOnSet(h, s)
                   = SumFunctionOnSet(f, s) + SumFunctionOnSet(g, s)}
<1>1. ASSUME NEW s \in SUBSET S, \A u \in SUBSET s : u # s => u \in T PROVE s \in T
  <2>1. CASE s = {}
    BY <2>1, SumOfNone
  <2>2. CASE s # {}
    <3> DEFINE x == Pick(s)
    <3>1. x \in s /\ s \ {x} \in T
      BY <1>1, <2>2, PickIn
    <3>2. IsFiniteSet(s) /\ IsFiniteSet(s \ {x})
      BY FS_Subset
    <3>3. /\ SumFunctionOnSet(f, s) = f[x] + SumFunctionOnSet(f, s \ {x})
          /\ SumFunctionOnSet(g, s) = g[x] + SumFunctionOnSet(g, s \ {x})
          /\ SumFunctionOnSet(h, s) = h[x] + SumFunctionOnSet(h, s \ {x})
      BY <2>2, <3>2, SumUnfolds
    <3>4. SumFunctionOnSet(f, s \ {x}) \in Int /\ SumFunctionOnSet(g, s \ {x}) \in Int
      BY <3>2, SumType
    <3>5. f[x] \in Int /\ g[x] \in Int /\ h[x] = f[x] + g[x]
      BY <3>1
    <3> HIDE DEF x
    <3> QED
      BY <3>1, <3>3, <3>4, <3>5
  <2> QED
    BY <2>1, <2>2
<1> HIDE DEF T
<1>2. S \in T
  BY <1>1, SubsetInduction
<1> QED
  BY <1>2 DEF T

\* Values that differ at one element only.
LEMMA SumChange ==
  ASSUME NEW f, NEW g, NEW S, IsFiniteSet(S), NEW x \in S,
         \A y \in S : f[y] \in Int /\ g[y] \in Int,
         \A y \in S \ {x} : g[y] = f[y]
  PROVE  SumFunctionOnSet(g, S) = SumFunctionOnSet(f, S) + (g[x] - f[x])
<1>1. IsFiniteSet(S \ {x})
  BY FS_Subset
<1>2. /\ SumFunctionOnSet(f, S) = f[x] + SumFunctionOnSet(f, S \ {x})
      /\ SumFunctionOnSet(g, S) = g[x] + SumFunctionOnSet(g, S \ {x})
  BY SumRemove
<1>3. SumFunctionOnSet(g, S \ {x}) = SumFunctionOnSet(f, S \ {x})
  BY <1>1, SumSame
<1>4. SumFunctionOnSet(f, S \ {x}) \in Int
  BY <1>1, SumType
<1> QED
  BY <1>2, <1>3, <1>4

\* A multiple of each value.
LEMMA SumTimes ==
  ASSUME NEW f, NEW h, NEW c \in Int, NEW S, IsFiniteSet(S),
         \A x \in S : f[x] \in Int /\ h[x] = c * f[x]
  PROVE  SumFunctionOnSet(h, S) = c * SumFunctionOnSet(f, S)
<1> DEFINE T == {s \in SUBSET S : SumFunctionOnSet(h, s) = c * SumFunctionOnSet(f, s)}
<1>1. ASSUME NEW s \in SUBSET S, \A u \in SUBSET s : u # s => u \in T PROVE s \in T
  <2>1. CASE s = {}
    BY <2>1, SumOfNone
  <2>2. CASE s # {}
    <3> DEFINE x == Pick(s)
    <3>1. x \in s /\ s \ {x} \in T
      BY <1>1, <2>2, PickIn
    <3>2. IsFiniteSet(s) /\ IsFiniteSet(s \ {x})
      BY FS_Subset
    <3>3. /\ SumFunctionOnSet(f, s) = f[x] + SumFunctionOnSet(f, s \ {x})
          /\ SumFunctionOnSet(h, s) = h[x] + SumFunctionOnSet(h, s \ {x})
      BY <2>2, <3>2, SumUnfolds
    <3>4. SumFunctionOnSet(f, s \ {x}) \in Int
      BY <3>2, SumType
    <3>5. f[x] \in Int /\ h[x] = c * f[x]
      BY <3>1
    <3>6. SumFunctionOnSet(h, s \ {x}) = c * SumFunctionOnSet(f, s \ {x})
      BY <3>1
    <3> HIDE DEF x
    <3>7. c * (f[x] + SumFunctionOnSet(f, s \ {x})) = c * f[x] + c * SumFunctionOnSet(f, s \ {x})
      BY <3>4, <3>5, Distribute
    <3> QED
      BY <3>3, <3>5, <3>6, <3>7
  <2> QED
    BY <2>1, <2>2
<1> HIDE DEF T
<1>2. S \in T
  BY <1>1, SubsetInduction
<1> QED
  BY <1>2 DEF T

LEMMA SumZero ==
  ASSUME NEW f, NEW S, IsFiniteSet(S), \A x \in S : f[x] = 0
  PROVE  SumFunctionOnSet(f, S) = 0
<1>1. SumFunctionOnSet(f, S) = 0 * SumFunctionOnSet(f, S)
  BY SumTimes
<1>2. SumFunctionOnSet(f, S) \in Int
  BY SumType
<1> QED
  BY <1>1, <1>2

\* A sum of naturals is one, and no less than any of them.
LEMMA SumNatural ==
  ASSUME NEW f, NEW S, IsFiniteSet(S), \A x \in S : f[x] \in Nat
  PROVE  /\ SumFunctionOnSet(f, S) \in Nat
         /\ \A x \in S : f[x] <= SumFunctionOnSet(f, S)
<1>1. ASSUME NEW s \in SUBSET S PROVE SumFunctionOnSet(f, s) \in Nat
  <2> DEFINE g == [x \in S |-> 0]
  <2>1. IsFiniteSet(s) /\ \A x \in s : g[x] \in Int /\ f[x] \in Int /\ g[x] <= f[x] /\ g[x] = 0
    BY FS_Subset
  <2> HIDE DEF g
  <2>2. SumFunctionOnSet(g, s) = 0
    BY <2>1, SumZero
  <2>3. SumFunctionOnSet(g, s) <= SumFunctionOnSet(f, s)
    BY <2>1, SumMonotone
  <2>4. SumFunctionOnSet(f, s) \in Int
    BY <2>1, SumType
  <2> QED
    BY <2>2, <2>3, <2>4
<1>2. ASSUME NEW x \in S PROVE f[x] <= SumFunctionOnSet(f, S)
  <2>1. SumFunctionOnSet(f, S) = f[x] + SumFunctionOnSet(f, S \ {x})
    BY SumRemove
  <2>2. SumFunctionOnSet(f, S \ {x}) \in Nat
    BY <1>1
  <2> QED
    BY <2>1, <2>2
<1> QED
  BY <1>1, <1>2
\* As many summands as the set has members, each of at least c.
LEMMA SumAbove ==
  ASSUME NEW f, NEW S, IsFiniteSet(S), NEW c \in Int, \A x \in S : f[x] \in Int /\ f[x] >= c
  PROVE  SumFunctionOnSet(f, S) >= c * Cardinality(S)
<1> DEFINE T == {s \in SUBSET S : SumFunctionOnSet(f, s) >= c * Cardinality(s)}
<1>1. ASSUME NEW s \in SUBSET S, \A u \in SUBSET s : u # s => u \in T PROVE s \in T
  <2>1. CASE s = {}
    <3>1. Cardinality(s) = 0 /\ SumFunctionOnSet(f, s) = 0
      BY <2>1, SumOfNone, FS_EmptySet
    <3> QED
      BY <3>1
  <2>2. CASE s # {}
    <3>1. PICK x \in s : TRUE
      BY <2>2
    <3> DEFINE u == s \ {x}
    <3>2. IsFiniteSet(s) /\ u \in SUBSET s /\ u # s /\ IsFiniteSet(u)
      BY <3>1, FS_Subset
    <3>3. SumFunctionOnSet(f, s) = f[x] + SumFunctionOnSet(f, u)
      BY <3>1, <3>2, SumRemove
    <3>4. SumFunctionOnSet(f, u) >= c * Cardinality(u)
      BY <1>1, <3>2
    <3>5. Cardinality(s) = Cardinality(u) + 1 /\ Cardinality(u) \in Nat
      BY <3>1, <3>2, FS_RemoveElement, FS_CardinalityType
    <3>6. SumFunctionOnSet(f, u) \in Int /\ f[x] \in Int /\ f[x] >= c
      BY <3>1, <3>2, SumType
    <3> DEFINE n == Cardinality(u)
    <3> HIDE DEF n, u
    <3>7. c * (n + 1) = c * n + c /\ c * n \in Int
      <4>1. n \in Int
        BY <3>5 DEF n
      <4> QED
        BY <4>1
    <3>8. SumFunctionOnSet(f, s) >= c * (n + 1)
      BY <3>3, <3>4, <3>6, <3>7 DEF n
    <3> QED
      BY <3>5, <3>8 DEF n
  <2> QED
    BY <2>1, <2>2
<1> HIDE DEF T
<1>2. \A s \in SUBSET S : s \in T
  BY <1>1, SubsetInduction
<1> QED
  BY <1>2 DEF T

=============================================================================
