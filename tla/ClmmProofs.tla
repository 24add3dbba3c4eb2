----------------------------- MODULE ClmmProofs -----------------------------
(***************************************************************************)
(* Proofs about the books of a pool of the concentrated-liquidity program, *)
(* for any ticks, ranges, positions, amounts and fees.                     *)
(***************************************************************************)
EXTENDS ClmmQuote, DataLemmas

-----------------------------------------------------------------------------
(* The inductive invariant.                                                *)

\* What a swap under way goes by stands for what the pool keeps.
Side    == IF swap.zero_for_one THEN 0 ELSE 1
Tick    == IF swap.on THEN swap.tick ELSE pool.tick_current
Price   == IF swap.on THEN swap.price ELSE pool.price
Active  == IF swap.on THEN swap.liquidity ELSE pool.liquidity
Growths == IF swap.on THEN [growth EXCEPT ![Side] = swap.growth] ELSE growth

U128 == 0..(Modulus - 1)
TickStates == [gross : Int, net : Int, outside : [Assets -> Int]]
Protocols  == [liquidity : Nat, inside : [Assets -> U128]]
Personals  == [open : BOOLEAN, range : Ranges, liquidity : Nat,
               last : [Assets -> U128], owed : [Assets -> Nat]]
Swaps == [on : {TRUE}, zero_for_one : BOOLEAN, upper : BOOLEAN, tick : Int, price : Int,
          liquidity : Int, growth : U128, fee_amount : Nat, protocol_fee : Nat,
          reward_fee : Nat, fees_in : Nat, array : Arrays, matched : BOOLEAN,
          filled : BOOLEAN]
Histories == [earned   : [Ranges -> [Assets -> Nat]],
              protocol : [Ranges -> [Assets -> Nat]],
              personal : [Positions -> [Assets -> Nat]]]

\* The types, but for the signs that only the sums of liquidity give.
Shape ==
  /\ pool \in [liquidity : Int, tick_current : Int, price : Int]
  /\ status \subseteq Operations
  /\ growth \in [Assets -> U128]
  /\ total \in [Assets -> Nat]
  /\ claimed \in [Assets -> Nat]
  /\ protocol_fees \in [Tokens -> Nat]
  /\ reward_vault \in Nat
  /\ ticks \in [Ticks -> TickStates]
  /\ count \in [Arrays -> Int]
  /\ bitmap \subseteq Arrays
  /\ protocol \in [Ranges -> Protocols]
  /\ personal \in [Positions -> Personals]
  /\ swap = NoSwap \/ swap \in Swaps
  /\ steps \in 0..MaxSteps
  /\ history \in Histories

\* An account that is not there has nothing in it.
Closed ==
  /\ pool.liquidity >= 0
  /\ \A p \in Positions :
       ~personal[p].open => personal[p].liquidity = 0 /\ personal[p].owed = Zero

\* The counts of the tick arrays and the bits are those of the used ticks.
Tables ==
  \A b \in Arrays : count[b] = Cardinality(InArray(b)) /\ (b \in bitmap <=> count[b] # 0)

\* The tick is that of the price, or the price is where its tick ends.
Place == TickAt(Price) = Tick \/ Price = PriceAt(Tick + 1)

\* Where the search of a swap stands.
Search ==
  swap.on /\ ~swap.filled =>
    IF swap.matched
    THEN \/ swap.array = ArrayOf(Tick)
         \/ swap.zero_for_one /\ swap.array = ArrayOf(Tick + 1)
    ELSE LET ahead == ArraysAhead(swap.zero_for_one, ArrayOf(Tick))
         IN  /\ ArrayOf(Tick) \notin bitmap
             /\ swap.array \in ahead
             /\ \A c \in ahead : IF swap.zero_for_one THEN c <= swap.array
                                                      ELSE c >= swap.array

\* What grew outside a tick is part of what grew.
Bounded == \A t \in Ticks, a \in Assets : ticks[t].outside[a] \in 0..Growths[a]

\* What is taken to have grown below a tick, and so inside a range.
BelowAt(states, g, tick, t, a) ==
  IF tick >= t THEN states[t].outside[a] ELSE g[a] - states[t].outside[a]
Below(t, a) == BelowAt(ticks, Growths, Tick, t, a)
InsideOf(r, a) == Below(r[2], a) - Below(r[1], a)

\* The growth inside a range that has liquidity is off by a constant from
\* what the range has earned; the range and each of its positions took note
\* of both at the same time.
WrappingSub(x, y) == (x - y) % Modulus

Noted ==
  \A r \in Ranges, a \in Assets :
    /\ history.protocol[r][a] <= history.earned[r][a]
    /\ history.earned[r][a] <= Growths[a]
    /\ protocol[r].liquidity > 0 =>
         WrappingSub(InsideOf(r, a), protocol[r].inside[a])
           = history.earned[r][a] - history.protocol[r][a]
Taken ==
  \A p \in Positions, a \in Assets :
    LET r == personal[p].range
    IN  personal[p].liquidity > 0 =>
          /\ history.personal[p][a] <= history.protocol[r][a]
          /\ WrappingSub(InsideOf(r, a), personal[p].last[a])
               = history.earned[r][a] - history.personal[p][a]

\* What a position may claim, in 1/Q of a token and not rounded, and what
\* the books, with those of the swap under way, hold against it.
Claim(p, a) ==
  Q * personal[p].owed[a]
    + (history.earned[personal[p].range][a] - history.personal[p][a]) * personal[p].liquidity
Claims(a) == SumFunction([p \in Positions |-> Claim(p, a)])
Books(a) == total[a] - claimed[a] + (IF swap.on /\ a = Side THEN swap.fee_amount ELSE 0)
Owing == \A a \in Assets : Claims(a) <= Q * Books(a)

ClmmInv ==
  /\ Shape /\ Closed /\ LiquidityIsSum /\ Tables /\ Place /\ Search
  /\ Bounded /\ Noted /\ Taken /\ Owing

-----------------------------------------------------------------------------
(* Ranges, arrays and roundings.                                           *)

\* A range lies between two ticks.
LEMMA RangeTicks ==
  \A r \in Ranges : r[1] \in Ticks /\ r[2] \in Ticks /\ r[1] \in Int /\ r[2] \in Int
                    /\ r[1] < r[2]
  BY ClmmAssumption

\* The tick arrays lie in the order of their ticks.
LEMMA ArraysOrdered ==
  ASSUME NEW t \in Int, NEW u \in Int, t <= u
  PROVE  ArrayOf(t) \in Int /\ ArrayOf(t) <= ArrayOf(u)
<1> DEFINE i == t \div ArraySize
           j == u \div ArraySize
<1>1. ArraySize \in Nat \ {0}
  BY ClmmAssumption
<1>2. i \in Int /\ j \in Int /\ i * ArraySize <= t /\ t < i * ArraySize + ArraySize
        /\ j * ArraySize <= u /\ u < j * ArraySize + ArraySize
  BY <1>1, DivFloor
<1> HIDE DEF i, j
<1>3. i * ArraySize \in Int /\ j * ArraySize \in Int
  BY <1>1, <1>2
<1>4. i * ArraySize <= j * ArraySize
  <2>1. (i - j) * ArraySize = i * ArraySize - j * ArraySize
    BY <1>1, <1>2, Distribute
  <2>2. SUFFICES ASSUME i - j >= 1 PROVE FALSE
    <3>1. CASE i <= j
      BY <3>1, <1>1, <1>2
    <3> QED
      BY <3>1, <1>2, <2>2
  <2>3. (i - j) * ArraySize >= ArraySize
    BY <1>1, <1>2, <2>2
  <2> QED
    BY <1>1, <1>2, <1>3, <2>1, <2>3
<1> QED
  BY <1>3, <1>4 DEF ArrayOf, i, j

\* CeilDiv rounds up.
LEMMA CeilAbove ==
  ASSUME NEW e \in Nat
  PROVE  CeilDiv(e, Q) \in Nat /\ Q * CeilDiv(e, Q) \in Nat /\ Q * CeilDiv(e, Q) >= e
<1> DEFINE c == (e + Q - 1) \div Q
<1>1. Q \in Nat \ {0} /\ e + Q - 1 \in Nat
  BY ClmmAssumption
<1>2. c \in Nat /\ e + Q - 1 < c * Q + Q
  BY <1>1, DivFloor
<1> HIDE DEF c
<1>3. c * Q = Q * c /\ c * Q \in Nat
  BY <1>1, <1>2
<1> QED
  BY <1>1, <1>2, <1>3 DEF CeilDiv, c

\* What an emission adds to the books covers what it adds to the growth,
\* over all of the active liquidity.
LEMMA EmissionCovers ==
  ASSUME pool.liquidity \in Nat, NEW e \in Emissions
  PROVE  /\ Grown(e) \in Nat /\ Emitted(e) \in Nat
         /\ Grown(e) * pool.liquidity <= Q * Emitted(e)
<1> DEFINE L == pool.liquidity
<1>1. e \in Nat /\ Q \in Nat \ {0}
  BY ClmmAssumption
<1>2. CASE L = 0
  BY <1>1, <1>2 DEF Grown, Emitted
<1>3. CASE L # 0
  <2>1. L \in Nat \ {0}
    BY <1>3
  <2>2. e \div L \in Nat /\ (e \div L) * L <= e
    BY <1>1, <2>1, DivFloor
  <2>3. CeilDiv(e, Q) \in Nat /\ Q * CeilDiv(e, Q) \in Nat /\ Q * CeilDiv(e, Q) >= e
    BY <1>1, CeilAbove
  <2>4. Grown(e) = e \div L /\ Emitted(e) = CeilDiv(e, Q)
    BY <1>3 DEF Grown, Emitted
  <2>5. (e \div L) * L \in Nat
    BY <2>1, <2>2
  <2> HIDE DEF L
  <2> QED
    BY <1>1, <2>2, <2>3, <2>4, <2>5 DEF L
<1> QED
  BY <1>2, <1>3

\* And so does the part of a fee that is kept.
LEMMA FeeCovers ==
  ASSUME swap.liquidity \in Nat, NEW kept \in Nat
  PROVE  /\ FeeGrowth(kept) \in Nat
         /\ FeeGrowth(kept) * swap.liquidity <=
              Q * (IF swap.liquidity > 0 THEN kept ELSE 0)
<1> DEFINE L == swap.liquidity
<1>1. Q \in Nat \ {0} /\ kept * Q \in Nat /\ kept * Q = Q * kept
  BY ClmmAssumption
<1>2. CASE L = 0
  BY <1>1, <1>2 DEF FeeGrowth
<1>3. CASE L # 0
  <2>1. L \in Nat \ {0}
    BY <1>3
  <2>2. (kept * Q) \div L \in Nat /\ ((kept * Q) \div L) * L <= kept * Q
    BY <1>1, <2>1, DivFloor
  <2>4. FeeGrowth(kept) = (kept * Q) \div L
    BY <2>1 DEF FeeGrowth
  <2> QED
    BY <1>1, <2>1, <2>2, <2>4
<1> QED
  BY <1>2, <1>3

\* The part set aside is no more than the fee.
LEMMA RewardFeePart ==
  ASSUME NEW fee \in Nat
  PROVE  RewardFee(fee) \in Nat /\ RewardFee(fee) <= fee
  BY DEF RewardFee

-----------------------------------------------------------------------------
(* Sums of liquidity.  The positions are a parameter, so that the facts    *)
(* serve before a step and after it.                                       *)
LiquidityIn(positions, R) ==
  [p \in Positions |-> IF positions[p].range \in R THEN positions[p].liquidity ELSE 0]
Sum(positions, R) == SumFunctionOnSet(LiquidityIn(positions, R), Positions)

LEMMA LiquidityOnSum == \A R : LiquidityOn(R) = Sum(personal, R)
  BY DEF LiquidityOn, SumFunction, Sum, LiquidityIn

\* The liquidity on ranges is a natural number, no less than that of each
\* position on them, and no less with more ranges.
LEMMA LiquidityNatural ==
  ASSUME NEW positions \in [Positions -> Personals], NEW R
  PROVE  /\ \A p \in Positions : LiquidityIn(positions, R)[p] \in Nat
         /\ Sum(positions, R) \in Nat
         /\ \A p \in Positions : positions[p].range \in R =>
              positions[p].liquidity <= Sum(positions, R)
<1> DEFINE f == LiquidityIn(positions, R)
<1>1. \A p \in Positions :
        /\ f[p] \in Nat
        /\ positions[p].range \in R => f[p] = positions[p].liquidity
  BY DEF LiquidityIn, Personals
<1>2. IsFiniteSet(Positions)
  BY ClmmAssumption
<1> HIDE DEF f
<1>3. SumFunctionOnSet(f, Positions) \in Nat
        /\ \A p \in Positions : f[p] <= SumFunctionOnSet(f, Positions)
  BY <1>1, <1>2, SumNatural
<1> QED
  BY <1>1, <1>3 DEF Sum, f

LEMMA LiquidityWithin ==
  ASSUME NEW positions \in [Positions -> Personals], NEW U, NEW R \in SUBSET U
  PROVE  Sum(positions, R) <= Sum(positions, U)
<1> DEFINE f == LiquidityIn(positions, R)
           g == LiquidityIn(positions, U)
<1>1. \A p \in Positions : f[p] \in Int /\ g[p] \in Int /\ f[p] <= g[p]
  BY DEF LiquidityIn, Personals
<1>2. IsFiniteSet(Positions)
  BY ClmmAssumption
<1> HIDE DEF f, g
<1>3. SumFunctionOnSet(f, Positions) <= SumFunctionOnSet(g, Positions)
  BY <1>1, <1>2, SumMonotone
<1> QED
  BY <1>3 DEF Sum, f, g

\* A position that gets liquidity, or gives it up, on the range it is on, or
\* goes to that range without any.
LEMMA LiquidityChange ==
  ASSUME NEW positions \in [Positions -> Personals], NEW p \in Positions,
         NEW q \in Personals,
         q.range = positions[p].range \/ positions[p].liquidity = 0,
         NEW after \in [Positions -> Personals], after[p] = q,
         \A x \in Positions \ {p} : after[x] = positions[x],
         NEW R
  PROVE  Sum(after, R) = Sum(positions, R) + (IF q.range \in R
                                             THEN q.liquidity - positions[p].liquidity ELSE 0)
<1> DEFINE f == LiquidityIn(positions, R)
           g == LiquidityIn(after, R)
<1>2. \A x \in Positions : f[x] \in Int /\ g[x] \in Int
  BY DEF LiquidityIn, Personals
<1>3. \A x \in Positions \ {p} : g[x] = f[x]
  BY DEF LiquidityIn
<1>4. g[p] - f[p] = IF q.range \in R THEN q.liquidity - positions[p].liquidity ELSE 0
  BY DEF LiquidityIn, Personals
<1>5. IsFiniteSet(Positions)
  BY ClmmAssumption
<1> HIDE DEF f, g
<1>6. SumFunctionOnSet(g, Positions) = SumFunctionOnSet(f, Positions) + (g[p] - f[p])
  BY <1>2, <1>3, <1>5, SumChange
<1> QED
  BY <1>4, <1>6 DEF Sum, f, g

\* Two sets of ranges that hold the same positions, so far as they have any
\* liquidity; and two pairs of sets that do.
LEMMA LiquiditySame ==
  ASSUME NEW positions \in [Positions -> Personals], NEW R, NEW U,
         \A p \in Positions : positions[p].liquidity > 0 =>
           (positions[p].range \in R <=> positions[p].range \in U)
  PROVE  Sum(positions, R) = Sum(positions, U)
<1> DEFINE f == LiquidityIn(positions, R)
           g == LiquidityIn(positions, U)
<1>1. \A p \in Positions : f[p] = g[p]
  BY DEF LiquidityIn, Personals
<1>2. IsFiniteSet(Positions)
  BY ClmmAssumption
<1> HIDE DEF f, g
<1>3. SumFunctionOnSet(f, Positions) = SumFunctionOnSet(g, Positions)
  BY <1>1, <1>2, SumSame
<1> QED
  BY <1>3 DEF Sum, f, g

LEMMA LiquidityMoved ==
  ASSUME NEW positions \in [Positions -> Personals], NEW R, NEW S, NEW U, NEW V,
         \A p \in Positions : positions[p].liquidity > 0 =>
           LET r == positions[p].range
           IN  \/ (r \in R <=> r \in U) /\ (r \in S <=> r \in V)
               \/ (r \in R <=> r \in V) /\ (r \in S <=> r \in U)
  PROVE  Sum(positions, R) + Sum(positions, S) = Sum(positions, U) + Sum(positions, V)
<1> DEFINE f(X) == LiquidityIn(positions, X)
           h == [p \in Positions |-> f(R)[p] + f(S)[p]]
<1>1. \A X : \A p \in Positions : f(X)[p] \in Int
  BY DEF LiquidityIn, Personals
<1>2. \A p \in Positions : f(R)[p] + f(S)[p] = f(U)[p] + f(V)[p]
  BY DEF LiquidityIn, Personals
<1>3. IsFiniteSet(Positions)
  BY ClmmAssumption
<1> HIDE DEF f
<1>4. \A p \in Positions : h[p] = f(R)[p] + f(S)[p] /\ h[p] = f(U)[p] + f(V)[p]
  BY <1>2
<1> HIDE DEF h
<1>5. SumFunctionOnSet(h, Positions)
        = SumFunctionOnSet(f(R), Positions) + SumFunctionOnSet(f(S), Positions)
  BY <1>1, <1>3, <1>4, SumPlus
<1>6. SumFunctionOnSet(h, Positions)
        = SumFunctionOnSet(f(U), Positions) + SumFunctionOnSet(f(V), Positions)
  BY <1>1, <1>3, <1>4, SumPlus
<1> QED
  BY <1>5, <1>6 DEF Sum, f

\* Each tick has all the liquidity that refers to it, so the ends of a range
\* with liquidity are used.
EndsAreUsed ==
  /\ \A t \in Ticks : ticks[t].gross \in Nat
  /\ \A r \in Ranges : /\ protocol[r].liquidity <= ticks[r[1]].gross
                       /\ protocol[r].liquidity <= ticks[r[2]].gross
                       /\ protocol[r].liquidity \in Nat
  /\ \A p \in Positions :
       /\ personal[p].range \in Ranges /\ personal[p].liquidity \in Nat
       /\ personal[p].liquidity <= protocol[personal[p].range].liquidity

PositionsTyped == personal \in [Positions -> Personals]

\* The ends of a range with liquidity are used ticks.
LEMMA EndsUsed == PositionsTyped /\ LiquidityIsSum => EndsAreUsed
<1> SUFFICES ASSUME personal \in [Positions -> Personals], LiquidityIsSum
             PROVE  EndsAreUsed
  BY DEF PositionsTyped
<1>1. personal \in [Positions -> Personals]
  OBVIOUS
<1> DEFINE From(t) == {r \in Ranges : r[1] = t}
           To(t) == {r \in Ranges : r[2] = t}
<1>2. \A t \in Ticks : ticks[t].gross = Sum(personal, From(t)) + Sum(personal, To(t))
  BY LiquidityOnSum DEF LiquidityIsSum
<1>3. \A R : Sum(personal, R) \in Nat
  BY <1>1, LiquidityNatural
<1>4. \A r \in Ranges : protocol[r].liquidity = Sum(personal, {r})
  BY LiquidityOnSum DEF LiquidityIsSum
<1>5. ASSUME NEW r \in Ranges
      PROVE  /\ protocol[r].liquidity <= ticks[r[1]].gross
             /\ protocol[r].liquidity <= ticks[r[2]].gross
             /\ protocol[r].liquidity \in Nat
  <2>1. {r} \subseteq From(r[1]) /\ {r} \subseteq To(r[2])
    OBVIOUS
  <2>2. Sum(personal, {r}) <= Sum(personal, From(r[1]))
          /\ Sum(personal, {r}) <= Sum(personal, To(r[2]))
    BY <1>1, <2>1, LiquidityWithin
  <2>3. r[1] \in Ticks /\ r[2] \in Ticks
    BY RangeTicks
  <2>4. Sum(personal, {r}) \in Nat
    BY <1>3
  <2> HIDE DEF From, To
  <2> QED
    BY <1>2, <1>3, <1>4, <2>2, <2>3, <2>4
<1>6. ASSUME NEW p \in Positions
      PROVE  personal[p].range \in Ranges /\ personal[p].liquidity \in Nat
               /\ personal[p].liquidity <= protocol[personal[p].range].liquidity
  <2>1. personal[p].range \in Ranges /\ personal[p].liquidity \in Nat
    BY <1>1 DEF Personals
  <2>2. personal[p].liquidity <= Sum(personal, {personal[p].range})
    BY <1>1, LiquidityNatural
  <2> QED
    BY <2>1, <2>2, <1>4
<1> HIDE DEF From, To
<1> QED
  BY <1>2, <1>3, <1>5, <1>6 DEF EndsAreUsed

-----------------------------------------------------------------------------
(* The search for the next tick.                                           *)

LEMMA NearestIn ==
  ASSUME NEW S, S \subseteq Int, IsFiniteSet(S), S # {}, NEW z \in BOOLEAN
  PROVE  /\ Nearest(S, z) \in S
         /\ \A y \in S : IF z THEN y <= Nearest(S, z) ELSE y >= Nearest(S, z)
<1>1. Max(S) \in S /\ \A y \in S : y <= Max(S)
  BY MaxIn
<1>2. Min(S) \in S /\ \A y \in S : Min(S) <= y
  BY MinIn
<1> QED
  BY <1>1, <1>2 DEF Nearest

\* Ticks and arrays are finitely many integers.
LEMMA Finite ==
  /\ Ticks \subseteq Int /\ IsFiniteSet(Ticks)
  /\ Arrays \subseteq Int /\ IsFiniteSet(Arrays)
<1>1. Ticks \subseteq Int /\ IsFiniteSet(Ticks)
  BY ClmmAssumption
<1>2. Arrays \subseteq Int
  BY <1>1, ArraysOrdered DEF Arrays
<1>3. IsFiniteSet(Arrays)
  <2> DEFINE f == [t \in Ticks |-> ArrayOf(t)]
  <2>1. f \in Surjection(Ticks, Arrays)
    BY DEF Surjection, Arrays
  <2> QED
    BY <1>1, <2>1, FS_Surjection
<1> QED
  BY <1>1, <1>2, <1>3

\* The bit of an array is set when one of its ticks is used.
LEMMA BitIsUsed ==
  ASSUME Tables
  PROVE  /\ \A b \in Arrays : b \in bitmap <=> InArray(b) # {}
         /\ \A t \in Ticks : Initialized(t) =>
              t \in InArray(ArrayOf(t)) /\ ArrayOf(t) \in bitmap
<1>1. ASSUME NEW b \in Arrays PROVE b \in bitmap <=> InArray(b) # {}
  <2>1. IsFiniteSet(InArray(b))
    BY Finite, FS_Subset DEF InArray
  <2>2. Cardinality(InArray(b)) = 0 <=> InArray(b) = {}
    BY <2>1, FS_EmptySet
  <2> QED
    BY <2>2 DEF Tables
<1>2. ASSUME NEW t \in Ticks, Initialized(t)
      PROVE  t \in InArray(ArrayOf(t)) /\ ArrayOf(t) \in Arrays
  BY <1>2 DEF InArray, Arrays
<1> QED
  BY <1>1, <1>2

\* Of two ticks the farther one is not in a nearer array.
LEMMA ArraysApart ==
  ASSUME NEW t \in Int, NEW u \in Int
  PROVE  ArrayOf(t) \in Int /\ ArrayOf(u) \in Int
           /\ (t <= u => ArrayOf(t) <= ArrayOf(u)) /\ (ArrayOf(t) < ArrayOf(u) => t < u)
<1>1. t <= u => ArrayOf(t) <= ArrayOf(u)
  BY ArraysOrdered
<1>2. u <= t => ArrayOf(u) <= ArrayOf(t)
  BY ArraysOrdered
<1>3. ArrayOf(t) \in Int /\ ArrayOf(u) \in Int
  BY ArraysOrdered
<1> QED
  BY <1>1, <1>2, <1>3

\* Used ticks of an array that is the nearest of those whose bit is set come
\* before those of the others.
LEMMA NearestArray ==
  ASSUME Shape, Tables, swap.on, NEW c \in bitmap, NEW z \in BOOLEAN, z = swap.zero_for_one,
         \A u \in Ahead(z, swap.tick) :
           IF z THEN ArrayOf(u) <= c ELSE ArrayOf(u) >= c,
         \A u \in InArray(c) : u \in Ahead(z, swap.tick)
  PROVE  /\ InArray(c) \subseteq Ahead(z, swap.tick)
         /\ \A u \in Ahead(z, swap.tick) : \E v \in InArray(c) : IF z THEN u <= v ELSE v <= u
<1>1. c \in Arrays
  BY DEF Shape
<1>2. PICK w \in InArray(c) : TRUE
  BY <1>1, BitIsUsed
<1>3. w \in Ticks /\ w \in Int /\ ArrayOf(w) = c
  BY <1>2, Finite DEF InArray
<1>4. ASSUME NEW u \in Ahead(z, swap.tick)
      PROVE  \E v \in InArray(c) : IF z THEN u <= v ELSE v <= u
  <2>1. u \in Ticks /\ u \in Int /\ Initialized(u)
    BY Finite DEF Ahead
  <2>2. CASE ArrayOf(u) = c
    <3>1. u \in InArray(c)
      BY <2>1, <2>2 DEF InArray
    <3> QED
      BY <3>1, <2>1
  <2>3. CASE ArrayOf(u) # c
    <3>1. ArrayOf(u) \in Int /\ ArrayOf(w) \in Int
            /\ (ArrayOf(u) < ArrayOf(w) => u < w) /\ (ArrayOf(w) < ArrayOf(u) => w < u)
      BY <1>3, <2>1, ArraysApart
    <3>2. IF z THEN u <= w ELSE w <= u
      BY <1>3, <2>1, <2>3, <3>1
    <3> QED
      BY <1>2, <3>2
  <2> QED
    BY <2>2, <2>3
<1> QED
  BY <1>4

\* What a swap keeps while it is under way.
LEMMA UnderWay ==
  ASSUME Shape, swap.on
  PROVE  /\ swap \in Swaps /\ swap.zero_for_one \in BOOLEAN /\ swap.matched \in BOOLEAN
         /\ swap.filled \in BOOLEAN /\ swap.upper \in BOOLEAN
         /\ swap.tick \in Int /\ swap.price \in Int /\ swap.liquidity \in Int
         /\ swap.growth \in U128 /\ swap.array \in Arrays
         /\ swap.fee_amount \in Nat /\ swap.protocol_fee \in Nat /\ swap.fees_in \in Nat
<1>1. swap # NoSwap
  BY DEF NoSwap
<1>2. swap \in Swaps
  BY <1>1 DEF Shape
<1> QED
  BY <1>2 DEF Swaps

\* The loop looks among ticks ahead only, and none ahead is nearer than those.
LEMMA SearchFinds ==
  ASSUME Shape, Tables, Search, swap.on, ~swap.filled, NEW z \in BOOLEAN, z = swap.zero_for_one
  PROVE  /\ NextTicks \subseteq Ahead(z, swap.tick)
         /\ \A u \in Ahead(z, swap.tick) : \E v \in NextTicks : IF z THEN u <= v ELSE v <= u
<1> DEFINE T == swap.tick
           A == Ahead(z, T)
           D == ArraysAhead(z, swap.array)
<1>1. swap \in Swaps /\ T \in Int /\ swap.array \in Arrays /\ swap.matched \in BOOLEAN
  BY UnderWay
<1>2. Tick = T
  BY DEF Tick
<1>3. \A u \in A : u \in Ticks /\ u \in Int /\ Initialized(u) /\ (IF z THEN u <= T ELSE u > T)
        /\ u \in InArray(ArrayOf(u)) /\ ArrayOf(u) \in bitmap
  BY Finite, BitIsUsed DEF Ahead
<1>4. \A u \in Int : ArrayOf(u) \in Int /\ ArrayOf(T) \in Int
        /\ (u <= T => ArrayOf(u) <= ArrayOf(T)) /\ (ArrayOf(u) < ArrayOf(T) => u < T)
        /\ (T <= u => ArrayOf(T) <= ArrayOf(u)) /\ (ArrayOf(T) < ArrayOf(u) => T < u)
  BY <1>1, ArraysApart
<1>5. \A u \in Int : (ArrayOf(u) < ArrayOf(T + 1) => u < T + 1)
        /\ ArrayOf(T + 1) \in Int /\ ArrayOf(T) <= ArrayOf(T + 1)
  BY <1>1, ArraysApart
<1>6. \A c \in bitmap : c \in Arrays /\ c \in Int
        /\ \A v \in InArray(c) : v \in Ticks /\ v \in Int /\ Initialized(v) /\ ArrayOf(v) = c
  BY Finite DEF Shape, InArray
<1>7. CASE InThisArray # {}
  <2>1. NextTicks = InThisArray
    BY <1>7 DEF NextTicks
  <2>2. InThisArray = {t \in A : ArrayOf(t) = swap.array /\ ArrayOf(T) = swap.array}
    BY DEF InThisArray, InArray, Ahead
  <2>3. PICK w \in InThisArray : w \in A /\ ArrayOf(w) = ArrayOf(T)
    BY <1>7, <2>2
  <2>4. ASSUME NEW u \in A PROVE \E v \in InThisArray : IF z THEN u <= v ELSE v <= u
    <3>1. CASE ArrayOf(u) = ArrayOf(T)
      <4>1. u \in InThisArray
        BY <2>2, <2>3, <3>1
      <4> QED
        BY <4>1, <1>3
    <3>2. CASE ArrayOf(u) # ArrayOf(T)
      <4>1. u \in Int /\ w \in Int
        BY <1>3, <2>3
      <4>2. (ArrayOf(u) < ArrayOf(w) => u < w) /\ (ArrayOf(w) < ArrayOf(u) => w < u)
        BY <4>1, ArraysApart
      <4>3. IF z THEN u <= w ELSE w <= u
        BY <1>1, <1>3, <1>4, <2>3, <3>2, <4>1, <4>2
      <4> QED
        BY <4>3
    <3> QED
      BY <3>1, <3>2
  <2> QED
    BY <2>1, <2>2, <2>4
<1>8. CASE InThisArray = {} /\ ~swap.matched
  <2>1. NextTicks = InArray(swap.array)
    BY <1>8 DEF NextTicks
  <2>2. /\ ArrayOf(T) \notin bitmap
        /\ swap.array \in bitmap
        /\ IF z THEN swap.array < ArrayOf(T) ELSE swap.array > ArrayOf(T)
        /\ \A c \in bitmap : IF z THEN c < ArrayOf(T) => c <= swap.array
                                  ELSE c > ArrayOf(T) => c >= swap.array
    BY <1>2, <1>8 DEF Search, ArraysAhead
  <2>3. \A u \in A : IF z THEN ArrayOf(u) <= swap.array ELSE ArrayOf(u) >= swap.array
    BY <1>1, <1>3, <1>4, <2>2
  <2>4. \A v \in InArray(swap.array) : v \in A
    BY <1>1, <1>4, <1>6, <2>2 DEF Ahead
  <2> QED
    BY <2>1, <2>2, <2>3, <2>4, NearestArray
<1>9. CASE InThisArray = {} /\ swap.matched
  <2>1. /\ swap.array = ArrayOf(T) \/ (z /\ swap.array = ArrayOf(T + 1))
        /\ NextTicks = IF D # {} THEN InArray(Nearest(D, z)) ELSE {}
    <3>1. swap.array = ArrayOf(T) \/ (z /\ swap.array = ArrayOf(T + 1))
      BY <1>2, <1>9 DEF Search
    <3>2. NextTicks = IF D # {} THEN InArray(Nearest(D, z)) ELSE {}
      BY <1>9 DEF NextTicks
    <3> QED
      BY <3>1, <3>2
  <2>2. ASSUME NEW u \in A PROVE ArrayOf(u) \in D
    <3>1. ~(ArrayOf(u) = swap.array /\ ArrayOf(T) = swap.array)
      BY <1>3, <1>9 DEF InThisArray
    <3>2. IF z THEN ArrayOf(u) < swap.array ELSE ArrayOf(u) > swap.array
      BY <1>1, <1>3, <1>4, <1>5, <2>1, <3>1
    <3> QED
      BY <1>3, <3>2 DEF ArraysAhead
  <2>3. CASE D = {}
    BY <2>1, <2>2, <2>3
  <2>4. CASE D # {}
    <3> DEFINE c == Nearest(D, z)
    <3>1. D \subseteq bitmap /\ D \subseteq Int /\ IsFiniteSet(D)
      BY Finite, FS_Subset, <1>6 DEF ArraysAhead, Shape
    <3>2. c \in D /\ \A d \in D : IF z THEN d <= c ELSE d >= c
      BY <2>4, <3>1, NearestIn
    <3> HIDE DEF c
    <3>3. c \in bitmap /\ (IF z THEN c < swap.array ELSE c > swap.array)
      BY <3>2 DEF ArraysAhead
    <3>4. \A v \in InArray(c) : v \in A
      BY <1>1, <1>4, <1>5, <1>6, <2>1, <3>3 DEF Ahead
    <3>5. \A u \in A : IF z THEN ArrayOf(u) <= c ELSE ArrayOf(u) >= c
      BY <2>2, <3>2
    <3>6. NextTicks = InArray(c)
      BY <2>1, <2>4 DEF c
    <3> QED
      BY <3>3, <3>4, <3>5, <3>6, NearestArray
  <2> QED
    BY <2>3, <2>4
<1> QED
  BY <1>7, <1>8, <1>9

\* The place the loop goes to is the nearest used tick.
LEMMA SearchIsRight ==
  ASSUME Shape, Tables, Search
  PROVE  NextTickIsNearest
<1> SUFFICES ASSUME swap.on, ~swap.filled
             PROVE  LET ahead == Ahead(swap.zero_for_one, swap.tick)
                    IN  /\ NextTicks = {} <=> ahead = {}
                        /\ ahead # {} => Nearest(NextTicks, swap.zero_for_one)
                                           = Nearest(ahead, swap.zero_for_one)
  BY DEF NextTickIsNearest
<1> DEFINE z == swap.zero_for_one
           A == Ahead(z, swap.tick)
<1>1. z \in BOOLEAN
  BY UnderWay
<1>2. NextTicks \subseteq A /\ \A u \in A : \E v \in NextTicks : IF z THEN u <= v ELSE v <= u
  BY <1>1, SearchFinds
<1>3. A \subseteq Int /\ IsFiniteSet(A) /\ NextTicks \subseteq Int /\ IsFiniteSet(NextTicks)
  <2>1. A \subseteq Ticks
    BY DEF Ahead
  <2> QED
    BY <1>2, <2>1, Finite, FS_Subset
<1> HIDE DEF z, A
<1>4. ASSUME A # {} PROVE Nearest(NextTicks, z) = Nearest(A, z)
  <2> DEFINE n == Nearest(NextTicks, z)
             m == Nearest(A, z)
  <2>1. NextTicks # {}
    BY <1>2, <1>4
  <2>2. n \in NextTicks /\ \A y \in NextTicks : IF z THEN y <= n ELSE y >= n
    BY <1>1, <1>3, <2>1, NearestIn
  <2>3. m \in A /\ \A y \in A : IF z THEN y <= m ELSE y >= m
    BY <1>1, <1>3, <1>4, NearestIn
  <2> HIDE DEF n, m
  <2>4. PICK v \in NextTicks : IF z THEN m <= v ELSE v <= m
    BY <1>2, <2>3
  <2>5. n \in Int /\ m \in Int /\ v \in Int
    BY <1>3, <2>2, <2>3
  <2>6. n = m
    BY <1>1, <1>2, <2>2, <2>3, <2>4, <2>5
  <2> QED
    BY <2>6 DEF n, m
<1> QED
  BY <1>2, <1>4 DEF z, A

-----------------------------------------------------------------------------
(* What a modification of a range does.                                    *)

\* The growth of the reward, and with it the books, goes up.
LEMMA EmitGrows ==
  ASSUME Shape, Closed, NEW e \in Emissions, Emit(e)
  PROVE  /\ Grown(e) \in Nat /\ Emitted(e) \in Nat
         /\ Grown(e) * pool.liquidity <= Q * Emitted(e)
         /\ growth' \in [Assets -> U128] /\ total' \in [Assets -> Nat]
         /\ \A a \in Assets :
              /\ growth'[a] = growth[a] + (IF a = Reward THEN Grown(e) ELSE 0)
              /\ total'[a] = total[a] + (IF a = Reward THEN Emitted(e) ELSE 0)
         /\ growth' = GrowthAt(e)
<1>1. pool.liquidity \in Nat
  BY DEF Shape, Closed
<1>2. Grown(e) \in Nat /\ Emitted(e) \in Nat /\ Grown(e) * pool.liquidity <= Q * Emitted(e)
  BY <1>1, EmissionCovers
<1>3. growth \in [Assets -> U128] /\ total \in [Assets -> Nat] /\ Modulus \in Nat \ {0}
        /\ Reward \in Assets
  BY ClmmAssumption DEF Shape, Assets
<1>4. /\ growth' = [growth EXCEPT ![Reward] = growth[Reward] + Grown(e)]
      /\ growth[Reward] + Grown(e) < Modulus
      /\ total' = [total EXCEPT ![Reward] = total[Reward] + Emitted(e)]
  BY <1>3 DEF Emit, GrowthAt
<1>5. growth' \in [Assets -> U128] /\ total' \in [Assets -> Nat]
  BY <1>2, <1>3, <1>4 DEF U128
<1>6. \A a \in Assets :
        /\ growth'[a] = growth[a] + (IF a = Reward THEN Grown(e) ELSE 0)
        /\ total'[a] = total[a] + (IF a = Reward THEN Emitted(e) ELSE 0)
  BY <1>2, <1>3, <1>4 DEF U128
<1> QED
  BY <1>2, <1>5, <1>6 DEF Emit

\* The ends of r in array b that are put to use or given up.
FlippedIn(r, b) ==
  {t \in {r[1], r[2]} : ArrayOf(t) = b /\ (ticks'[t].gross = 0) # (ticks[t].gross = 0)}

\* The ends of the range count the liquidity; a tick that stays in use keeps
\* what grew outside it.
LEMMA TicksModified ==
  ASSUME Shape, Closed, LiquidityIsSum, NEW r \in Ranges, NEW delta \in Int,
         NEW e \in Emissions, ModifyPosition(r, delta, e)
  PROVE  /\ \A t \in Ticks :
              /\ ticks'[t].gross = ticks[t].gross + (IF t \in {r[1], r[2]} THEN delta ELSE 0)
              /\ \/ ticks'[t].net = ticks[t].net + (IF t = r[1] THEN delta
                                                   ELSE IF t = r[2] THEN -delta ELSE 0)
                 \/ ticks'[t].gross = 0 /\ ticks'[t].net = 0
              /\ ticks'[t].outside \in {ticks[t].outside, growth', Zero}
              /\ ticks[t].gross # 0 /\ ticks'[t].gross # 0 =>
                   ticks'[t].outside = ticks[t].outside
         /\ ticks' \in [Ticks -> TickStates]
         /\ protocol[r].liquidity + delta > 0 =>
              protocol'[r].inside = Inside(ticks', growth', r, pool.tick_current)
         /\ protocol[r].liquidity > 0 =>
              protocol'[r].inside = Inside(ticks, growth', r, pool.tick_current)
         /\ count' = [b \in Arrays |-> count[b] + (IF delta < 0 THEN -1 ELSE 1)
                                         * Cardinality(FlippedIn(r, b))]
         /\ bitmap' = SymDiff(bitmap, FlippedArrays(count'))
<1> DEFINE g == GrowthAt(e)
           changed == IF delta = 0 THEN ticks
                      ELSE [ticks EXCEPT ![r[1]] = UpdatedTick(r[1], delta, FALSE, g),
                                         ![r[2]] = UpdatedTick(r[2], delta, TRUE, g)]
           flipped == {t \in {r[1], r[2]} : (changed[t].gross = 0) # (ticks[t].gross = 0)}
<1>1. /\ protocol[r].liquidity + delta >= 0
      /\ Emit(e)
      /\ ticks' = [t \in Ticks |-> IF delta < 0 /\ t \in flipped THEN NoTick ELSE changed[t]]
      /\ protocol' = [protocol EXCEPT ![r] =
                        [liquidity |-> @.liquidity + delta,
                         inside    |-> Inside(changed, g, r, pool.tick_current)]]
  BY DEF ModifyPosition
<1>2. r[1] \in Ticks /\ r[2] \in Ticks /\ r[1] \in Int /\ r[2] \in Int /\ r[1] < r[2]
  BY RangeTicks
<1>3. g = growth' /\ growth' \in [Assets -> U128]
  BY <1>1, EmitGrows
<1>4. /\ ticks \in [Ticks -> TickStates]
      /\ \A t \in Ticks : ticks[t].gross \in Nat /\ ticks[t].net \in Int
                            /\ ticks[t].outside \in [Assets -> Int]
      /\ protocol[r].liquidity \in Nat
      /\ protocol[r].liquidity <= ticks[r[1]].gross /\ protocol[r].liquidity <= ticks[r[2]].gross
  BY EndsUsed DEF EndsAreUsed, PositionsTyped, Shape, TickStates, Protocols
<1> HIDE DEF g
<1>5. ASSUME NEW t \in Ticks
      PROVE  /\ changed[t].gross = ticks[t].gross + (IF t \in {r[1], r[2]} THEN delta ELSE 0)
             /\ changed[t].net = ticks[t].net + (IF t = r[1] THEN delta
                                                 ELSE IF t = r[2] THEN -delta ELSE 0)
             /\ changed[t].outside \in {ticks[t].outside, g}
             /\ ticks[t].gross # 0 => changed[t].outside = ticks[t].outside
             /\ changed[t] \in TickStates
  <2>1. CASE delta = 0
    <3>1. changed[t] = ticks[t]
      BY <2>1
    <3> HIDE DEF changed
    <3> QED
      BY <2>1, <3>1, <1>2, <1>4
  <2>2. CASE delta # 0 /\ t \notin {r[1], r[2]}
    <3>1. changed[t] = ticks[t]
      BY <2>2, <1>2, <1>4
    <3> HIDE DEF changed
    <3> QED
      BY <2>2, <3>1, <1>2, <1>4
  <2>3. CASE delta # 0 /\ t = r[1]
    <3>0. t # r[2]
      BY <2>3, <1>2
    <3>1. changed[t] = UpdatedTick(r[1], delta, FALSE, g)
      BY <2>3, <3>0, <1>2, <1>4
    <3> HIDE DEF changed
    <3> QED
      BY <2>3, <3>1, <1>2, <1>3, <1>4 DEF UpdatedTick, TickStates, U128
  <2>4. CASE delta # 0 /\ t = r[2]
    <3>1. changed[t] = UpdatedTick(r[2], delta, TRUE, g)
      BY <2>4, <1>2, <1>4
    <3> HIDE DEF changed
    <3> QED
      BY <2>4, <3>1, <1>2, <1>3, <1>4 DEF UpdatedTick, TickStates, U128
  <2> QED
    BY <2>1, <2>2, <2>3, <2>4
<1> HIDE DEF changed
<1>6. \A t \in Ticks : delta < 0 /\ t \in flipped => changed[t].gross = 0
  BY <1>1, <1>2, <1>4, <1>5
<1>7. \A t \in Ticks : changed[t].gross # 0 => ticks'[t] = changed[t]
  BY <1>1, <1>6
<1>8. Zero \in [Assets -> Int] /\ NoTick \in TickStates
  BY DEF Zero, NoTick, TickStates
<1>9. \A t \in Ticks : ticks'[t] = changed[t] \/ (ticks'[t] = NoTick /\ changed[t].gross = 0)
  BY <1>1, <1>6
<1>10. NoTick.gross = 0 /\ NoTick.net = 0 /\ NoTick.outside = Zero
  BY DEF NoTick
<1>11. ticks' \in [Ticks -> TickStates]
  BY <1>1, <1>5, <1>8
<1>12. ASSUME NEW t \in Ticks
       PROVE  /\ ticks'[t].gross = ticks[t].gross + (IF t \in {r[1], r[2]} THEN delta ELSE 0)
              /\ \/ ticks'[t].net = ticks[t].net + (IF t = r[1] THEN delta
                                                   ELSE IF t = r[2] THEN -delta ELSE 0)
                 \/ ticks'[t].gross = 0 /\ ticks'[t].net = 0
              /\ ticks'[t].outside \in {ticks[t].outside, growth', Zero}
              /\ ticks[t].gross # 0 /\ ticks'[t].gross # 0 =>
                   ticks'[t].outside = ticks[t].outside
  <2>1. CASE ticks'[t] = changed[t]
    BY <2>1, <1>3, <1>5
  <2>2. CASE ticks'[t] = NoTick /\ changed[t].gross = 0
    BY <2>2, <1>5, <1>10
  <2> QED
    BY <2>1, <2>2, <1>9
<1>13. ASSUME protocol[r].liquidity + delta > 0
       PROVE  protocol'[r].inside = Inside(ticks', growth', r, pool.tick_current)
  <2>1. changed[r[1]].gross # 0 /\ changed[r[2]].gross # 0
    BY <1>2, <1>4, <1>5, <1>13
  <2>2. ticks'[r[1]] = changed[r[1]] /\ ticks'[r[2]] = changed[r[2]]
    BY <2>1, <1>2, <1>7
  <2>3. protocol'[r].inside = Inside(changed, g, r, pool.tick_current)
    BY <1>1 DEF Shape
  <2> QED
    BY <2>2, <2>3, <1>3 DEF Inside
<1>17. ASSUME protocol[r].liquidity > 0
       PROVE  protocol'[r].inside = Inside(ticks, growth', r, pool.tick_current)
  <2>1. ticks[r[1]].gross # 0 /\ ticks[r[2]].gross # 0
    BY <1>4, <1>2, <1>17
  <2>2. changed[r[1]].outside = ticks[r[1]].outside /\ changed[r[2]].outside = ticks[r[2]].outside
    BY <2>1, <1>2, <1>5
  <2>3. protocol'[r].inside = Inside(changed, g, r, pool.tick_current)
    BY <1>1 DEF Shape
  <2> QED
    BY <2>2, <2>3, <1>3 DEF Inside
<1>14. ASSUME NEW b \in Arrays PROVE {t \in flipped : ArrayOf(t) = b} = FlippedIn(r, b)
  BY <1>2, <1>5, <1>12 DEF FlippedIn
<1>15. /\ count' = [b \in Arrays |-> count[b] + (IF delta < 0 THEN -1 ELSE 1)
                                       * Cardinality({t \in flipped : ArrayOf(t) = b})]
       /\ bitmap' = SymDiff(bitmap, FlippedArrays(count'))
  BY DEF ModifyPosition, changed, g
<1>16. count' = [b \in Arrays |-> count[b] + (IF delta < 0 THEN -1 ELSE 1)
                                       * Cardinality(FlippedIn(r, b))]
  BY <1>14, <1>15
<1> QED
  BY <1>11, <1>12, <1>13, <1>15, <1>16, <1>17

\* What a modification leaves of the pool, and what it makes of the range.
LEMMA RecordsModified ==
  ASSUME Shape, Closed, LiquidityIsSum, NEW r \in Ranges, NEW delta \in Int,
         NEW e \in Emissions, ModifyPosition(r, delta, e)
  PROVE  /\ pool' \in [liquidity : Int, tick_current : Int, price : Int]
         /\ pool'.liquidity = pool.liquidity
              + (IF InRange(r, pool.tick_current) THEN delta ELSE 0)
         /\ pool'.tick_current = pool.tick_current /\ pool'.price = pool.price
         /\ protocol' \in [Ranges -> Protocols]
         /\ protocol'[r].liquidity = protocol[r].liquidity + delta
         /\ \A s \in Ranges \ {r} : protocol'[s] = protocol[s]
<1> DEFINE g == GrowthAt(e)
           changed == IF delta = 0 THEN ticks
                      ELSE [ticks EXCEPT ![r[1]] = UpdatedTick(r[1], delta, FALSE, g),
                                         ![r[2]] = UpdatedTick(r[2], delta, TRUE, g)]
           inside == Inside(changed, g, r, pool.tick_current)
<1>1. /\ protocol[r].liquidity + delta >= 0
      /\ Emit(e)
      /\ protocol' = [protocol EXCEPT ![r] = [liquidity |-> @.liquidity + delta,
                                              inside    |-> inside]]
      /\ pool' = [pool EXCEPT !.liquidity = IF InRange(r, pool.tick_current) THEN @ + delta ELSE @]
  BY DEF ModifyPosition
<1>2. pool \in [liquidity : Int, tick_current : Int, price : Int]
        /\ protocol \in [Ranges -> Protocols] /\ protocol[r].liquidity \in Nat
  BY DEF Shape, Protocols
<1>3. r[1] \in Ticks /\ r[2] \in Ticks /\ r[1] # r[2]
  BY RangeTicks
<1>4. g \in [Assets -> U128] /\ Modulus \in Nat \ {0}
  BY <1>1, EmitGrows, ClmmAssumption
<1>5. \A t \in Ticks : changed[t].outside \in [Assets -> Int]
  <2> SUFFICES ASSUME NEW t \in Ticks PROVE changed[t].outside \in [Assets -> Int]
    OBVIOUS
  <2>0. ticks \in [Ticks -> TickStates] /\ \A u \in Ticks : ticks[u].outside \in [Assets -> Int]
    BY DEF Shape, TickStates
  <2>1. CASE changed[t] = ticks[t]
    BY <2>0, <2>1
  <2>2. CASE changed[t] = UpdatedTick(r[1], delta, FALSE, g)
    <3> HIDE DEF changed, g
    <3> QED
      BY <2>0, <2>2, <1>3, <1>4 DEF UpdatedTick, U128
  <2>3. CASE changed[t] = UpdatedTick(r[2], delta, TRUE, g)
    <3> HIDE DEF changed, g
    <3> QED
      BY <2>0, <2>3, <1>3, <1>4 DEF UpdatedTick, U128
  <2> HIDE DEF g
  <2> QED
    BY <2>0, <2>1, <2>2, <2>3, <1>3
<1> HIDE DEF g, changed
<1>6. inside \in [Assets -> U128]
  BY <1>3, <1>4, <1>5 DEF Inside, U128
<1> HIDE DEF inside
<1>7. protocol' \in [Ranges -> Protocols]
        /\ protocol'[r].liquidity = protocol[r].liquidity + delta
        /\ \A s \in Ranges \ {r} : protocol'[s] = protocol[s]
  BY <1>1, <1>2, <1>6 DEF Protocols
<1> QED
  BY <1>1, <1>2, <1>7

\* Position p becomes q, and no other changes.
PositionBecomes(p, q) ==
  /\ personal' \in [Positions -> Personals]
  /\ personal'[p] = q
  /\ \A x \in Positions \ {p} : personal'[x] = personal[x]

\* The sums of liquidity follow a modification of a range and its position.
LEMMA SumsModified ==
  ASSUME Shape, Closed, LiquidityIsSum, ~swap.on, swap' = swap, NEW r \in Ranges,
         NEW delta \in Int, NEW e \in Emissions, ModifyPosition(r, delta, e),
         NEW p \in Positions, NEW q \in Personals, PositionBecomes(p, q),
         q.range = r, q.liquidity = personal[p].liquidity + delta,
         personal[p].range = r \/ personal[p].liquidity = 0
  PROVE  LiquidityIsSum' /\ pool'.liquidity >= 0
<1>1. personal \in [Positions -> Personals] /\ personal' \in [Positions -> Personals]
        /\ ticks \in [Ticks -> TickStates]
        /\ \A t \in Ticks : ticks[t].gross \in Int /\ ticks[t].net \in Int
        /\ \A s \in Ranges : protocol[s].liquidity \in Int
        /\ pool.liquidity \in Int
  BY DEF Shape, PositionBecomes, TickStates, Protocols
<1>2. ASSUME NEW R
      PROVE  Sum(personal', R) = Sum(personal, R) + (IF r \in R THEN delta ELSE 0)
  <2>1. /\ personal'[p] = q
        /\ \A x \in Positions \ {p} : personal'[x] = personal[x]
    BY DEF PositionBecomes
  <2>2. Sum(personal', R) = Sum(personal, R) + (IF q.range \in R
                                               THEN q.liquidity - personal[p].liquidity ELSE 0)
    <3>1. q.range = personal[p].range \/ personal[p].liquidity = 0
      OBVIOUS
    <3> HIDE DEF ModifyPosition, PositionBecomes
    <3> QED
      BY <1>1, <2>1, <3>1, LiquidityChange
  <2>3. q.liquidity - personal[p].liquidity = delta
    BY <1>1 DEF Personals
  <2> QED
    BY <2>2, <2>3
<1>3. \A R : Sum(personal, R) \in Nat /\ Sum(personal', R) \in Nat
  BY <1>1, LiquidityNatural
<1>4. r[1] \in Ticks /\ r[2] \in Ticks /\ r[1] # r[2]
  BY RangeTicks
<1> DEFINE From(t) == {s \in Ranges : s[1] = t}
           To(t) == {s \in Ranges : s[2] = t}
           Here == {s \in Ranges : InRange(s, pool.tick_current)}
<1>5. /\ \A t \in Ticks : /\ ticks[t].gross = Sum(personal, From(t)) + Sum(personal, To(t))
                          /\ ticks[t].net = Sum(personal, From(t)) - Sum(personal, To(t))
      /\ \A s \in Ranges : protocol[s].liquidity = Sum(personal, {s})
      /\ pool.liquidity = Sum(personal, Here)
  BY LiquidityOnSum DEF LiquidityIsSum
<1>6. \A t \in Ticks :
        /\ ticks'[t].gross = ticks[t].gross + (IF t \in {r[1], r[2]} THEN delta ELSE 0)
        /\ \/ ticks'[t].net = ticks[t].net + (IF t = r[1] THEN delta
                                             ELSE IF t = r[2] THEN -delta ELSE 0)
           \/ ticks'[t].gross = 0 /\ ticks'[t].net = 0
  BY TicksModified
<1>7. \A t \in Ticks : (r \in From(t) <=> r[1] = t) /\ (r \in To(t) <=> r[2] = t)
  OBVIOUS
<1>8. r \in Here <=> InRange(r, pool.tick_current)
  OBVIOUS
<1> HIDE DEF From, To, Here
<1>9. ASSUME NEW t \in Ticks
      PROVE  /\ ticks'[t].gross = Sum(personal', From(t)) + Sum(personal', To(t))
             /\ ticks'[t].net = Sum(personal', From(t)) - Sum(personal', To(t))
  <2> DEFINE a == Sum(personal, From(t))
             b == Sum(personal, To(t))
             c == Sum(personal', From(t))
             d == Sum(personal', To(t))
  <2>1. /\ a \in Nat /\ b \in Nat /\ c \in Nat /\ d \in Nat
        /\ ticks[t].gross = a + b /\ ticks[t].net = a - b
        /\ c = a + (IF t = r[1] THEN delta ELSE 0)
        /\ d = b + (IF t = r[2] THEN delta ELSE 0)
    BY <1>2, <1>3, <1>5, <1>7
  <2>2. /\ ticks'[t].gross = ticks[t].gross + (IF t \in {r[1], r[2]} THEN delta ELSE 0)
        /\ \/ ticks'[t].net = ticks[t].net + (IF t = r[1] THEN delta
                                             ELSE IF t = r[2] THEN -delta ELSE 0)
           \/ ticks'[t].gross = 0 /\ ticks'[t].net = 0
    BY <1>6
  <2> HIDE DEF a, b, c, d
  <2>3. ticks'[t].gross = c + d /\ ticks'[t].net = c - d
    BY <1>4, <2>1, <2>2
  <2> QED
    BY <2>3 DEF c, d
<1>10. ASSUME NEW s \in Ranges PROVE protocol'[s].liquidity = Sum(personal', {s})
  <2>1. /\ protocol'[r].liquidity = protocol[r].liquidity + delta
        /\ \A u \in Ranges \ {r} : protocol'[u] = protocol[u]
    BY RecordsModified
  <2>2. Sum(personal', {s}) = Sum(personal, {s}) + (IF s = r THEN delta ELSE 0)
    BY <1>2
  <2>3. protocol[s].liquidity = Sum(personal, {s}) /\ Sum(personal, {s}) \in Nat
    BY <1>3, <1>5
  <2> QED
    BY <2>1, <2>2, <2>3
<1>11. pool'.liquidity = Sum(personal', Here) /\ pool'.tick_current = pool.tick_current
  <2>1. /\ pool'.liquidity = pool.liquidity + (IF InRange(r, pool.tick_current) THEN delta ELSE 0)
        /\ pool'.tick_current = pool.tick_current
    BY RecordsModified
  <2>2. Sum(personal', Here) = Sum(personal, Here) + (IF r \in Here THEN delta ELSE 0)
    BY <1>2
  <2> QED
    BY <1>5, <1>8, <2>1, <2>2
<1>14. pool'.liquidity >= 0
  <2>1. Sum(personal', Here) \in Nat
    BY <1>3
  <2> QED
    BY <1>11, <2>1
<1>12. \A R : LiquidityOn(R)' = Sum(personal', R)
  BY DEF LiquidityOn, SumFunction, Sum, LiquidityIn
<1>13. LiquidityIsSum'
  BY <1>9, <1>10, <1>11, <1>12 DEF LiquidityIsSum, From, To, Here
<1> QED
  BY <1>13, <1>14

\* The counts and the bits follow the ticks.
LEMMA TablesModified ==
  ASSUME Shape, Closed, LiquidityIsSum, Tables, NEW r \in Ranges, NEW delta \in Int,
         NEW e \in Emissions, ModifyPosition(r, delta, e)
  PROVE  /\ Tables'
         /\ count' \in [Arrays -> Int] /\ bitmap' \subseteq Arrays
<1> DEFINE sign == IF delta < 0 THEN -1 ELSE 1
<1>1. /\ \A t \in Ticks :
           ticks'[t].gross = ticks[t].gross + (IF t \in {r[1], r[2]} THEN delta ELSE 0)
      /\ count' = [b \in Arrays |-> count[b] + sign * Cardinality(FlippedIn(r, b))]
      /\ bitmap' = SymDiff(bitmap, FlippedArrays(count'))
  BY TicksModified
<1>2. /\ r[1] \in Ticks /\ r[2] \in Ticks
      /\ \A t \in Ticks : ticks[t].gross \in Nat
      /\ protocol[r].liquidity <= ticks[r[1]].gross /\ protocol[r].liquidity <= ticks[r[2]].gross
      /\ protocol[r].liquidity \in Nat /\ protocol[r].liquidity + delta >= 0
  BY RangeTicks, EndsUsed DEF EndsAreUsed, PositionsTyped, Shape, Protocols, ModifyPosition
<1>3. ASSUME NEW b \in Arrays
      PROVE  count'[b] \in Int /\ count'[b] = Cardinality(InArray(b)')
  <2> DEFINE F == FlippedIn(r, b)
             I == InArray(b)
             J == InArray(b)'
  <2>1. I \subseteq Ticks /\ J \subseteq Ticks /\ F \subseteq Ticks
    BY <1>2 DEF InArray, FlippedIn
  <2>2. IsFiniteSet(I) /\ IsFiniteSet(J) /\ IsFiniteSet(F)
    BY <2>1, Finite, FS_Subset
  <2>3. count[b] = Cardinality(I) /\ Cardinality(I) \in Nat /\ Cardinality(F) \in Nat
          /\ Cardinality(J) \in Nat
    BY <2>2, FS_CardinalityType DEF Tables
  <2>4. count'[b] = count[b] + sign * Cardinality(F)
    BY <1>1
  <2>5. CASE delta > 0
    <3>1. F = {t \in {r[1], r[2]} : ArrayOf(t) = b /\ ticks[t].gross = 0}
      BY <1>1, <1>2, <2>5 DEF FlippedIn
    <3>2. I = {t \in Ticks : ArrayOf(t) = b /\ ticks[t].gross # 0}
            /\ J = {t \in Ticks : ArrayOf(t) = b /\ ticks'[t].gross # 0}
      BY DEF InArray, Initialized
    <3> HIDE DEF F, I, J
    <3>3. J = I \cup F /\ I \cap F = {}
      BY <1>1, <1>2, <2>5, <3>1, <3>2
    <3>4. Cardinality(I \cup F) = Cardinality(I) + Cardinality(F) - Cardinality(I \cap F)
      BY <2>2, FS_Union
    <3>5. sign * Cardinality(F) = Cardinality(F) /\ Cardinality({}) = 0
      BY <2>3, <2>5, FS_EmptySet
    <3> HIDE DEF sign
    <3>6. Cardinality(I \cup F) = Cardinality(J) /\ Cardinality(I \cap F) = Cardinality({})
      BY <3>3
    <3>7. count'[b] = Cardinality(J)
      BY <2>3, <2>4, <3>4, <3>5, <3>6
    <3> QED
      BY <2>3, <3>7 DEF J
  <2>6. CASE delta < 0
    <3>1. F = {t \in {r[1], r[2]} : ArrayOf(t) = b /\ ticks'[t].gross = 0}
      BY <1>1, <1>2, <2>6 DEF FlippedIn
    <3>2. I = {t \in Ticks : ArrayOf(t) = b /\ ticks[t].gross # 0}
            /\ J = {t \in Ticks : ArrayOf(t) = b /\ ticks'[t].gross # 0}
      BY DEF InArray, Initialized
    <3> HIDE DEF F, I, J
    <3>3. J = I \ F /\ I \cap F = F
      BY <1>1, <1>2, <2>6, <3>1, <3>2
    <3>4. Cardinality(I \ F) = Cardinality(I) - Cardinality(I \cap F)
      BY <2>2, FS_Difference
    <3>5. sign * Cardinality(F) = -Cardinality(F)
      BY <2>3, <2>6
    <3> HIDE DEF sign
    <3>6. count'[b] = Cardinality(J)
      BY <2>3, <2>4, <3>3, <3>4, <3>5
    <3> QED
      BY <2>3, <3>6 DEF J
  <2>7. CASE delta = 0
    <3>1. \A t \in Ticks : ticks'[t].gross = ticks[t].gross
      BY <1>1, <1>2, <2>7
    <3>2. F = {}
      BY <1>2, <3>1 DEF FlippedIn
    <3>3. J = I
      BY <3>1 DEF InArray, Initialized
    <3> QED
      BY <2>3, <2>4, <2>7, <3>2, <3>3, FS_EmptySet
  <2> QED
    BY <2>5, <2>6, <2>7
<1>4. count' \in [Arrays -> Int]
  BY <1>1, <1>3
<1>5. FlippedArrays(count') = {b \in Arrays : (count[b] = 0) # (count'[b] = 0)}
  BY DEF FlippedArrays
<1>6. bitmap \subseteq Arrays /\ \A b \in Arrays : b \in bitmap <=> count[b] # 0
  BY DEF Shape, Tables
<1>7. bitmap' \subseteq Arrays /\ \A b \in Arrays : b \in bitmap' <=> count'[b] # 0
  BY <1>1, <1>5, <1>6 DEF SymDiff
<1> QED
  BY <1>3, <1>4, <1>7 DEF Tables

-----------------------------------------------------------------------------
(* Growth.                                                                 *)

\* The differences the code takes, told by what grew below the two ends.
LEMMA InsideIs ==
  ASSUME NEW states \in [Ticks -> TickStates], NEW g \in [Assets -> U128], NEW r \in Ranges,
         NEW tick \in Int, NEW a \in Assets
  PROVE  /\ Inside(states, g, r, tick)[a]
              = (BelowAt(states, g, tick, r[2], a) - BelowAt(states, g, tick, r[1], a)) % Modulus
         /\ BelowAt(states, g, tick, r[1], a) \in Int /\ BelowAt(states, g, tick, r[2], a) \in Int
<1>1. r[1] \in Ticks /\ r[2] \in Ticks /\ r[1] \in Int /\ r[2] \in Int
  BY RangeTicks
<1>2. \A t \in Ticks : states[t].outside[a] \in Int
  BY DEF TickStates
<1>3. g[a] \in Int
  BY DEF U128
<1> DEFINE below == IF tick >= r[1] THEN states[r[1]].outside[a]
                                    ELSE g[a] - states[r[1]].outside[a]
           above == IF tick < r[2] THEN states[r[2]].outside[a]
                                   ELSE g[a] - states[r[2]].outside[a]
<1>4. g[a] - below - above
        = BelowAt(states, g, tick, r[2], a) - BelowAt(states, g, tick, r[1], a)
  BY <1>1, <1>2, <1>3 DEF BelowAt
<1>5. Inside(states, g, r, tick)[a] = (g[a] - below - above) % Modulus
  BY DEF Inside
<1> QED
  BY <1>1, <1>2, <1>3, <1>4, <1>5 DEF BelowAt

\* What the invariant speaks of has its type.
LEMMA NowTypes ==
  ASSUME Shape
  PROVE  /\ Growths \in [Assets -> U128] /\ Tick \in Int /\ Price \in Int /\ Active \in Int
         /\ \A t \in Ticks, a \in Assets : Below(t, a) \in Int
         /\ \A r \in Ranges, a \in Assets : InsideOf(r, a) \in Int
<1>1. Growths \in [Assets -> U128] /\ Tick \in Int /\ Price \in Int /\ Active \in Int
  <2>1. CASE swap.on
    BY <2>1, UnderWay DEF Growths, Tick, Price, Active, Shape
  <2>2. CASE ~swap.on
    BY <2>2 DEF Growths, Tick, Price, Active, Shape
  <2> QED
    BY <2>1, <2>2
<1>2. \A t \in Ticks, a \in Assets : Below(t, a) \in Int
  BY <1>1 DEF Below, BelowAt, Shape, TickStates, U128
<1>3. \A r \in Ranges, a \in Assets : InsideOf(r, a) \in Int
  BY <1>2, RangeTicks DEF InsideOf
<1> QED
  BY <1>1, <1>2, <1>3

\* Asset b grows by d: so does all that ranges around the tick have earned.
Part(a, b, d) == IF a = b THEN d ELSE 0
Grew(b, d) ==
  /\ d \in Nat /\ Growths' \in [Assets -> U128]
  /\ \A a \in Assets : Growths'[a] = Growths[a] + Part(a, b, d)
  /\ \A r \in Ranges, a \in Assets :
       history'.earned[r][a] = history.earned[r][a]
                                 + (IF InRange(r, Tick) THEN Part(a, b, d) ELSE 0)

\* What has grown inside a range after it, by the ticks as they were.
GrownBelow(t, a) == BelowAt(ticks, Growths', Tick, t, a)
GrownInside(r, a) == GrownBelow(r[2], a) - GrownBelow(r[1], a)

\* A growth shows inside a range when the current tick is in it, and only then.
LEMMA InsideGrew ==
  ASSUME Shape, NEW b, NEW d, Grew(b, d), NEW r \in Ranges, NEW a \in Assets
  PROVE  GrownInside(r, a) = InsideOf(r, a) + (IF InRange(r, Tick) THEN Part(a, b, d) ELSE 0)
<1>1. r[1] \in Ticks /\ r[2] \in Ticks /\ r[1] \in Int /\ r[2] \in Int /\ r[1] < r[2]
  BY RangeTicks
<1>2. Tick \in Int /\ Below(r[1], a) \in Int /\ Below(r[2], a) \in Int
        /\ Part(a, b, d) \in Int /\ Growths[a] \in Int
        /\ \A t \in Ticks : ticks[t].outside[a] \in Int
  BY <1>1, NowTypes DEF Grew, Part, U128, Shape, TickStates
<1>3. Growths'[a] = Growths[a] + Part(a, b, d)
  BY DEF Grew
<1>4. \A t \in Ticks : t \in Int =>
        GrownBelow(t, a) = Below(t, a) + (IF Tick < t THEN Part(a, b, d) ELSE 0)
  BY <1>2, <1>3 DEF GrownBelow, Below, BelowAt
<1> QED
  BY <1>1, <1>2, <1>4 DEF InsideOf, GrownInside, InRange

\* A difference modulo 2^128 that was exact stays so.
LEMMA StaysExact ==
  ASSUME NEW x \in Int, NEW y \in Int, NEW e \in Nat, NEW h \in Nat,
         WrappingSub(x, y) = e - h,
         NEW w \in Int, NEW f \in Nat, w - x = f - e, e <= f, f < Modulus
  PROVE  WrappingSub(w, y) = f - h
<1> DEFINE d == f - e
<1>1. Modulus \in Nat \ {0} /\ x - y \in Int /\ d \in Nat
  BY ClmmAssumption
<1>2. (x - y) % Modulus = e - h /\ ((x - y) % Modulus) + d < Modulus
  BY <1>1 DEF WrappingSub
<1>3. ((x - y) + d) % Modulus = ((x - y) % Modulus) + d
  BY <1>1, <1>2, ModShift
<1>4. (x - y) + d = w - y
  OBVIOUS
<1> QED
  BY <1>2, <1>3, <1>4 DEF WrappingSub

\* What a growth leaves true of all ranges and positions.
LEMMA NotesGrown ==
  ASSUME Shape, Noted, Taken, NEW b, NEW d, Grew(b, d)
  PROVE  /\ \A r \in Ranges, a \in Assets :
              /\ history'.earned[r][a] \in Nat
              /\ history.protocol[r][a] <= history.earned[r][a]
              /\ history.earned[r][a] <= history'.earned[r][a]
              /\ history'.earned[r][a] <= Growths'[a]
              /\ history'.earned[r][a] < Modulus
              /\ GrownInside(r, a) \in Int
              /\ protocol[r].liquidity > 0 =>
                   WrappingSub(GrownInside(r, a), protocol[r].inside[a])
                     = history'.earned[r][a] - history.protocol[r][a]
         /\ \A p \in Positions, a \in Assets, r \in Ranges :
              r = personal[p].range /\ personal[p].liquidity > 0 =>
                WrappingSub(GrownInside(r, a), personal[p].last[a])
                  = history'.earned[r][a] - history.personal[p][a]
<1>1. /\ \A r \in Ranges, a \in Assets :
           history.earned[r][a] \in Nat /\ history.protocol[r][a] \in Nat
             /\ protocol[r].inside[a] \in Int /\ protocol[r].liquidity \in Nat
      /\ \A p \in Positions, a \in Assets :
           history.personal[p][a] \in Nat /\ personal[p].last[a] \in Int
             /\ personal[p].range \in Ranges /\ personal[p].liquidity \in Nat
  BY DEF Shape, Histories, Protocols, Personals, U128
<1>2. /\ \A a \in Assets : Growths[a] \in U128 /\ Growths'[a] \in U128
      /\ \A r \in Ranges, a \in Assets : InsideOf(r, a) \in Int
  BY NowTypes DEF Grew
<1>3. ASSUME NEW r \in Ranges, NEW a \in Assets
      PROVE  /\ history'.earned[r][a] \in Nat /\ GrownInside(r, a) \in Int
             /\ history.earned[r][a] <= history'.earned[r][a]
             /\ history'.earned[r][a] <= Growths'[a]
             /\ history'.earned[r][a] < Modulus
             /\ GrownInside(r, a) - InsideOf(r, a) = history'.earned[r][a] - history.earned[r][a]
  <2> DEFINE add == IF InRange(r, Tick) THEN Part(a, b, d) ELSE 0
  <2>1. add \in Nat /\ Part(a, b, d) \in Nat /\ add <= Part(a, b, d)
    BY DEF Grew, Part
  <2>2. history'.earned[r][a] = history.earned[r][a] + add
          /\ Growths'[a] = Growths[a] + Part(a, b, d)
    BY DEF Grew
  <2>3. history.earned[r][a] <= Growths[a]
    BY DEF Noted
  <2>4. GrownInside(r, a) = InsideOf(r, a) + add
    BY InsideGrew
  <2>5. Growths[a] \in Nat /\ Growths'[a] \in Nat /\ Growths'[a] < Modulus /\ Modulus \in Nat
    BY <1>2, ClmmAssumption DEF U128
  <2>6. history.earned[r][a] \in Nat /\ InsideOf(r, a) \in Int
    BY <1>1, <1>2
  <2> HIDE DEF add
  <2> QED
    BY <2>1, <2>2, <2>3, <2>4, <2>5, <2>6
<1>4. ASSUME NEW r \in Ranges, NEW a \in Assets, protocol[r].liquidity > 0
      PROVE  WrappingSub(GrownInside(r, a), protocol[r].inside[a])
               = history'.earned[r][a] - history.protocol[r][a]
  <2>1. WrappingSub(InsideOf(r, a), protocol[r].inside[a])
          = history.earned[r][a] - history.protocol[r][a]
    BY <1>4 DEF Noted
  <2> DEFINE x == InsideOf(r, a)
             y == protocol[r].inside[a]
             e == history.earned[r][a]
             h == history.protocol[r][a]
             w == GrownInside(r, a)
             f == history'.earned[r][a]
  <2>2. x \in Int /\ y \in Int /\ e \in Nat /\ h \in Nat /\ WrappingSub(x, y) = e - h
    BY <1>1, <1>2, <2>1
  <2>3. w \in Int /\ f \in Nat /\ w - x = f - e /\ e <= f /\ f < Modulus
    BY <1>3
  <2> HIDE DEF x, y, e, h, w, f
  <2>4. WrappingSub(w, y) = f - h
    BY <2>2, <2>3, StaysExact
  <2> QED
    BY <2>4 DEF w, y, f, h
<1>5. ASSUME NEW p \in Positions, NEW a \in Assets, NEW r \in Ranges, r = personal[p].range,
             personal[p].liquidity > 0
      PROVE  WrappingSub(GrownInside(r, a), personal[p].last[a])
               = history'.earned[r][a] - history.personal[p][a]
  <2>1. WrappingSub(InsideOf(r, a), personal[p].last[a])
          = history.earned[r][a] - history.personal[p][a]
    BY <1>5 DEF Taken
  <2> DEFINE x == InsideOf(r, a)
             y == personal[p].last[a]
             e == history.earned[r][a]
             h == history.personal[p][a]
             w == GrownInside(r, a)
             f == history'.earned[r][a]
  <2>2. x \in Int /\ y \in Int /\ e \in Nat /\ h \in Nat /\ WrappingSub(x, y) = e - h
    BY <1>1, <1>2, <2>1
  <2>3. w \in Int /\ f \in Nat /\ w - x = f - e /\ e <= f /\ f < Modulus
    BY <1>3
  <2> HIDE DEF x, y, e, h, w, f
  <2>4. WrappingSub(w, y) = f - h
    BY <2>2, <2>3, StaysExact
  <2> QED
    BY <2>4 DEF w, y, f, h
<1>6. \A r \in Ranges, a \in Assets : history.protocol[r][a] <= history.earned[r][a]
  BY DEF Noted
<1> QED
  BY <1>3, <1>4, <1>5, <1>6

\* Ticks that stay in use keep what grew below them, and ranges with them
\* what grew inside.
TicksKeep ==
  \A t \in Ticks, a \in Assets :
    ticks[t].gross # 0 /\ ticks'[t].gross # 0 => Below(t, a)' = GrownBelow(t, a)

\* A range with liquidity before and after a step has ends in use at both
\* times, and so keeps its growth inside.
LEMMA InsideKept ==
  ASSUME TicksKeep, EndsAreUsed, EndsAreUsed', NEW r \in Ranges, NEW a \in Assets,
         protocol[r].liquidity > 0, protocol'[r].liquidity > 0
  PROVE  InsideOf(r, a)' = GrownInside(r, a)
<1>1. r[1] \in Ticks /\ r[2] \in Ticks
  BY RangeTicks
<1>2. ticks[r[1]].gross # 0 /\ ticks'[r[1]].gross # 0
        /\ ticks[r[2]].gross # 0 /\ ticks'[r[2]].gross # 0
  BY <1>1 DEF EndsAreUsed
<1> QED
  BY <1>1, <1>2 DEF TicksKeep, InsideOf, GrownInside

-----------------------------------------------------------------------------
(* Claims.                                                                 *)

LEMMA ClaimsAre == \A a : Claims(a) = SumFunctionOnSet([p \in Positions |-> Claim(p, a)], Positions)
  BY DEF Claims, SumFunction

LEMMA ClaimIsInt ==
  (* what types alone give *)
  ASSUME personal \in [Positions -> Personals], history \in Histories,
         NEW p \in Positions, NEW a \in Assets
  PROVE  Claim(p, a) \in Int
<1>1. /\ personal[p].owed[a] \in Int /\ personal[p].liquidity \in Int /\ Q \in Int
      /\ history.earned[personal[p].range][a] \in Int /\ history.personal[p][a] \in Int
  BY ClmmAssumption DEF Personals, Histories
<1> QED
  BY <1>1 DEF Claim

\* A claim after a growth and before the position is settled.
GrownClaim(p, a) ==
  Q * personal[p].owed[a]
    + (history'.earned[personal[p].range][a] - history.personal[p][a]) * personal[p].liquidity
GrownClaims(a) == SumFunctionOnSet([p \in Positions |-> GrownClaim(p, a)], Positions)

\* A growth adds to the claims what it is times the active liquidity.
LEMMA ClaimsGrew ==
  ASSUME Shape, LiquidityIsSum, NEW b, NEW d, Grew(b, d), NEW a \in Assets
  PROVE  /\ \A p \in Positions : GrownClaim(p, a) \in Int
         /\ Claims(a) \in Int /\ GrownClaims(a) \in Int
         /\ Active \in Nat
         /\ GrownClaims(a) = Claims(a) + Part(a, b, d) * Active
<1> DEFINE Here == {r \in Ranges : InRange(r, Tick)}
           part == Part(a, b, d)
           l == LiquidityIn(personal, Here)
           f == [p \in Positions |-> Claim(p, a)]
           g == [p \in Positions |-> GrownClaim(p, a)]
           h == [p \in Positions |-> part * l[p]]
<1>1. personal \in [Positions -> Personals] /\ history \in Histories /\ IsFiniteSet(Positions)
        /\ Q \in Int
  BY ClmmAssumption DEF Shape
<1>2. part \in Nat
  BY DEF Grew, Part
<1>3. Active = Sum(personal, Here) /\ Sum(personal, Here) \in Nat
        /\ \A p \in Positions : l[p] \in Nat
  BY <1>1, LiquidityNatural, LiquidityOnSum DEF LiquidityIsSum, Active, Tick
<1>4. ASSUME NEW p \in Positions
      PROVE  Claim(p, a) \in Int /\ part * l[p] \in Int /\ GrownClaim(p, a) \in Int
               /\ GrownClaim(p, a) = Claim(p, a) + part * l[p]
  <2> DEFINE o == Q * personal[p].owed[a]
             e == history.earned[personal[p].range][a]
             n == history'.earned[personal[p].range][a]
             m == history.personal[p][a]
             L == personal[p].liquidity
  <2>1. personal[p].range \in Ranges /\ o \in Int /\ e \in Int /\ m \in Int /\ L \in Int
    BY <1>1 DEF Personals, Histories
  <2>2. /\ n = e + (IF personal[p].range \in Here THEN part ELSE 0)
        /\ l[p] = IF personal[p].range \in Here THEN L ELSE 0
    BY <2>1 DEF Grew, LiquidityIn
  <2>3. Claim(p, a) = o + (e - m) * L /\ GrownClaim(p, a) = o + (n - m) * L
    BY DEF Claim, GrownClaim
  <2> HIDE DEF o, e, n, m, L, part
  <2>4. (e - m) * L \in Int /\ part * L \in Int
    BY <1>2, <2>1
  <2>5. CASE personal[p].range \in Here
    <3>1. n - m = (e - m) + part /\ e - m \in Int /\ part \in Int
      BY <1>2, <2>1, <2>2, <2>5
    <3>2. ((e - m) + part) * L = (e - m) * L + part * L
      BY <2>1, <3>1, Distribute
    <3> QED
      BY <2>1, <2>2, <2>3, <2>4, <2>5, <3>1, <3>2
  <2>6. CASE personal[p].range \notin Here
    <3>1. n = e /\ part * l[p] = 0
      BY <1>2, <2>1, <2>2, <2>6
    <3> QED
      BY <2>1, <2>3, <2>4, <3>1
  <2> QED
    BY <2>5, <2>6
<1>5. \A p \in Positions : GrownClaim(p, a) \in Int
  BY <1>4
<1>9. Active = SumFunctionOnSet(l, Positions)
  BY <1>3 DEF Sum
<1> HIDE DEF l, part
<1>6. /\ \A p \in Positions : f[p] \in Int /\ h[p] \in Int /\ g[p] = f[p] + h[p]
      /\ \A p \in Positions : g[p] \in Int
      /\ \A p \in Positions : l[p] \in Int /\ h[p] = part * l[p]
  BY <1>3, <1>4
<1>7. Claims(a) = SumFunctionOnSet(f, Positions)
  BY ClaimsAre
<1>8. GrownClaims(a) = SumFunctionOnSet(g, Positions)
  BY DEF GrownClaims
<1> HIDE DEF f, g, h
<1>10. SumFunctionOnSet(g, Positions)
         = SumFunctionOnSet(f, Positions) + SumFunctionOnSet(h, Positions)
  BY <1>1, <1>6, SumPlus
<1>11. SumFunctionOnSet(h, Positions) = part * SumFunctionOnSet(l, Positions)
  BY <1>1, <1>2, <1>6, SumTimes
<1>12. SumFunctionOnSet(f, Positions) \in Int /\ SumFunctionOnSet(g, Positions) \in Int
  BY <1>1, <1>6, SumType
<1> QED
  BY <1>3, <1>5, <1>7, <1>8, <1>9, <1>10, <1>11, <1>12 DEF part

\* The position that is brought up to date claims no more than before, less
\* what it is paid; the others claim what they did.
LEMMA ClaimsSettled ==
  ASSUME NEW a \in Assets, \A p \in Positions : GrownClaim(p, a) \in Int,
         \A p \in Positions : Claim(p, a)' \in Int,
         NEW p \in Positions, \A x \in Positions \ {p} : Claim(x, a)' = GrownClaim(x, a),
         NEW paid \in Int, Claim(p, a)' <= GrownClaim(p, a) - paid
  PROVE  Claims(a)' \in Int /\ Claims(a)' <= GrownClaims(a) - paid
<1> DEFINE f == [x \in Positions |-> GrownClaim(x, a)]
           g == [x \in Positions |-> Claim(x, a)']
<1>1. IsFiniteSet(Positions)
  BY ClmmAssumption
<1>2. /\ \A x \in Positions : f[x] \in Int /\ g[x] \in Int
      /\ \A x \in Positions \ {p} : g[x] = f[x]
      /\ g[p] <= f[p] - paid
  OBVIOUS
<1>3. GrownClaims(a) = SumFunctionOnSet(f, Positions)
        /\ Claims(a)' = SumFunctionOnSet(g, Positions)
  BY DEF GrownClaims, Claims, SumFunction
<1> HIDE DEF f, g
<1>4. SumFunctionOnSet(g, Positions) = SumFunctionOnSet(f, Positions) + (g[p] - f[p])
  BY <1>1, <1>2, SumChange
<1>5. SumFunctionOnSet(f, Positions) \in Int /\ SumFunctionOnSet(g, Positions) \in Int
  BY <1>1, <1>2, SumType
<1> QED
  BY <1>2, <1>3, <1>4, <1>5

LEMMA ClaimsStay ==
  ASSUME NEW a \in Assets, \A p \in Positions : Claim(p, a)' = GrownClaim(p, a)
  PROVE  Claims(a)' = GrownClaims(a)
<1> DEFINE f == [x \in Positions |-> GrownClaim(x, a)]
           g == [x \in Positions |-> Claim(x, a)']
<1>1. f = g
  OBVIOUS
<1>2. GrownClaims(a) = SumFunctionOnSet(f, Positions)
        /\ Claims(a)' = SumFunctionOnSet(g, Positions)
  BY DEF GrownClaims, Claims, SumFunction
<1> QED
  BY <1>1, <1>2

\* So the books go on covering the claims when they cover what was added.
LEMMA StillOwing ==
  ASSUME Shape, LiquidityIsSum, Owing, NEW b, NEW d, Grew(b, d), NEW a \in Assets,
         NEW paid \in Int, NEW add \in Int, Claims(a)' <= GrownClaims(a) - Q * paid,
         Part(a, b, d) * Active <= Q * add, Claims(a)' \in Int,
         Books(a) \in Int, Books(a)' = Books(a) + add - paid
  PROVE  Claims(a)' <= Q * Books(a)'
<1>1. GrownClaims(a) = Claims(a) + Part(a, b, d) * Active /\ Claims(a) \in Int
        /\ GrownClaims(a) \in Int /\ Active \in Nat
  BY ClaimsGrew
<1>2. Claims(a) <= Q * Books(a)
  BY DEF Owing
<1>3. Q \in Int /\ Part(a, b, d) \in Int
  BY ClmmAssumption DEF Grew, Part
<1> DEFINE B == Books(a)
           C == Claims(a)'
           E == Books(a)'
           P == Part(a, b, d) * Active
<1>4. P \in Int /\ C \in Int /\ B \in Int /\ E = (B + add) - paid
  BY <1>1, <1>3
<1> HIDE DEF B, C, E, P
<1>5. Q * ((B + add) - paid) = Q * (B + add) - Q * paid /\ Q * (B + add) = Q * B + Q * add
        /\ Q * B \in Int /\ Q * add \in Int /\ Q * paid \in Int
  BY <1>3, <1>4, Distribute
<1>6. C <= GrownClaims(a) - Q * paid /\ P <= Q * add
  BY DEF P, C
<1>7. GrownClaims(a) = Claims(a) + P /\ Claims(a) <= Q * B
  BY <1>1, <1>2 DEF P, B
<1>8. C <= Q * E
  BY <1>1, <1>4, <1>5, <1>6, <1>7
<1> QED
  BY <1>8 DEF C, E

-----------------------------------------------------------------------------
(* Rounding and coming round.                                              *)

LEMMA WrappingType ==
  ASSUME NEW x \in Int, NEW y \in Int
  PROVE  WrappingSub(x, y) \in Nat
<1>1. Modulus \in Nat \ {0} /\ x - y \in Int
  BY ClmmAssumption
<1>2. PICK k \in Int, s \in 0..(Modulus - 1) : x - y = k * Modulus + s /\ (x - y) % Modulus = s
  BY <1>1, ModIs
<1> QED
  BY <1>1, <1>2 DEF WrappingSub

\* A growth inside is a difference that has come round once already.
LEMMA WrappingAgain ==
  ASSUME NEW x \in Int, NEW y \in Int, NEW z \in Int, z = x % Modulus
  PROVE  WrappingSub(z, y) = WrappingSub(x, y) /\ WrappingSub(x, z) = 0
<1>1. Modulus \in Nat \ {0} /\ x - z \in Int /\ 0 \in 0..(Modulus - 1)
  BY ClmmAssumption
<1>2. ((x % Modulus) - y) % Modulus = (x - y) % Modulus
  BY <1>1, ModMinus
<1>3. PICK k \in Int, s \in 0..(Modulus - 1) : x = k * Modulus + s /\ x % Modulus = s
  BY <1>1, ModIs
<1>4. x - z = k * Modulus + 0
  <2> DEFINE m == k * Modulus
  <2>1. m \in Int /\ x = m + s /\ z = s
    BY <1>1, <1>3
  <2> HIDE DEF m
  <2>2. x - z = m + 0
    BY <2>1
  <2> QED
    BY <2>2 DEF m
<1>5. (x - z) % Modulus = 0
  BY <1>1, <1>4, ModUnique
<1> QED
  BY <1>2, <1>5 DEF WrappingSub

\* What is settled is rounded down.
LEMMA AccruedFloor ==
  ASSUME NEW q \in Personals, NEW inside \in [Assets -> U128], NEW a \in Assets,
         NEW x \in Int, q.liquidity > 0 => WrappingSub(inside[a], q.last[a]) = x
  PROVE  Accrued(q, inside, a) \in Nat /\ Q * Accrued(q, inside, a) <= x * q.liquidity
<1> DEFINE w == WrappingSub(inside[a], q.last[a])
           L == q.liquidity
<1>1. inside[a] \in Int /\ q.last[a] \in Int /\ L \in Nat /\ Q \in Nat \ {0}
  BY ClmmAssumption DEF Personals, U128
<1>2. w \in Nat
  BY <1>1, WrappingType
<1>3. Accrued(q, inside, a) = (w * L) \div Q
  BY DEF Accrued, WrappingSub
<1> HIDE DEF w, L
<1>4. w * L \in Nat
  BY <1>1, <1>2
<1>5. (w * L) \div Q \in Nat /\ ((w * L) \div Q) * Q <= w * L
  BY <1>1, <1>4, DivFloor
<1>6. ((w * L) \div Q) * Q = Q * ((w * L) \div Q)
  BY <1>1, <1>5
<1>7. w * L = x * L
  <2>1. CASE L = 0
    BY <2>1, <1>2
  <2>2. CASE L > 0
    BY <2>2 DEF w, L
  <2> QED
    BY <2>1, <2>2, <1>1
<1> QED
  BY <1>3, <1>5, <1>6, <1>7 DEF L

-----------------------------------------------------------------------------
(* A modification keeps the invariant.                                     *)

LEMMA EmissionGrew ==
  ASSUME Shape, Closed, ~swap.on, NEW e \in Emissions, Emit(e), Growths' = growth',
         history'.earned = Earned(Reward, Grown(e), pool.tick_current)
  PROVE  /\ Grew(Reward, Grown(e))
         /\ history'.earned \in [Ranges -> [Assets -> Nat]]
<1>1. /\ Grown(e) \in Nat /\ growth' \in [Assets -> U128]
      /\ \A a \in Assets : growth'[a] = growth[a] + (IF a = Reward THEN Grown(e) ELSE 0)
  BY EmitGrows
<1>2. Growths = growth /\ Tick = pool.tick_current
  BY DEF Growths, Tick
<1>3. history.earned \in [Ranges -> [Assets -> Nat]] /\ Reward \in Assets
  BY DEF Shape, Histories, Assets
<1>4. ASSUME NEW r \in Ranges
      PROVE  /\ history'.earned[r] \in [Assets -> Nat]
             /\ \A a \in Assets : history'.earned[r][a] = history.earned[r][a]
                  + (IF InRange(r, Tick) THEN Part(a, Reward, Grown(e)) ELSE 0)
  <2>1. history'.earned[r] = IF InRange(r, Tick)
                             THEN [history.earned[r] EXCEPT ![Reward] = @ + Grown(e)]
                             ELSE history.earned[r]
    BY <1>2 DEF Earned
  <2>2. history.earned[r] \in [Assets -> Nat]
    BY <1>3
  <2>3. CASE InRange(r, Tick)
    BY <1>1, <1>3, <2>1, <2>2, <2>3 DEF Part
  <2>4. CASE ~InRange(r, Tick)
    BY <1>1, <1>3, <2>1, <2>2, <2>4 DEF Part
  <2> QED
    BY <2>3, <2>4
<1>5. history'.earned \in [Ranges -> [Assets -> Nat]]
  BY <1>4 DEF Earned
<1> QED
  BY <1>1, <1>2, <1>4, <1>5 DEF Grew, Part

\* A modification leaves the growth outside a tick that stays in use.
LEMMA TicksModifiedKeep ==
  ASSUME Shape, Closed, LiquidityIsSum, ~swap.on, swap' = swap, NEW r \in Ranges,
         NEW delta \in Int, NEW e \in Emissions, ModifyPosition(r, delta, e), Bounded,
         Grew(Reward, Grown(e))
  PROVE  TicksKeep /\ Bounded'
<1>1. /\ Growths = growth /\ Growths' = growth' /\ Tick' = Tick
  <2>1. Tick = pool.tick_current /\ pool'.tick_current = pool.tick_current
    BY RecordsModified DEF Tick
  <2> QED
    BY <2>1 DEF Growths, Tick
<1>2. \A t \in Ticks :
        /\ ticks'[t].outside \in {ticks[t].outside, growth', Zero}
        /\ ticks[t].gross # 0 /\ ticks'[t].gross # 0 => ticks'[t].outside = ticks[t].outside
  BY TicksModified
<1>3. TicksKeep
  BY <1>1, <1>2 DEF TicksKeep, Below, GrownBelow, BelowAt
<1>4. \A a \in Assets : Growths'[a] \in Nat /\ Growths[a] \in Nat /\ Growths[a] <= Growths'[a]
  BY NowTypes DEF Grew, Part, U128
<1>5. \A a \in Assets : Zero[a] = 0
  BY DEF Zero
<1>6. ASSUME NEW t \in Ticks, NEW a \in Assets PROVE ticks'[t].outside[a] \in 0..Growths'[a]
  <2>1. ticks[t].outside[a] \in 0..Growths[a]
    BY DEF Bounded
  <2> QED
    BY <1>1, <1>2, <1>4, <1>5, <2>1
<1> QED
  BY <1>3, <1>6 DEF Bounded

\* The position that ModifyPosition is called for, and what it then is: q,
\* with paid[a] of what it was owed gone.
Modification(p, r, delta, e, q, paid) ==
  /\ ~swap.on /\ swap' = swap
  /\ ModifyPosition(r, delta, e)
  /\ history' = Recorded(p, r, e)
  /\ PositionBecomes(p, q)
  /\ q.open /\ q.range = r /\ q.liquidity = personal[p].liquidity + delta
  /\ q.last = protocol'[r].inside
  /\ personal[p].range = r \/ personal[p].liquidity = 0
  /\ \A a \in Assets :
       q.owed[a] = personal[p].owed[a] + Accrued(personal[p], protocol'[r].inside, a) - paid[a]
  /\ claimed' = [a \in Assets |-> claimed[a] + paid[a]]
  /\ status' \subseteq Operations /\ protocol_fees' = protocol_fees
  /\ reward_vault' \in Nat /\ steps' \in 0..MaxSteps

\* The invariant through a modification of a range with its position.
LEMMA ModificationKeeps ==
  ASSUME ClmmInv, NEW p \in Positions, NEW r \in Ranges, NEW delta \in Int,
         NEW e \in Emissions, NEW q \in Personals, NEW paid \in [Assets -> Nat],
         Modification(p, r, delta, e, q, paid)
  PROVE  ClmmInv'
<1>1. /\ Shape /\ Closed /\ LiquidityIsSum /\ Tables /\ Place /\ Search
      /\ Bounded /\ Noted /\ Taken /\ Owing
  BY DEF ClmmInv
<1>2. /\ ~swap.on /\ swap' = swap /\ ModifyPosition(r, delta, e) /\ PositionBecomes(p, q)
      /\ q.range = r /\ q.liquidity = personal[p].liquidity + delta
      /\ personal[p].range = r \/ personal[p].liquidity = 0
      /\ history' = Recorded(p, r, e) /\ q.last = protocol'[r].inside
  BY DEF Modification
<1>3. Emit(e)
  BY <1>2 DEF ModifyPosition
<1>4. /\ history'.earned = Earned(Reward, Grown(e), pool.tick_current)
      /\ history'.protocol = [history.protocol EXCEPT ![r] = history'.earned[r]]
      /\ history'.personal = [history.personal EXCEPT ![p] = history'.earned[r]]
      /\ history' = [earned |-> history'.earned, protocol |-> history'.protocol,
                     personal |-> history'.personal]
  BY <1>1, <1>2 DEF Recorded, Shape, Histories
<1>5. Growths = growth /\ Growths' = growth' /\ Tick = pool.tick_current
        /\ Tick' = pool.tick_current /\ Active = pool.liquidity
  <2>1. pool'.tick_current = pool.tick_current
    BY <1>1, <1>2, RecordsModified
  <2> QED
    BY <1>2, <2>1 DEF Growths, Tick, Active
<1>6. Grew(Reward, Grown(e)) /\ history'.earned \in [Ranges -> [Assets -> Nat]]
  BY <1>1, <1>2, <1>3, <1>4, <1>5, EmissionGrew
<1>7. TicksKeep /\ Bounded'
  BY <1>1, <1>2, <1>6, TicksModifiedKeep
<1>8. LiquidityIsSum' /\ pool'.liquidity >= 0
  BY <1>1, <1>2, SumsModified
<1>9. Tables' /\ count' \in [Arrays -> Int] /\ bitmap' \subseteq Arrays
  BY <1>1, <1>2, TablesModified
<1>10. personal \in [Positions -> Personals] /\ personal' \in [Positions -> Personals]
         /\ personal'[p] = q /\ \A x \in Positions \ {p} : personal'[x] = personal[x]
  BY <1>1, <1>2 DEF PositionBecomes, Shape
<1>11. EndsAreUsed /\ EndsAreUsed'
  <2>1. PositionsTyped' /\ LiquidityIsSum' => EndsAreUsed'
    BY EndsUsed, PTL
  <2> QED
    BY <1>1, <1>8, <1>10, <2>1, EndsUsed DEF PositionsTyped
<1>12. /\ ticks' \in [Ticks -> TickStates] /\ growth' \in [Assets -> U128]
       /\ ticks \in [Ticks -> TickStates] /\ pool.tick_current \in Int
       /\ protocol' \in [Ranges -> Protocols]
       /\ protocol'[r].liquidity = protocol[r].liquidity + delta
       /\ \A s \in Ranges \ {r} : protocol'[s] = protocol[s]
       /\ pool' \in [liquidity : Int, tick_current : Int, price : Int]
       /\ pool'.price = pool.price
       /\ total' \in [Assets -> Nat]
       /\ \A a \in Assets : total'[a] = total[a] + (IF a = Reward THEN Emitted(e) ELSE 0)
       /\ Emitted(e) \in Nat /\ Grown(e) * pool.liquidity <= Q * Emitted(e)
  BY <1>1, <1>2, <1>3, TicksModified, RecordsModified, EmitGrows DEF Shape
<1>13. ASSUME NEW a \in Assets
       PROVE  /\ protocol'[r].inside[a] \in Int
              /\ protocol'[r].liquidity > 0 =>
                   /\ InsideOf(r, a)' \in Int
                   /\ protocol'[r].inside[a] = InsideOf(r, a)' % Modulus
              /\ protocol[r].liquidity > 0 =>
                   /\ GrownInside(r, a) \in Int
                   /\ protocol'[r].inside[a] = GrownInside(r, a) % Modulus
  <2>1. protocol'[r].inside[a] \in Int
    BY <1>12 DEF Protocols, U128
  <2>2. protocol[r].liquidity + delta > 0 =>
          protocol'[r].inside = Inside(ticks', growth', r, pool.tick_current)
    BY <1>1, <1>2, TicksModified
  <2>3. protocol[r].liquidity > 0 =>
          protocol'[r].inside = Inside(ticks, growth', r, pool.tick_current)
    BY <1>1, <1>2, TicksModified
  <2>4. /\ Inside(ticks', growth', r, pool.tick_current)[a] = InsideOf(r, a)' % Modulus
        /\ InsideOf(r, a)' \in Int
    <3>1. /\ Inside(ticks', growth', r, pool.tick_current)[a]
               = (BelowAt(ticks', growth', pool.tick_current, r[2], a)
                  - BelowAt(ticks', growth', pool.tick_current, r[1], a)) % Modulus
          /\ BelowAt(ticks', growth', pool.tick_current, r[1], a) \in Int
          /\ BelowAt(ticks', growth', pool.tick_current, r[2], a) \in Int
      BY <1>12, InsideIs
    <3> QED
      BY <3>1, <1>5 DEF InsideOf, Below
  <2>5. /\ Inside(ticks, growth', r, pool.tick_current)[a] = GrownInside(r, a) % Modulus
        /\ GrownInside(r, a) \in Int
    <3>1. /\ Inside(ticks, growth', r, pool.tick_current)[a]
               = (BelowAt(ticks, growth', pool.tick_current, r[2], a)
                  - BelowAt(ticks, growth', pool.tick_current, r[1], a)) % Modulus
          /\ BelowAt(ticks, growth', pool.tick_current, r[1], a) \in Int
          /\ BelowAt(ticks, growth', pool.tick_current, r[2], a) \in Int
      BY <1>12, InsideIs
    <3> QED
      BY <3>1, <1>5 DEF GrownInside, GrownBelow
  <2> QED
    BY <1>12, <2>1, <2>2, <2>3, <2>4, <2>5
<1>14. /\ \A s \in Ranges, a \in Assets :
            /\ history'.earned[s][a] \in Nat
            /\ history.protocol[s][a] <= history.earned[s][a]
            /\ history.earned[s][a] <= history'.earned[s][a]
            /\ history'.earned[s][a] <= Growths'[a]
            /\ protocol[s].liquidity > 0 =>
                 WrappingSub(GrownInside(s, a), protocol[s].inside[a])
                   = history'.earned[s][a] - history.protocol[s][a]
       /\ \A x \in Positions, a \in Assets, s \in Ranges :
            s = personal[x].range /\ personal[x].liquidity > 0 =>
              WrappingSub(GrownInside(s, a), personal[x].last[a])
                = history'.earned[s][a] - history.personal[x][a]
  BY <1>1, <1>6, NotesGrown
<1>15. /\ \A a \in Assets : history'.protocol[r][a] = history'.earned[r][a]
       /\ \A s \in Ranges \ {r} : history'.protocol[s] = history.protocol[s]
       /\ history'.personal[p] = history'.earned[r]
       /\ \A x \in Positions \ {p} : history'.personal[x] = history.personal[x]
       /\ history' \in Histories
  <2>1. history.protocol \in [Ranges -> [Assets -> Nat]]
          /\ history.personal \in [Positions -> [Assets -> Nat]]
    BY <1>1 DEF Shape, Histories
  <2>2. /\ history'.protocol \in [Ranges -> [Assets -> Nat]]
        /\ history'.protocol[r] = history'.earned[r]
        /\ \A s \in Ranges \ {r} : history'.protocol[s] = history.protocol[s]
    BY <1>4, <1>6, <2>1
  <2>3. /\ history'.personal \in [Positions -> [Assets -> Nat]]
        /\ history'.personal[p] = history'.earned[r]
        /\ \A x \in Positions \ {p} : history'.personal[x] = history.personal[x]
    BY <1>4, <1>6, <2>1
  <2>4. history' \in Histories
    BY <1>4, <1>6, <2>2, <2>3 DEF Histories
  <2> QED
    BY <2>2, <2>3, <2>4
<1>16. Noted'
  <2> SUFFICES ASSUME NEW s \in Ranges, NEW a \in Assets
               PROVE  /\ history'.protocol[s][a] <= history'.earned[s][a]
                      /\ history'.earned[s][a] <= Growths'[a]
                      /\ protocol'[s].liquidity > 0 =>
                           WrappingSub(InsideOf(s, a)', protocol'[s].inside[a])
                             = history'.earned[s][a] - history'.protocol[s][a]
    BY DEF Noted
  <2>1. history'.earned[s][a] \in Nat /\ history.protocol[s][a] \in Nat
          /\ history.earned[s][a] \in Nat
    BY <1>1, <1>14 DEF Shape, Histories
  <2>2. CASE s = r
    <3>1. ASSUME protocol'[r].liquidity > 0
          PROVE  WrappingSub(InsideOf(r, a)', protocol'[r].inside[a]) = 0
      BY <1>13, <3>1, WrappingAgain
    <3> QED
      BY <1>14, <1>15, <2>1, <2>2, <3>1
  <2>3. CASE s # r
    <3>1. protocol'[s] = protocol[s] /\ history'.protocol[s] = history.protocol[s]
      BY <1>12, <1>15, <2>3
    <3>2. ASSUME protocol'[s].liquidity > 0
          PROVE  InsideOf(s, a)' = GrownInside(s, a)
      BY <1>7, <1>11, <3>1, <3>2, InsideKept
    <3> QED
      BY <1>14, <2>1, <3>1, <3>2
  <2> QED
    BY <2>2, <2>3
<1>17. Taken'
  <2> SUFFICES ASSUME NEW x \in Positions, NEW a \in Assets, NEW s \in Ranges,
                      s = personal'[x].range, personal'[x].liquidity > 0
               PROVE  /\ history'.personal[x][a] <= history'.protocol[s][a]
                      /\ WrappingSub(InsideOf(s, a)', personal'[x].last[a])
                           = history'.earned[s][a] - history'.personal[x][a]
    BY <1>10 DEF Taken, Personals
  <2>1. history'.earned[s][a] \in Nat /\ history.protocol[s][a] \in Nat
          /\ history.earned[s][a] \in Nat /\ history.personal[x][a] \in Nat
    BY <1>1, <1>14 DEF Shape, Histories
  <2>2. protocol'[s].liquidity > 0
    BY <1>10, <1>11, <1>12 DEF EndsAreUsed, Personals, Protocols
  <2>3. CASE x = p
    <3>1. s = r /\ personal'[x].last[a] = protocol'[r].inside[a]
      BY <1>2, <1>10, <2>3
    <3>2. WrappingSub(InsideOf(r, a)', protocol'[r].inside[a]) = 0
      BY <1>13, <2>2, <3>1, WrappingAgain
    <3> QED
      BY <1>15, <2>1, <2>3, <3>1, <3>2
  <2>4. CASE x # p
    <3>1. personal'[x] = personal[x] /\ history'.personal[x] = history.personal[x]
      BY <1>10, <1>15, <2>4
    <3>2. protocol[s].liquidity > 0
      BY <1>1, <1>10, <1>11, <3>1 DEF EndsAreUsed, Personals, Shape, Protocols
    <3>3. InsideOf(s, a)' = GrownInside(s, a)
      BY <1>7, <1>11, <2>2, <3>2, InsideKept
    <3>4. history.personal[x][a] <= history.protocol[s][a]
      BY <1>1, <3>1 DEF Taken
    <3>5. history.protocol[s][a] <= history'.protocol[s][a]
      BY <1>14, <1>15, <2>1
    <3> QED
      BY <1>14, <1>15, <2>1, <3>1, <3>3, <3>4, <3>5
  <2> QED
    BY <2>3, <2>4
<1>18. Owing'
  <2> SUFFICES ASSUME NEW a \in Assets PROVE Claims(a)' <= Q * Books(a)'
    BY DEF Owing
  <2> DEFINE add == IF a = Reward THEN Emitted(e) ELSE 0
             o == personal[p].owed[a]
             c == Accrued(personal[p], protocol'[r].inside, a)
             m == history'.earned[personal[p].range][a] - history.personal[p][a]
             L == personal[p].liquidity
  <2>1. /\ \A x \in Positions : GrownClaim(x, a) \in Int
        /\ GrownClaims(a) \in Int /\ Active \in Nat
    BY <1>1, <1>6, ClaimsGrew
  <2>2. Q \in Nat \ {0} /\ o \in Nat /\ paid[a] \in Nat /\ L \in Nat /\ m \in Int
          /\ personal[p].range \in Ranges
    BY <1>1, <1>6, <1>10, ClmmAssumption DEF Personals, Shape, Histories
  <2>3. c \in Nat /\ Q * c <= m * L
    <3>1. ASSUME L > 0 PROVE WrappingSub(protocol'[r].inside[a], personal[p].last[a]) = m
      <4>1. r = personal[p].range /\ protocol[r].liquidity > 0
        BY <1>2, <1>11, <2>2, <3>1 DEF EndsAreUsed
      <4>2. WrappingSub(GrownInside(r, a), personal[p].last[a]) = m
        BY <1>14, <3>1, <4>1
      <4>3. personal[p].last[a] \in Int
        BY <1>10 DEF Personals, U128
      <4> HIDE DEF m, L
      <4> QED
        BY <1>13, <4>1, <4>2, <4>3, WrappingAgain
    <3>2. protocol'[r].inside \in [Assets -> U128] /\ personal[p] \in Personals
      BY <1>10, <1>12 DEF Protocols
    <3> HIDE DEF m
    <3> QED
      BY <2>2, <3>1, <3>2, AccruedFloor
  <2>4. q.owed[a] = o + c - paid[a]
    BY DEF Modification
  <2>5. Claim(p, a)' = Q * q.owed[a]
    <3>1. history'.earned[r][a] - history'.personal[p][a] = 0 /\ q.liquidity \in Nat
            /\ q.owed[a] \in Nat
      BY <1>14, <1>15 DEF Personals
    <3>2. Claim(p, a)' = Q * q.owed[a]
                           + (history'.earned[r][a] - history'.personal[p][a]) * q.liquidity
      BY <1>2, <1>10 DEF Claim
    <3>3. Q * q.owed[a] \in Int
      BY <2>2, <3>1
    <3> QED
      BY <3>1, <3>2, <3>3
  <2>6. GrownClaim(p, a) = Q * o + m * L
    BY DEF GrownClaim
  <2>7. Claim(p, a)' <= GrownClaim(p, a) - Q * paid[a] /\ Claim(p, a)' \in Int
    <3> HIDE DEF o, c, m, L
    <3> DEFINE z == paid[a]
               w == o + c
    <3>1. Q \in Int /\ o \in Int /\ c \in Int /\ z \in Int /\ w \in Int /\ m * L \in Int
            /\ Q * o \in Int /\ Q * c \in Int /\ Q * z \in Int
      BY <2>2, <2>3
    <3>2. q.owed[a] = w - z
      BY <2>4, <3>1
    <3> HIDE DEF z
    <3>3. Q * (w - z) = Q * w - Q * z
      BY <3>1, Distribute
    <3>4. Q * w = Q * o + Q * c
      BY <3>1, Distribute
    <3> HIDE DEF w
    <3>5. Q * (w - z) <= (Q * o + m * L) - Q * z /\ Q * (w - z) \in Int
      BY <2>3, <3>1, <3>3, <3>4
    <3>6. Claim(p, a)' = Q * (w - z) /\ GrownClaim(p, a) = Q * o + m * L
      BY <2>5, <2>6, <3>2
    <3> DEFINE after == Q * (w - z)
               before == Q * o + m * L
               gone == Q * z
    <3>7. after <= before - gone /\ after \in Int
      BY <3>5
    <3>8. Claim(p, a)' = after /\ GrownClaim(p, a) = before
      BY <3>6
    <3> HIDE DEF after, before, gone
    <3>9. Claim(p, a)' <= GrownClaim(p, a) - gone /\ Claim(p, a)' \in Int
      BY <3>7, <3>8
    <3> QED
      BY <3>9 DEF gone, z
  <2>8. \A x \in Positions \ {p} : Claim(x, a)' = GrownClaim(x, a)
    BY <1>10, <1>15 DEF Claim, GrownClaim
  <2>9. \A x \in Positions : Claim(x, a)' \in Int
    BY <2>1, <2>7, <2>8
  <2>10. Q * paid[a] \in Int /\ paid[a] \in Int
    BY <2>2
  <2>11. Claims(a)' \in Int /\ Claims(a)' <= GrownClaims(a) - Q * paid[a]
    <3> DEFINE z == Q * paid[a]
    <3>1. z \in Int /\ Claim(p, a)' <= GrownClaim(p, a) - z
      BY <2>7, <2>10
    <3> HIDE DEF z
    <3>2. Claims(a)' \in Int /\ Claims(a)' <= GrownClaims(a) - z
      BY <2>1, <2>8, <2>9, <3>1, ClaimsSettled
    <3> QED
      BY <3>2 DEF z
  <2>12. Books(a) \in Int /\ add \in Int /\ Books(a)' = Books(a) + add - paid[a]
    <3>1. claimed'[a] = claimed[a] + paid[a] /\ claimed[a] \in Nat /\ total[a] \in Nat
      BY <1>1 DEF Modification, Shape
    <3>2. Books(a) = total[a] - claimed[a] /\ Books(a)' = total'[a] - claimed'[a]
      BY <1>1, <1>2, <1>12, <3>1 DEF Books, Shape
    <3>3. total'[a] = total[a] + add /\ add \in Nat
      BY <1>12
    <3> QED
      BY <2>2, <3>1, <3>2, <3>3
  <2>13. Part(a, Reward, Grown(e)) * Active <= Q * add
    <3>1. CASE a = Reward
      BY <1>5, <1>12, <3>1 DEF Part
    <3>2. CASE a # Reward
      BY <2>1, <2>2, <3>2 DEF Part
    <3> QED
      BY <3>1, <3>2
  <2> HIDE DEF add
  <2> QED
    BY <1>1, <1>6, <2>10, <2>11, <2>12, <2>13, StillOwing
<1>19. Shape'
  <2>1. claimed' \in [Assets -> Nat] /\ status' \subseteq Operations
          /\ protocol_fees' \in [Tokens -> Nat] /\ reward_vault' \in Nat /\ steps' \in 0..MaxSteps
    BY <1>1 DEF Modification, Shape
  <2>2. swap' = NoSwap \/ swap' \in Swaps
    BY <1>1, <1>2 DEF Shape
  <2>3. bitmap' \subseteq Arrays /\ count' \in [Arrays -> Int]
    BY <1>9
  <2> QED
    BY <1>10, <1>12, <1>15, <2>1, <2>2, <2>3 DEF Shape, NoSwap
<1>20. Closed'
  <2>1. q.open
    BY DEF Modification
  <2> QED
    BY <1>1, <1>8, <1>10, <2>1 DEF Closed
<1>21. Place' /\ Search'
  <2>1. ~swap'.on /\ Price' = Price /\ Tick' = Tick
    BY <1>2, <1>5, <1>12 DEF Price
  <2> QED
    BY <1>1, <2>1 DEF Place, Search
<1> QED
  BY <1>7, <1>8, <1>9, <1>16, <1>17, <1>18, <1>19, <1>20, <1>21 DEF ClmmInv

-----------------------------------------------------------------------------
(* What leaves the ticks alone keeps the invariant.                        *)

\* Position p becomes q, with the liquidity it has.
Retaking(p, q, paid) ==
  /\ ~swap.on /\ UNCHANGED <<books, swap>>
  /\ PositionBecomes(p, q)
  /\ q.liquidity = personal[p].liquidity
  /\ q.range = personal[p].range \/ q.liquidity = 0
  /\ q.open \/ (q.liquidity = 0 /\ q.owed = Zero)
  /\ history' \in Histories
  /\ history'.earned = history.earned /\ history'.protocol = history.protocol
  /\ \A x \in Positions \ {p} : history'.personal[x] = history.personal[x]
  /\ q.liquidity > 0 =>
       \A a \in Assets :
         /\ history'.personal[p][a] <= history.protocol[q.range][a]
         /\ WrappingSub(InsideOf(q.range, a), q.last[a])
              = history.earned[q.range][a] - history'.personal[p][a]
  /\ \A a \in Assets :
       Q * q.owed[a] + (history.earned[q.range][a] - history'.personal[p][a]) * q.liquidity
         <= Claim(p, a) - Q * paid[a]
  /\ claimed' = [a \in Assets |-> claimed[a] + paid[a]]
  /\ status' \subseteq Operations /\ protocol_fees' = protocol_fees
  /\ reward_vault' \in Nat /\ steps' \in 0..MaxSteps

\* The invariant when a position takes note of its range and nothing else.
LEMMA RetakingKeeps ==
  ASSUME ClmmInv, NEW p \in Positions, NEW q \in Personals, NEW paid \in [Assets -> Nat],
         Retaking(p, q, paid)
  PROVE  ClmmInv'
<1>1. /\ Shape /\ Closed /\ LiquidityIsSum /\ Tables /\ Place /\ Search
      /\ Bounded /\ Noted /\ Taken /\ Owing
  BY DEF ClmmInv
<1>2. /\ pool' = pool /\ growth' = growth /\ total' = total /\ ticks' = ticks
      /\ count' = count /\ bitmap' = bitmap /\ protocol' = protocol /\ swap' = swap
      /\ ~swap.on
  BY DEF Retaking, books
<1>3. /\ history'.earned = history.earned /\ history'.protocol = history.protocol
      /\ history' \in Histories /\ history \in Histories
      /\ \A x \in Positions \ {p} : history'.personal[x] = history.personal[x]
  BY <1>1 DEF Retaking, Shape
<1>4. personal \in [Positions -> Personals] /\ personal' \in [Positions -> Personals]
        /\ personal'[p] = q /\ \A x \in Positions \ {p} : personal'[x] = personal[x]
  BY <1>1 DEF Retaking, PositionBecomes, Shape
<1>5. /\ Growths' = Growths /\ Tick' = Tick /\ Price' = Price /\ Active' = Active
      /\ \A r \in Ranges, a \in Assets : InsideOf(r, a)' = InsideOf(r, a)
  BY <1>2 DEF Growths, Tick, Price, Active, InsideOf, Below, BelowAt
<1>6. Grew(Reward, 0)
  BY <1>1, <1>3, <1>5, NowTypes DEF Grew, Part, U128, Histories
<1>7. LiquidityIsSum'
  <2>1. ASSUME NEW R PROVE Sum(personal', R) = Sum(personal, R)
    <3>1. q.range = personal[p].range \/ personal[p].liquidity = 0
      BY DEF Retaking
    <3>2. Sum(personal', R) = Sum(personal, R)
            + (IF q.range \in R THEN q.liquidity - personal[p].liquidity ELSE 0)
      BY <1>4, <3>1, LiquidityChange
    <3>3. q.liquidity = personal[p].liquidity
      BY DEF Retaking
    <3>4. personal[p].liquidity \in Nat
      BY <1>4 DEF Personals
    <3>5. q.liquidity - personal[p].liquidity = 0
      BY <3>3, <3>4
    <3>6. Sum(personal, R) \in Nat
      BY <1>4, LiquidityNatural
    <3> QED
      BY <3>2, <3>5, <3>6
  <2>2. \A R : LiquidityOn(R)' = LiquidityOn(R)
    <3>1. \A R : LiquidityOn(R)' = Sum(personal', R)
      BY DEF LiquidityOn, SumFunction, Sum, LiquidityIn
    <3> QED
      BY <2>1, <3>1, LiquidityOnSum
  <2> QED
    BY <1>1, <1>2, <2>2 DEF LiquidityIsSum
<1>8. Tables' /\ Place' /\ Search' /\ Bounded'
  BY <1>1, <1>2, <1>5 DEF Tables, InArray, Initialized, Place, Search, Bounded
<1>9. Noted'
  BY <1>1, <1>2, <1>3, <1>5 DEF Noted
<1>10. Taken'
  <2> SUFFICES ASSUME NEW x \in Positions, NEW a \in Assets, NEW r \in Ranges,
                      r = personal'[x].range, personal'[x].liquidity > 0
               PROVE  /\ history'.personal[x][a] <= history'.protocol[r][a]
                      /\ WrappingSub(InsideOf(r, a)', personal'[x].last[a])
                           = history'.earned[r][a] - history'.personal[x][a]
    BY <1>4 DEF Taken, Personals
  <2>1. CASE x = p
    BY <1>3, <1>4, <1>5, <2>1 DEF Retaking
  <2>2. CASE x # p
    <3>1. personal'[x] = personal[x]
      BY <1>4, <2>2
    <3>2. /\ history.personal[x][a] <= history.protocol[r][a]
          /\ WrappingSub(InsideOf(r, a), personal[x].last[a])
               = history.earned[r][a] - history.personal[x][a]
      BY <1>1, <3>1 DEF Taken
    <3> QED
      BY <1>3, <1>5, <2>2, <3>1, <3>2
  <2> QED
    BY <2>1, <2>2
<1>11. Owing'
  <2> SUFFICES ASSUME NEW a \in Assets PROVE Claims(a)' <= Q * Books(a)'
    BY DEF Owing
  <2> DEFINE z == Q * paid[a]
             before == Claim(p, a)
  <2>1. /\ \A x \in Positions : GrownClaim(x, a) \in Int
        /\ GrownClaims(a) \in Int /\ Active \in Nat
    BY <1>1, <1>6, ClaimsGrew
  <2>2. GrownClaim(p, a) = before
    BY <1>3 DEF GrownClaim, Claim
  <2>3. z \in Int /\ paid[a] \in Nat /\ Q \in Int
    BY ClmmAssumption
  <2>4. Claim(p, a)' \in Int
    <3>1. /\ q.owed[a] \in Int /\ q.liquidity \in Int /\ Q \in Int /\ q.range \in Ranges
          /\ history'.personal[p][a] \in Int
      BY <1>3, <1>4, ClmmAssumption DEF Personals, Histories
    <3>2. history'.earned[q.range][a] \in Int
      BY <1>3, <3>1 DEF Histories
    <3> QED
      BY <1>4, <3>1, <3>2 DEF Claim
  <2>5. Claim(p, a)' <= before - z
    BY <1>3, <1>4 DEF Retaking, Claim
  <2>6. \A x \in Positions \ {p} : Claim(x, a)' = GrownClaim(x, a)
    BY <1>3, <1>4 DEF Claim, GrownClaim
  <2>7. \A x \in Positions : Claim(x, a)' \in Int
    BY <2>1, <2>4, <2>6
  <2>8. Claims(a)' \in Int /\ Claims(a)' <= GrownClaims(a) - z
    <3> HIDE DEF z, before
    <3>1. Claim(p, a)' <= GrownClaim(p, a) - z
      BY <2>2, <2>5
    <3> QED
      BY <2>1, <2>3, <2>6, <2>7, <3>1, ClaimsSettled
  <2> DEFINE add == 0
             d == 0
             out == paid[a]
  <2>9. /\ add \in Int /\ out \in Int /\ Books(a) \in Int
        /\ Books(a)' = Books(a) + add - out
    <3>1. claimed'[a] = claimed[a] + paid[a] /\ claimed[a] \in Nat /\ total[a] \in Nat
      BY <1>1 DEF Retaking, Shape
    <3>2. Books(a) = total[a] - claimed[a] /\ Books(a)' = total'[a] - claimed'[a]
      BY <1>1, <1>2, <3>1 DEF Books, Shape
    <3> QED
      BY <1>2, <2>3, <3>1, <3>2
  <2>10. Grew(Reward, d) /\ Part(a, Reward, d) * Active <= Q * add
    BY <1>6, <2>1, <2>3 DEF Part
  <2>11. Claims(a)' \in Int /\ Claims(a)' <= GrownClaims(a) - Q * out
    BY <2>8
  <2> HIDE DEF add, d, out
  <2> QED
    BY <1>1, <2>9, <2>10, <2>11, StillOwing
<1>12. Shape'
  <2>1. claimed' \in [Assets -> Nat] /\ status' \subseteq Operations
          /\ protocol_fees' \in [Tokens -> Nat] /\ reward_vault' \in Nat /\ steps' \in 0..MaxSteps
    BY <1>1 DEF Retaking, Shape
  <2> QED
    BY <1>1, <1>2, <1>3, <1>4, <2>1 DEF Shape, NoSwap
<1>13. Closed'
  BY <1>1, <1>2, <1>4 DEF Closed, Retaking
<1> QED
  BY <1>7, <1>8, <1>9, <1>10, <1>11, <1>12, <1>13 DEF ClmmInv

\* A growth that touches no position, of an asset that the books, or those
\* of the swap, go up by as well.
LEMMA GrowthKeeps ==
  ASSUME ClmmInv, EndsAreUsed', NEW b, NEW d, Grew(b, d), TicksKeep,
         UNCHANGED <<protocol, personal>>,
         history'.protocol = history.protocol, history'.personal = history.personal,
         NEW add \in Nat, d * Active <= Q * add,
         \A a \in Assets : Books(a) \in Int /\ Books(a)' = Books(a) + Part(a, b, add)
  PROVE  Noted' /\ Taken' /\ Owing'
<1>1. Shape /\ LiquidityIsSum /\ Noted /\ Taken /\ Owing
  BY DEF ClmmInv
<1>2. personal \in [Positions -> Personals] /\ EndsAreUsed
  BY <1>1, EndsUsed DEF Shape, PositionsTyped
<1>3. /\ \A r \in Ranges, a \in Assets :
           /\ history.protocol[r][a] \in Nat /\ history.earned[r][a] \in Nat
           /\ history'.earned[r][a] \in Nat
           /\ history.protocol[r][a] <= history.earned[r][a]
           /\ history.earned[r][a] <= history'.earned[r][a]
           /\ history'.earned[r][a] <= Growths'[a]
           /\ protocol[r].liquidity > 0 =>
                WrappingSub(GrownInside(r, a), protocol[r].inside[a])
                  = history'.earned[r][a] - history.protocol[r][a]
      /\ \A x \in Positions, a \in Assets, r \in Ranges :
           r = personal[x].range /\ personal[x].liquidity > 0 =>
             WrappingSub(GrownInside(r, a), personal[x].last[a])
               = history'.earned[r][a] - history.personal[x][a]
  BY <1>1, NotesGrown DEF Shape, Histories
<1>4. \A r \in Ranges, a \in Assets :
        protocol[r].liquidity > 0 => InsideOf(r, a)' = GrownInside(r, a)
  BY <1>2, InsideKept
<1>5. Noted'
  BY <1>3, <1>4 DEF Noted
<1>6. Taken'
  <2> SUFFICES ASSUME NEW x \in Positions, NEW a \in Assets, NEW r \in Ranges,
                      r = personal[x].range, personal[x].liquidity > 0
               PROVE  /\ history.personal[x][a] <= history.protocol[r][a]
                      /\ WrappingSub(InsideOf(r, a)', personal[x].last[a])
                           = history'.earned[r][a] - history.personal[x][a]
    BY <1>2 DEF Taken, Personals
  <2>1. protocol[r].liquidity > 0
    BY <1>2 DEF EndsAreUsed
  <2>2. history.personal[x][a] <= history.protocol[r][a]
    BY <1>1 DEF Taken
  <2> QED
    BY <1>3, <1>4, <2>1, <2>2
<1>7. Owing'
  <2> SUFFICES ASSUME NEW a \in Assets PROVE Claims(a)' <= Q * Books(a)'
    BY DEF Owing
  <2>1. Claims(a)' = GrownClaims(a)
    <3>1. \A x \in Positions : Claim(x, a)' = GrownClaim(x, a)
      BY DEF Claim, GrownClaim
    <3> QED
      BY <3>1, ClaimsStay
  <2>2. GrownClaims(a) \in Int /\ Active \in Nat
    BY <1>1, ClaimsGrew
  <2> DEFINE paid == 0
             part == Part(a, b, add)
  <2>3. Q \in Int /\ Q * paid = 0 /\ d \in Nat /\ paid \in Int
    BY ClmmAssumption DEF Grew
  <2>4. Claims(a)' \in Int /\ Claims(a)' <= GrownClaims(a) - Q * paid
    BY <2>1, <2>2, <2>3
  <2>5. part \in Int /\ Part(a, b, d) * Active <= Q * part
    <3>1. CASE a = b
      BY <3>1 DEF Part
    <3>2. CASE a # b
      <4>1. part = 0 /\ Part(a, b, d) = 0
        BY <3>2 DEF Part
      <4> QED
        BY <2>2, <2>3, <4>1
    <3> QED
      BY <3>1, <3>2
  <2>6. Books(a) \in Int /\ Books(a)' = Books(a) + part
    OBVIOUS
  <2>7. Books(a)' = Books(a) + part - paid
    BY <2>5, <2>6
  <2> HIDE DEF part, paid
  <2> QED
    BY <1>1, <2>3, <2>4, <2>5, <2>6, <2>7, StillOwing
<1> QED
  BY <1>5, <1>6, <1>7

\* What changes neither the books nor a position keeps the invariant.
LEMMA QuietKeeps ==
  ASSUME ClmmInv, UNCHANGED <<books, claimed, personal, swap, history>>,
         status' \subseteq Operations, protocol_fees' \in [Tokens -> Nat],
         reward_vault' \in Nat, steps' \in 0..MaxSteps
  PROVE  ClmmInv'
<1>1. /\ Shape /\ Closed /\ LiquidityIsSum /\ Tables /\ Place /\ Search
      /\ Bounded /\ Noted /\ Taken /\ Owing
  BY DEF ClmmInv
<1>2. /\ pool' = pool /\ growth' = growth /\ total' = total /\ ticks' = ticks
      /\ count' = count /\ bitmap' = bitmap /\ protocol' = protocol /\ swap' = swap
      /\ claimed' = claimed /\ personal' = personal /\ history' = history
  BY DEF books
<1>3. /\ Growths' = Growths /\ Tick' = Tick /\ Price' = Price /\ Side' = Side
      /\ \A r \in Ranges, a \in Assets : InsideOf(r, a)' = InsideOf(r, a)
  BY <1>2 DEF Growths, Tick, Price, Side, InsideOf, Below, BelowAt
<1>4. Shape'
  BY <1>1, <1>2 DEF Shape, NoSwap
<1>5. LiquidityIsSum'
  BY <1>1, <1>2 DEF LiquidityIsSum, LiquidityOn
<1>6. Closed' /\ Tables' /\ Place' /\ Search' /\ Bounded'
  BY <1>1, <1>2, <1>3 DEF Closed, Tables, InArray, Initialized, Place, Search, ArraysAhead,
     Bounded
<1>7. Noted' /\ Taken'
  <2>1. \A p \in Positions : personal[p].range \in Ranges
    BY <1>1 DEF Shape, Personals
  <2>2. Taken'
    <3> SUFFICES ASSUME NEW x \in Positions, NEW a \in Assets, NEW r \in Ranges,
                        r = personal[x].range, personal[x].liquidity > 0
                 PROVE  /\ history.personal[x][a] <= history.protocol[r][a]
                        /\ WrappingSub(InsideOf(r, a)', personal[x].last[a])
                             = history.earned[r][a] - history.personal[x][a]
      BY <1>2, <2>1 DEF Taken
    <3> QED
      BY <1>1, <1>3 DEF Taken
  <2> QED
    BY <1>1, <1>2, <1>3, <2>2 DEF Noted
<1>8. Owing'
  <2>1. \A a \in Assets : Claims(a)' = Claims(a) /\ Books(a)' = Books(a)
    BY <1>2, <1>3 DEF Claims, Claim, Books
  <2> QED
    BY <1>1, <2>1 DEF Owing
<1> QED
  BY <1>4, <1>5, <1>6, <1>7, <1>8 DEF ClmmInv

-----------------------------------------------------------------------------
(* The instructions on positions.                                          *)

LEMMA InstructionIs ==
  ASSUME Shape, Instruction
  PROVE  ~swap.on /\ steps' \in 0..MaxSteps
  BY ClmmAssumption DEF Instruction, Shape

\* What a wallet is paid when it is paid nothing.
LEMMA NothingPaid ==
  ASSUME Shape, claimed' = claimed
  PROVE  Zero \in [Assets -> Nat] /\ claimed' = [a \in Assets |-> claimed[a] + Zero[a]]
<1>1. Zero \in [Assets -> Nat] /\ \A a \in Assets : Zero[a] = 0
  BY DEF Zero
<1>2. claimed \in [Assets -> Nat]
  BY DEF Shape
<1>3. \A a \in Assets : claimed[a] + Zero[a] = claimed[a]
  BY <1>1, <1>2
<1> QED
  BY <1>1, <1>2, <1>3

\* A position without liquidity claims what it is owed.
LEMMA ClaimOfNone ==
  ASSUME Shape, NEW p \in Positions, personal[p].liquidity = 0, NEW a \in Assets
  PROVE  Claim(p, a) = Q * personal[p].owed[a]
<1>1. /\ personal[p].owed[a] \in Nat /\ personal[p].range \in Ranges /\ Q \in Nat
      /\ history.earned[personal[p].range][a] \in Nat /\ history.personal[p][a] \in Nat
  BY ClmmAssumption DEF Shape, Personals, Histories
<1> DEFINE x == history.earned[personal[p].range][a] - history.personal[p][a]
           y == Q * personal[p].owed[a]
<1>2. x \in Int /\ y \in Int
  BY <1>1
<1> HIDE DEF x, y
<1>3. y + x * 0 = y
  BY <1>2
<1> QED
  BY <1>3 DEF Claim, x, y

\* Nothing accrues to it.
LEMMA AccruedNone ==
  ASSUME NEW q \in Personals, q.liquidity = 0, NEW inside \in [Assets -> U128],
         NEW a \in Assets
  PROVE  Accrued(q, inside, a) = 0
<1> DEFINE w == (inside[a] - q.last[a]) % Modulus
<1>1. Modulus \in Nat \ {0} /\ Q \in Nat \ {0} /\ inside[a] - q.last[a] \in Int
  BY ClmmAssumption DEF Personals, U128
<1>2. w \in Int
  BY <1>1
<1>3. Accrued(q, inside, a) = (w * 0) \div Q
  BY DEF Accrued
<1> HIDE DEF w
<1>4. w * 0 = 0 /\ 0 \div Q = 0
  BY <1>1, <1>2
<1> QED
  BY <1>3, <1>4

\* The update of a range falls between that of a position and now.
LEMMA WrappingBetween ==
  ASSUME NEW x \in Int, NEW y \in Int, NEW z \in Int, NEW s \in Int, NEW t \in Int,
         WrappingSub(x, y) = s, WrappingSub(x, z) = t, s <= t, t - s < Modulus
  PROVE  WrappingSub(y, z) = t - s
<1>1. Modulus \in Nat \ {0} /\ x - y \in Int /\ x - z \in Int
  BY ClmmAssumption
<1>2. PICK k \in Int, u \in 0..(Modulus - 1) : x - y = k * Modulus + u /\ (x - y) % Modulus = u
  BY <1>1, ModIs
<1>3. PICK j \in Int, v \in 0..(Modulus - 1) : x - z = j * Modulus + v /\ (x - z) % Modulus = v
  BY <1>1, ModIs
<1>4. s = u /\ t = v
  BY <1>2, <1>3 DEF WrappingSub
<1>5. (j - k) * Modulus = j * Modulus - k * Modulus /\ j - k \in Int
  BY <1>1, <1>2, <1>3, Distribute
<1> DEFINE a == j * Modulus
           b == k * Modulus
<1>6. a \in Int /\ b \in Int /\ x - y = b + s /\ x - z = a + t
  BY <1>1, <1>2, <1>3, <1>4
<1> HIDE DEF a, b
<1>7. y - z = (a - b) + (t - s)
  BY <1>6
<1>8. t - s \in 0..(Modulus - 1) /\ y - z \in Int
  BY <1>1
<1> DEFINE n == j - k
           d == t - s
<1>9. y - z = n * Modulus + d /\ n \in Int /\ d \in 0..(Modulus - 1)
  BY <1>5, <1>7, <1>8 DEF a, b
<1> HIDE DEF n, d
<1>10. (y - z) % Modulus = d
  BY <1>1, <1>8, <1>9, ModUnique
<1> QED
  BY <1>10 DEF WrappingSub, d

\* What add_liquidity does when there is something to add, and when not.
LEMMA AddLiquidityDoes ==
  ASSUME Shape, Closed, LiquidityIsSum, NEW p \in Positions, NEW r \in Ranges,
         NEW liquidity \in Liquidities, NEW e \in Emissions, AddLiquidity(p, r, liquidity, e)
  PROVE  /\ liquidity \in Nat
         /\ protocol'[r].inside \in [Assets -> U128]
         /\ \/ liquidity = 0 /\ UNCHANGED books /\ history' = TakenOver(p, r)
            \/ liquidity > 0 /\ ModifyPosition(r, liquidity, e) /\ history' = Recorded(p, r, e)
<1>1. liquidity \in Nat /\ liquidity \in Int
  BY ClmmAssumption
<1>2. CASE liquidity = 0
  <2>1. UNCHANGED books /\ history' = TakenOver(p, r)
    BY <1>2 DEF AddLiquidity
  <2>2. protocol' = protocol
    BY <2>1 DEF books
  <2> QED
    BY <1>2, <2>1, <2>2 DEF Shape, Protocols
<1>3. CASE liquidity # 0
  <2>1. ModifyPosition(r, liquidity, e) /\ history' = Recorded(p, r, e)
    BY <1>3 DEF AddLiquidity
  <2>2. protocol' \in [Ranges -> Protocols]
    BY <1>1, <2>1, RecordsModified
  <2> QED
    BY <1>1, <1>3, <2>1, <2>2 DEF Protocols
<1> QED
  BY <1>1, <1>2, <1>3

LEMMA TakenOverIs ==
  ASSUME Shape, NEW p \in Positions, NEW r \in Ranges, history' = TakenOver(p, r)
  PROVE  /\ history' \in Histories
         /\ history'.earned = history.earned /\ history'.protocol = history.protocol
         /\ \A x \in Positions \ {p} : history'.personal[x] = history.personal[x]
         /\ history'.personal[p] = history.protocol[r]
  BY DEF TakenOver, Shape, Histories

\* The invariant, instruction by instruction.
LEMMA OpenKeeps ==
  ASSUME ClmmInv, NEW p \in Positions, NEW r \in Ranges, NEW liquidity \in Liquidities,
         NEW e \in Emissions, OpenPosition(p, r, liquidity, e)
  PROVE  ClmmInv'
<1>1. Shape /\ Closed /\ LiquidityIsSum
  BY DEF ClmmInv
<1> DEFINE q == [open |-> TRUE, range |-> r, liquidity |-> liquidity,
                 last |-> protocol'[r].inside, owed |-> Zero]
<1>2. /\ ~swap.on /\ swap' = swap /\ steps' \in 0..MaxSteps /\ ~personal[p].open
      /\ status' = status /\ claimed' = claimed /\ protocol_fees' = protocol_fees
      /\ reward_vault' = reward_vault /\ AddLiquidity(p, r, liquidity, e)
      /\ personal' = [personal EXCEPT ![p] = q]
  BY <1>1, InstructionIs DEF OpenPosition
<1>3. /\ liquidity \in Nat /\ protocol'[r].inside \in [Assets -> U128]
      /\ \/ liquidity = 0 /\ UNCHANGED books /\ history' = TakenOver(p, r)
         \/ liquidity > 0 /\ ModifyPosition(r, liquidity, e) /\ history' = Recorded(p, r, e)
  BY <1>1, <1>2, AddLiquidityDoes
<1>4. /\ Zero \in [Assets -> Nat] /\ claimed' = [a \in Assets |-> claimed[a] + Zero[a]]
      /\ \A a \in Assets : Zero[a] = 0
  BY <1>1, <1>2, NothingPaid DEF Zero
<1>5. /\ personal \in [Positions -> Personals] /\ personal[p].liquidity = 0
      /\ personal[p].owed = Zero
  BY <1>1, <1>2 DEF Shape, Closed
<1>6. q \in Personals /\ PositionBecomes(p, q)
  <2>1. q \in Personals
    BY <1>3, <1>4 DEF Personals
  <2> HIDE DEF q
  <2> QED
    BY <1>2, <1>5, <2>1 DEF PositionBecomes
<1>7. q.open /\ q.range = r /\ q.liquidity = liquidity /\ q.last = protocol'[r].inside
        /\ q.owed = Zero
  OBVIOUS
<1>8. status' \subseteq Operations /\ reward_vault' \in Nat
  BY <1>1, <1>2 DEF Shape
<1> HIDE DEF q
<1>9. CASE liquidity = 0 /\ UNCHANGED books /\ history' = TakenOver(p, r)
  <2>1. ASSUME NEW a \in Assets
        PROVE  Q * q.owed[a] + (history.earned[q.range][a] - history'.personal[p][a]) * q.liquidity
                 <= Claim(p, a) - Q * Zero[a]
    <3>1. Claim(p, a) = Q * Zero[a] /\ Q \in Nat
      BY <1>1, <1>5, ClaimOfNone, ClmmAssumption
    <3>2. q.range \in Ranges /\ history.earned[q.range][a] \in Int
            /\ history'.personal[p][a] \in Int
      BY <1>1, <1>7, <1>9, TakenOverIs DEF Shape, Histories
    <3> DEFINE x == history.earned[q.range][a] - history'.personal[p][a]
    <3>3. x \in Int
      BY <3>2
    <3> HIDE DEF x
    <3>4. Q * q.owed[a] + x * q.liquidity <= Claim(p, a) - Q * Zero[a]
      BY <1>4, <1>7, <1>9, <3>1, <3>3
    <3> QED
      BY <3>4 DEF x
  <2>2. Retaking(p, q, Zero)
    BY <1>1, <1>2, <1>4, <1>5, <1>6, <1>7, <1>8, <1>9, <2>1, TakenOverIs DEF Retaking
  <2> QED
    BY <1>4, <1>6, <2>2, RetakingKeeps
<1>10. CASE liquidity > 0 /\ ModifyPosition(r, liquidity, e) /\ history' = Recorded(p, r, e)
  <2>1. ASSUME NEW a \in Assets
        PROVE  q.owed[a] = personal[p].owed[a] + Accrued(personal[p], protocol'[r].inside, a)
                             - Zero[a]
    <3>1. Accrued(personal[p], protocol'[r].inside, a) = 0
      BY <1>3, <1>5, AccruedNone
    <3> QED
      BY <1>4, <1>5, <1>7, <3>1
  <2>2. q.liquidity = personal[p].liquidity + liquidity
    BY <1>3, <1>5, <1>7
  <2>3. Modification(p, r, liquidity, e, q, Zero)
    BY <1>1, <1>2, <1>4, <1>5, <1>6, <1>7, <1>8, <1>10, <2>1, <2>2 DEF Modification
  <2>4. liquidity \in Int
    BY <1>3
  <2> QED
    BY <1>4, <1>6, <2>3, <2>4, ModificationKeeps
<1> QED
  BY <1>3, <1>9, <1>10

\* What a position accrues by the last update of its range.
LEMMA AccruedByUpdate ==
  ASSUME Shape, LiquidityIsSum, Noted, Taken, NEW p \in Positions, NEW r \in Ranges,
         r = personal[p].range, NEW a \in Assets
  PROVE  LET c == Accrued(personal[p], protocol[r].inside, a)
         IN  /\ c \in Nat
             /\ Q * c <= (history.protocol[r][a] - history.personal[p][a]) * personal[p].liquidity
             /\ personal[p].liquidity > 0 =>
                  WrappingSub(InsideOf(r, a), protocol[r].inside[a])
                    = history.earned[r][a] - history.protocol[r][a]
<1>1. /\ personal[p] \in Personals /\ protocol[r].inside \in [Assets -> U128]
      /\ history.earned[r][a] \in Nat /\ history.protocol[r][a] \in Nat
      /\ history.personal[p][a] \in Nat
      /\ protocol[r].inside[a] \in Int /\ personal[p].last[a] \in Int
  BY DEF Shape, Personals, Protocols, Histories, U128
<1>2. InsideOf(r, a) \in Int /\ Growths[a] \in U128
  BY NowTypes
<1>3. personal[p].liquidity > 0 => protocol[r].liquidity > 0
  BY EndsUsed DEF EndsAreUsed, PositionsTyped, Shape
<1>4. personal[p].liquidity > 0 =>
        /\ WrappingSub(InsideOf(r, a), protocol[r].inside[a])
             = history.earned[r][a] - history.protocol[r][a]
        /\ WrappingSub(InsideOf(r, a), personal[p].last[a])
             = history.earned[r][a] - history.personal[p][a]
        /\ history.personal[p][a] <= history.protocol[r][a]
  BY <1>3 DEF Noted, Taken
<1>5. history.protocol[r][a] < Modulus
  BY <1>1, <1>2, ClmmAssumption DEF Noted, U128
<1> DEFINE x == history.protocol[r][a] - history.personal[p][a]
<1>6. ASSUME personal[p].liquidity > 0
      PROVE  WrappingSub(protocol[r].inside[a], personal[p].last[a]) = x
  <2> DEFINE w == InsideOf(r, a)
             y == protocol[r].inside[a]
             z == personal[p].last[a]
             s == history.earned[r][a] - history.protocol[r][a]
             t == history.earned[r][a] - history.personal[p][a]
  <2>1. /\ w \in Int /\ y \in Int /\ z \in Int /\ s \in Int /\ t \in Int
        /\ WrappingSub(w, y) = s /\ WrappingSub(w, z) = t /\ s <= t /\ t - s < Modulus
    BY <1>1, <1>2, <1>4, <1>5, <1>6, ClmmAssumption
  <2>2. t - s = x
    BY <1>1
  <2> HIDE DEF w, y, z, s, t, x
  <2>3. WrappingSub(y, z) = t - s
    BY <2>1, WrappingBetween
  <2> QED
    BY <2>2, <2>3 DEF y, z
<1>7. x \in Int
  BY <1>1
<1>8. personal[p].liquidity > 0 =>
        WrappingSub(protocol[r].inside[a], personal[p].last[a]) = x
  BY <1>6
<1> HIDE DEF x
<1>9. Accrued(personal[p], protocol[r].inside, a) \in Nat
        /\ Q * Accrued(personal[p], protocol[r].inside, a) <= x * personal[p].liquidity
  BY <1>1, <1>7, <1>8, AccruedFloor
<1> QED
  BY <1>4, <1>9 DEF x

\* What is settled is taken from the part of the claim that was not.
LEMMA ClaimAfterUpdate ==
  ASSUME NEW o \in Int, NEW c \in Int, NEW e \in Int, NEW h \in Int, NEW i \in Int, NEW L \in Int,
         Q * c <= (h - i) * L
  PROVE  Q * (o + c) + (e - h) * L <= Q * o + (e - i) * L
<1>1. Q \in Int
  BY ClmmAssumption
<1>2. Q * (o + c) = Q * o + Q * c /\ Q * o \in Int /\ Q * c \in Int
  BY <1>1, Distribute
<1> DEFINE x == e - h
           y == h - i
<1>3. x \in Int /\ y \in Int /\ x + y = e - i
  OBVIOUS
<1> HIDE DEF x, y
<1>4. (x + y) * L = x * L + y * L /\ x * L \in Int /\ y * L \in Int
  BY <1>3, Distribute
<1>5. Q * c <= y * L
  BY DEF y
<1>6. Q * (o + c) + x * L <= Q * o + (x + y) * L
  BY <1>2, <1>4, <1>5
<1> QED
  BY <1>3, <1>6 DEF x

LEMMA SettledIs ==
  ASSUME NEW q \in Personals, NEW inside \in [Assets -> U128]
  PROVE  LET s == Settled(q, inside)
         IN  /\ s.open = q.open /\ s.range = q.range /\ s.liquidity = q.liquidity
             /\ s.last = inside /\ s \in Personals
             /\ \A a \in Assets :
                  /\ Accrued(q, inside, a) \in Nat
                  /\ s.owed[a] = q.owed[a] + Accrued(q, inside, a)
<1> DEFINE owed == [a \in Assets |-> q.owed[a] + Accrued(q, inside, a)]
<1>1. ASSUME NEW a \in Assets PROVE Accrued(q, inside, a) \in Nat
  <2> DEFINE x == WrappingSub(inside[a], q.last[a])
  <2>1. x \in Int
    BY WrappingType DEF Personals, U128
  <2> QED
    BY <2>1, AccruedFloor
<1>2. owed \in [Assets -> Nat]
  BY <1>1 DEF Personals
<1>3. Settled(q, inside) = [q EXCEPT !.owed = owed, !.last = inside]
  BY DEF Settled
<1>4. \A a \in Assets : owed[a] = q.owed[a] + Accrued(q, inside, a)
  OBVIOUS
<1> HIDE DEF owed
<1> QED
  BY <1>1, <1>2, <1>3, <1>4 DEF Personals

LEMMA IncreaseKeeps ==
  ASSUME ClmmInv, NEW p \in Positions, NEW liquidity \in Liquidities, NEW e \in Emissions,
         IncreaseLiquidity(p, liquidity, e)
  PROVE  ClmmInv'
<1>1. Shape /\ Closed /\ LiquidityIsSum /\ Noted /\ Taken
  BY DEF ClmmInv
<1> DEFINE r == personal[p].range
           inside == protocol'[r].inside
           q == [Settled(personal[p], inside) EXCEPT !.liquidity = @ + liquidity]
<1>2. /\ ~swap.on /\ swap' = swap /\ steps' \in 0..MaxSteps /\ personal[p].open
      /\ status' = status /\ claimed' = claimed /\ protocol_fees' = protocol_fees
      /\ reward_vault' = reward_vault /\ AddLiquidity(p, r, liquidity, e)
  BY <1>1, InstructionIs DEF IncreaseLiquidity
<1>12. personal' = [personal EXCEPT ![p] = q]
  BY DEF IncreaseLiquidity
<1>3. personal \in [Positions -> Personals] /\ personal[p] \in Personals /\ r \in Ranges
        /\ personal[p].liquidity \in Nat /\ personal[p].owed \in [Assets -> Nat]
  BY <1>1 DEF Shape, Personals
<1>4. /\ liquidity \in Nat /\ inside \in [Assets -> U128]
      /\ \/ liquidity = 0 /\ UNCHANGED books /\ history' = TakenOver(p, r)
         \/ liquidity > 0 /\ ModifyPosition(r, liquidity, e) /\ history' = Recorded(p, r, e)
  <2> HIDE DEF r
  <2> QED
    BY <1>1, <1>2, <1>3, AddLiquidityDoes
<1>5. /\ Zero \in [Assets -> Nat] /\ claimed' = [a \in Assets |-> claimed[a] + Zero[a]]
      /\ \A a \in Assets : Zero[a] = 0
  BY <1>1, <1>2, NothingPaid DEF Zero
<1>7. /\ q.open = TRUE /\ q.range = r /\ q.liquidity = personal[p].liquidity + liquidity
      /\ q.last = inside /\ q.owed \in [Assets -> Nat]
      /\ \A a \in Assets : q.owed[a] = personal[p].owed[a] + Accrued(personal[p], inside, a)
      /\ q \in Personals
  <2> HIDE DEF inside, r
  <2> DEFINE s == Settled(personal[p], inside)
  <2>1. /\ s.open = TRUE /\ s.range = r /\ s.liquidity = personal[p].liquidity
        /\ s.last = inside /\ s.owed \in [Assets -> Nat]
        /\ \A a \in Assets : s.owed[a] = personal[p].owed[a] + Accrued(personal[p], inside, a)
        /\ s \in Personals
    BY <1>2, <1>3, <1>4, SettledIs DEF Personals, r
  <2>2. q = [s EXCEPT !.liquidity = s.liquidity + liquidity]
    OBVIOUS
  <2> HIDE DEF s, q
  <2> QED
    BY <1>3, <1>4, <2>1, <2>2 DEF Personals
<1> HIDE DEF q
<1>6. \A a \in Assets : Accrued(personal[p], inside, a) \in Nat
  BY <1>3, <1>4, SettledIs
<1>8. PositionBecomes(p, q)
  BY <1>12, <1>3, <1>7 DEF PositionBecomes
<1>9. status' \subseteq Operations /\ reward_vault' \in Nat
  BY <1>1, <1>2 DEF Shape
<1>10. CASE liquidity = 0 /\ UNCHANGED books /\ history' = TakenOver(p, r)
  <2>1. inside = protocol[r].inside
    BY <1>10 DEF books
  <2> HIDE DEF r
  <2>2. /\ history' \in Histories
        /\ history'.earned = history.earned /\ history'.protocol = history.protocol
        /\ \A x \in Positions \ {p} : history'.personal[x] = history.personal[x]
        /\ history'.personal[p] = history.protocol[r]
    BY <1>1, <1>3, <1>10, TakenOverIs
  <2>3. q.liquidity = personal[p].liquidity
    BY <1>3, <1>7, <1>10
  <2>4. ASSUME NEW a \in Assets
        PROVE  Q * q.owed[a] + (history.earned[r][a] - history'.personal[p][a]) * q.liquidity
                 <= Claim(p, a) - Q * Zero[a]
    <3> DEFINE o == personal[p].owed[a]
               c == Accrued(personal[p], protocol[r].inside, a)
               E == history.earned[r][a]
               h == history.protocol[r][a]
               i == history.personal[p][a]
               L == personal[p].liquidity
    <3>1. c \in Int /\ Q * c <= (h - i) * L
      <4>1. r = personal[p].range
        BY DEF r
      <4> QED
        BY <1>1, <1>3, <4>1, AccruedByUpdate
    <3>2. o \in Int /\ E \in Int /\ h \in Int /\ i \in Int /\ L \in Int
      BY <1>1, <1>3 DEF Shape, Histories
    <3>3. q.owed[a] = o + c
      BY <1>7, <2>1
    <3>4. Claim(p, a) = Q * o + (E - i) * L
      BY DEF Claim, r
    <3>5. history'.personal[p][a] = h /\ Q * Zero[a] = 0 /\ Claim(p, a) \in Int
      BY <1>1, <1>5, <2>2, ClaimIsInt, ClmmAssumption DEF Shape
    <3> HIDE DEF o, c, E, h, i, L
    <3>6. Q * (o + c) + (E - h) * L <= Q * o + (E - i) * L
      BY <3>1, <3>2, ClaimAfterUpdate
    <3>7. Q * (o + c) + (E - h) * L <= Claim(p, a) - Q * Zero[a]
      BY <3>4, <3>5, <3>6
    <3>8. q.liquidity = L
      BY <2>3 DEF L
    <3> QED
      BY <3>3, <3>5, <3>7, <3>8 DEF E
  <2>5. q.liquidity > 0 =>
          \A a \in Assets :
            /\ history'.personal[p][a] <= history.protocol[r][a]
            /\ WrappingSub(InsideOf(r, a), q.last[a])
                 = history.earned[r][a] - history'.personal[p][a]
    <3>1. r = personal[p].range
      BY DEF r
    <3>2. \A a \in Assets : history.protocol[r][a] \in Nat
      BY <1>1, <1>3 DEF Shape, Histories
    <3>3. ASSUME q.liquidity > 0, NEW a \in Assets
          PROVE  WrappingSub(InsideOf(r, a), protocol[r].inside[a])
                   = history.earned[r][a] - history.protocol[r][a]
      BY <1>1, <1>3, <2>3, <3>1, <3>3, AccruedByUpdate
    <3> QED
      BY <1>7, <2>1, <2>2, <3>2, <3>3
  <2>6. q.range = personal[p].range
    BY <1>7 DEF r
  <2>7. Retaking(p, q, Zero)
    <3>1. /\ q.range = personal[p].range \/ q.liquidity = 0
          /\ q.open \/ (q.liquidity = 0 /\ q.owed = Zero)
      BY <1>7, <2>6
    <3>2. q.liquidity > 0 =>
            \A a \in Assets :
              /\ history'.personal[p][a] <= history.protocol[q.range][a]
              /\ WrappingSub(InsideOf(q.range, a), q.last[a])
                   = history.earned[q.range][a] - history'.personal[p][a]
      BY <1>7, <2>5
    <3>3. \A a \in Assets :
            Q * q.owed[a] + (history.earned[q.range][a] - history'.personal[p][a]) * q.liquidity
              <= Claim(p, a) - Q * Zero[a]
      BY <1>7, <2>4
    <3>4. /\ ~swap.on /\ UNCHANGED <<books, swap>> /\ protocol_fees' = protocol_fees
          /\ claimed' = [a \in Assets |-> claimed[a] + Zero[a]] /\ steps' \in 0..MaxSteps
      BY <1>2, <1>5, <1>10
    <3> QED
      BY <1>8, <1>9, <2>2, <2>3, <3>1, <3>2, <3>3, <3>4 DEF Retaking
  <2> QED
    BY <1>5, <1>7, <2>7, RetakingKeeps
<1>11. CASE liquidity > 0 /\ ModifyPosition(r, liquidity, e) /\ history' = Recorded(p, r, e)
  <2>1. \A a \in Assets :
          q.owed[a] = personal[p].owed[a] + Accrued(personal[p], inside, a) - Zero[a]
    BY <1>3, <1>5, <1>6, <1>7
  <2>2. Modification(p, r, liquidity, e, q, Zero)
    BY <1>2, <1>5, <1>7, <1>8, <1>9, <1>11, <2>1 DEF Modification
  <2>3. liquidity \in Int
    BY <1>4
  <2> HIDE DEF r
  <2> QED
    BY <1>3, <1>5, <1>7, <2>2, <2>3, ModificationKeeps
<1> QED
  BY <1>4, <1>10, <1>11

\* What decrease_liquidity pays is owed, and in the vault.
LEMMA PayableIs ==
  ASSUME Shape, NEW owed \in [Assets -> Nat], NEW a \in Assets
  PROVE  /\ Payable(owed, a) \in Nat /\ Payable(owed, a) <= owed[a]
         /\ a = Reward => Payable(owed, a) <= reward_vault
<1>1. owed[a] \in Nat /\ reward_vault \in Nat
  BY DEF Shape
<1> QED
  BY <1>1 DEF Payable

LEMMA DecreaseKeeps ==
  ASSUME ClmmInv, NEW p \in Positions, NEW liquidity \in Liquidities, NEW e \in Emissions,
         NEW short \in BOOLEAN, DecreaseLiquidity(p, liquidity, e, short)
  PROVE  ClmmInv'
<1>1. Shape /\ Closed /\ LiquidityIsSum /\ Noted /\ Taken
  BY DEF ClmmInv
<1> DEFINE r == personal[p].range
           inside == protocol'[r].inside
           settled == IF Allowed("Decrease")
                      THEN [Settled(personal[p], inside) EXCEPT !.liquidity = @ - liquidity]
                      ELSE personal[p]
           paid == [a \in Assets |-> Payable(settled.owed, a)]
           q == [settled EXCEPT !.owed = [a \in Assets |-> settled.owed[a] - paid[a]]]
<1>2. /\ ~swap.on /\ swap' = swap /\ steps' \in 0..MaxSteps /\ personal[p].open
      /\ liquidity <= personal[p].liquidity
      /\ protocol_fees' = protocol_fees /\ CheckVaults(short)
      /\ IF Allowed("Decrease")
         THEN ModifyPosition(r, -liquidity, e) /\ history' = Recorded(p, r, e)
         ELSE UNCHANGED <<books, history>>
  BY <1>1, InstructionIs DEF DecreaseLiquidity
<1>3. claimed' = [a \in Assets |-> claimed[a] + paid[a]]
        /\ reward_vault' = reward_vault - paid[Reward]
  BY DEF DecreaseLiquidity
<1>4. personal' = [personal EXCEPT ![p] = q]
  BY DEF DecreaseLiquidity
<1>5. /\ personal \in [Positions -> Personals] /\ personal[p] \in Personals
      /\ personal[p].range \in Ranges /\ personal[p].liquidity \in Nat
      /\ personal[p].owed \in [Assets -> Nat] /\ liquidity \in Nat
  BY <1>1, ClmmAssumption DEF Shape, Personals
<1>6. /\ settled \in Personals /\ settled.open = TRUE /\ settled.range = r
      /\ settled.owed \in [Assets -> Nat]
      /\ Allowed("Decrease") =>
           /\ inside \in [Assets -> U128] /\ settled.last = inside
           /\ settled.liquidity = personal[p].liquidity - liquidity
           /\ \A a \in Assets :
                /\ Accrued(personal[p], inside, a) \in Nat
                /\ settled.owed[a] = personal[p].owed[a] + Accrued(personal[p], inside, a)
  <2>1. CASE Allowed("Decrease")
    <3>1. -liquidity \in Int /\ ModifyPosition(r, -liquidity, e)
      BY <1>2, <1>5, <2>1
    <3>2. inside \in [Assets -> U128]
      <4>1. protocol' \in [Ranges -> Protocols]
        BY <1>1, <1>5, <3>1, RecordsModified
      <4> QED
        BY <1>5, <4>1 DEF Protocols
    <3> DEFINE s == Settled(personal[p], inside)
    <3>3. settled = [s EXCEPT !.liquidity = s.liquidity - liquidity]
      BY <2>1
    <3> HIDE DEF inside, settled
    <3>4. /\ s.open = TRUE /\ s.range = r /\ s.liquidity = personal[p].liquidity
          /\ s.last = inside /\ s \in Personals
          /\ \A a \in Assets :
               /\ Accrued(personal[p], inside, a) \in Nat
               /\ s.owed[a] = personal[p].owed[a] + Accrued(personal[p], inside, a)
      BY <1>2, <1>5, <3>2, SettledIs DEF Personals
    <3>5. personal[p].liquidity - liquidity \in Nat
      BY <1>2, <1>5
    <3> HIDE DEF s
    <3>6. /\ settled \in Personals /\ settled.open = TRUE /\ settled.range = r
          /\ settled.owed = s.owed /\ settled.last = inside
          /\ settled.liquidity = personal[p].liquidity - liquidity
      BY <3>3, <3>4, <3>5 DEF Personals
    <3>7. settled.owed \in [Assets -> Nat]
      BY <3>6 DEF Personals
    <3> QED
      BY <3>2, <3>4, <3>6, <3>7
  <2>2. CASE ~Allowed("Decrease")
    BY <1>2, <1>5, <2>2 DEF Personals
  <2> QED
    BY <2>1, <2>2
<1>7. \A a \in Assets : paid[a] = Payable(settled.owed, a)
  OBVIOUS
<1>8. Allowed("Decrease") \/ settled = personal[p]
  OBVIOUS
<1> HIDE DEF settled
<1>9. /\ paid \in [Assets -> Nat] /\ \A a \in Assets : paid[a] <= settled.owed[a]
      /\ paid[Reward] <= reward_vault /\ paid[Reward] \in Nat
  BY <1>1, <1>6, <1>7, PayableIs DEF Assets
<1> HIDE DEF paid
<1>10. /\ q \in Personals /\ q.open = TRUE /\ q.range = r
       /\ q.liquidity = settled.liquidity /\ q.last = settled.last
       /\ \A a \in Assets : q.owed[a] = settled.owed[a] - paid[a]
  <2> DEFINE owed == [a \in Assets |-> settled.owed[a] - paid[a]]
  <2>1. owed \in [Assets -> Nat] /\ \A a \in Assets : owed[a] = settled.owed[a] - paid[a]
    BY <1>6, <1>9
  <2>2. q = [settled EXCEPT !.owed = owed]
    OBVIOUS
  <2> HIDE DEF owed, q
  <2> QED
    BY <1>6, <2>1, <2>2 DEF Personals
<1> HIDE DEF q
<1>11. PositionBecomes(p, q)
  BY <1>4, <1>5, <1>10 DEF PositionBecomes
<1>12. status' \subseteq Operations /\ reward_vault' \in Nat
  BY <1>1, <1>2, <1>3, <1>9 DEF Shape, CheckVaults, Operations
<1>13. CASE Allowed("Decrease")
  <2> DEFINE delta == -liquidity
  <2>1. delta \in Int /\ ModifyPosition(r, delta, e) /\ history' = Recorded(p, r, e)
    BY <1>2, <1>5, <1>13
  <2>2. q.liquidity = personal[p].liquidity + delta
    BY <1>5, <1>6, <1>10, <1>13
  <2> HIDE DEF delta
  <2>3. \A a \in Assets :
          q.owed[a] = personal[p].owed[a] + Accrued(personal[p], inside, a) - paid[a]
    BY <1>5, <1>6, <1>9, <1>10, <1>13
  <2>4. Modification(p, r, delta, e, q, paid)
    BY <1>2, <1>3, <1>6, <1>10, <1>11, <1>12, <1>13, <2>1, <2>2, <2>3 DEF Modification
  <2> HIDE DEF r
  <2>5. r \in Ranges
    BY <1>5 DEF r
  <2> QED
    BY <1>9, <1>10, <2>1, <2>4, <2>5, ModificationKeeps
<1>14. CASE ~Allowed("Decrease")
  <2>1. UNCHANGED books /\ history' = history
    BY <1>2, <1>14
  <2>2. settled = personal[p]
    BY <1>8, <1>14
  <2>3. /\ history' \in Histories
        /\ history'.earned = history.earned /\ history'.protocol = history.protocol
        /\ history'.personal = history.personal
    BY <1>1, <2>1 DEF Shape
  <2>4. q.liquidity = personal[p].liquidity /\ q.last = personal[p].last
          /\ q.range = personal[p].range
    BY <1>10, <2>2
  <2>5. ASSUME NEW a \in Assets
        PROVE  Q * q.owed[a] + (history.earned[q.range][a] - history'.personal[p][a]) * q.liquidity
                 <= Claim(p, a) - Q * paid[a]
    <3> DEFINE x == (history.earned[r][a] - history.personal[p][a]) * personal[p].liquidity
               o == personal[p].owed[a]
               z == paid[a]
    <3>1. x \in Int /\ o \in Int /\ z \in Int /\ Q \in Int
      <4>1. history.earned[r][a] \in Int /\ history.personal[p][a] \in Int
        BY <1>1, <1>5 DEF Shape, Histories
      <4> QED
        BY <1>5, <1>9, <4>1, ClmmAssumption
    <3>2. Claim(p, a) = Q * o + x
      BY DEF Claim
    <3>3. q.owed[a] = o - z
      BY <1>10, <2>2
    <3>4. (history.earned[q.range][a] - history'.personal[p][a]) * q.liquidity = x
      BY <2>3, <2>4
    <3> HIDE DEF x, o, z
    <3>5. Q * (o - z) = Q * o - Q * z /\ Q * o \in Int /\ Q * z \in Int
      BY <3>1, Distribute
    <3>6. Q * (o - z) + x <= (Q * o + x) - Q * z
      BY <3>1, <3>5
    <3> QED
      BY <3>2, <3>3, <3>4, <3>6 DEF z
  <2>6. q.liquidity > 0 =>
          \A a \in Assets :
            /\ history'.personal[p][a] <= history.protocol[q.range][a]
            /\ WrappingSub(InsideOf(q.range, a), q.last[a])
                 = history.earned[q.range][a] - history'.personal[p][a]
    BY <1>1, <2>3, <2>4 DEF Taken
  <2>7. Retaking(p, q, paid)
    BY <1>2, <1>3, <1>10, <1>11, <1>12, <2>1, <2>3, <2>4, <2>5, <2>6 DEF Retaking
  <2> QED
    BY <1>9, <1>10, <2>7, RetakingKeeps
<1> QED
  BY <1>13, <1>14

LEMMA CloseKeeps ==
  ASSUME ClmmInv, NEW p \in Positions, ClosePosition(p)
  PROVE  ClmmInv'
<1>1. Shape
  BY DEF ClmmInv
<1>2. /\ ~swap.on /\ UNCHANGED <<books, swap>> /\ steps' \in 0..MaxSteps
      /\ personal[p].liquidity = 0 /\ personal[p].owed = Zero
      /\ personal' = [personal EXCEPT ![p] = NoPosition]
      /\ status' = status /\ claimed' = claimed /\ protocol_fees' = protocol_fees
      /\ reward_vault' = reward_vault /\ history' = history
  BY <1>1, InstructionIs DEF ClosePosition
<1>3. /\ Zero \in [Assets -> Nat] /\ claimed' = [a \in Assets |-> claimed[a] + Zero[a]]
      /\ \A a \in Assets : Zero[a] = 0
  BY <1>1, <1>2, NothingPaid DEF Zero
<1> DEFINE q == NoPosition
<1>4. /\ q \in Personals /\ q.liquidity = 0 /\ q.owed = Zero /\ q.range \in Ranges
  <2>1. \E r \in Ranges : TRUE
    BY ClmmAssumption
  <2>2. Zero \in [Assets -> U128]
    BY ClmmAssumption DEF Zero, U128
  <2> QED
    BY <1>3, <2>1, <2>2 DEF NoPosition, Personals
<1> HIDE DEF q
<1>5. PositionBecomes(p, q)
  BY <1>1, <1>2, <1>4 DEF PositionBecomes, Shape, q
<1>6. ASSUME NEW a \in Assets
      PROVE  Q * q.owed[a] + (history.earned[q.range][a] - history'.personal[p][a]) * q.liquidity
               <= Claim(p, a) - Q * Zero[a]
  <2> DEFINE x == history.earned[q.range][a] - history'.personal[p][a]
  <2>1. Claim(p, a) = Q * Zero[a] /\ Q \in Nat
    BY <1>1, <1>2, ClaimOfNone, ClmmAssumption
  <2>2. x \in Int
    BY <1>1, <1>2, <1>4 DEF Shape, Histories
  <2> HIDE DEF x
  <2>3. Q * q.owed[a] + x * q.liquidity <= Claim(p, a) - Q * Zero[a]
    BY <1>3, <1>4, <2>1, <2>2
  <2> QED
    BY <2>3 DEF x
<1>7. status' \subseteq Operations /\ reward_vault' \in Nat
        /\ history' \in Histories
  BY <1>1, <1>2 DEF Shape
<1>8. Retaking(p, q, Zero)
  BY <1>2, <1>3, <1>4, <1>5, <1>6, <1>7 DEF Retaking
<1> QED
  BY <1>3, <1>4, <1>8, RetakingKeeps

LEMMA CollectKeeps ==
  ASSUME ClmmInv, NEW requested \in [Tokens -> Fees], NEW short \in BOOLEAN,
         CollectProtocolFee(requested, short)
  PROVE  ClmmInv'
<1>1. Shape
  BY DEF ClmmInv
<1>2. UNCHANGED <<books, claimed, personal, swap, history>> /\ reward_vault' = reward_vault
        /\ CheckVaults(short) /\ steps' \in 0..MaxSteps
        /\ protocol_fees' \in [Tokens -> Nat]
  <2>1. protocol_fees' \in [Tokens -> Nat]
    <3>1. \A i \in Tokens : requested[i] \in Nat /\ protocol_fees[i] \in Nat
      BY <1>1, ClmmAssumption DEF Shape
    <3> QED
      BY <3>1 DEF CollectProtocolFee
  <2> QED
    BY <1>1, <2>1, InstructionIs DEF CollectProtocolFee
<1>3. status' \subseteq Operations /\ reward_vault' \in Nat
  BY <1>1, <1>2 DEF Shape, CheckVaults, Operations
<1> QED
  BY <1>2, <1>3, QuietKeeps

LEMMA StatusKeeps ==
  ASSUME ClmmInv, NEW new \in Statuses, UpdatePoolStatus(new)
  PROVE  ClmmInv'
<1>1. Shape
  BY DEF ClmmInv
<1>2. UNCHANGED <<books, claimed, personal, swap, history>> /\ reward_vault' = reward_vault
        /\ status' = new /\ steps' \in 0..MaxSteps /\ protocol_fees' = protocol_fees
  BY <1>1, InstructionIs DEF UpdatePoolStatus
<1>3. status' \subseteq Operations /\ reward_vault' \in Nat /\ protocol_fees' \in [Tokens -> Nat]
  BY <1>1, <1>2, ClmmAssumption DEF Shape
<1> QED
  BY <1>2, <1>3, QuietKeeps

-----------------------------------------------------------------------------
(* Emissions.                                                              *)

\* LiquidityIsSum by the sums and by what stands for the pool.
Around(tick) == {r \in Ranges : InRange(r, tick)}
LiquidityParts ==
  /\ \A t \in Ticks :
       /\ ticks[t].gross = Sum(personal, {r \in Ranges : r[1] = t})
                             + Sum(personal, {r \in Ranges : r[2] = t})
       /\ ticks[t].net = Sum(personal, {r \in Ranges : r[1] = t})
                             - Sum(personal, {r \in Ranges : r[2] = t})
  /\ \A r \in Ranges : protocol[r].liquidity = Sum(personal, {r})
  /\ Active = Sum(personal, Around(Tick))

\* The property of the run in terms of this module.
LEMMA LiquidityIsParts == LiquidityIsSum <=> LiquidityParts
  BY LiquidityOnSum DEF LiquidityIsSum, LiquidityParts, Active, Tick, Around

\* What a swap goes by stays what it was, whether a swap begins or ends.
LEMMA ViewKeeps ==
  ASSUME ClmmInv, Tick' = Tick, Price' = Price, Active' = Active,
         UNCHANGED <<ticks, count, bitmap, protocol, personal>>,
         pool'.liquidity >= 0, Shape', Search'
  PROVE  Closed' /\ LiquidityIsSum' /\ Tables' /\ Place' /\ EndsAreUsed'
<1>1. Shape /\ Closed /\ LiquidityIsSum /\ Tables /\ Place
  BY DEF ClmmInv
<1>2. Closed' /\ Tables' /\ Place'
  BY <1>1 DEF Closed, Tables, InArray, Initialized, Place
<1>3. LiquidityParts
  BY <1>1, LiquidityIsParts
<1>4. LiquidityParts'
  <2>1. \A R : Sum(personal', R) = Sum(personal, R)
    OBVIOUS
  <2> QED
    BY <1>3, <2>1 DEF LiquidityParts
<1>5. LiquidityIsSum'
  <2>1. LiquidityIsSum' <=> LiquidityParts'
    BY LiquidityIsParts, PTL
  <2> QED
    BY <1>4, <2>1
<1>6. EndsAreUsed'
  <2>1. PositionsTyped' /\ LiquidityIsSum' => EndsAreUsed'
    BY EndsUsed, PTL
  <2>2. PositionsTyped'
    BY <1>1 DEF PositionsTyped, Shape
  <2> QED
    BY <1>5, <2>1, <2>2
<1> QED
  BY <1>2, <1>5, <1>6

\* An emission without a position keeps the invariant, whether or not a swap
\* begins with it.
LEMMA EmissionKeeps ==
  ASSUME ClmmInv, ~swap.on, NEW e \in Emissions, Emit(e),
         history' = [history EXCEPT !.earned = Earned(Reward, Grown(e), pool.tick_current)],
         UNCHANGED <<pool, status, claimed, protocol_fees, reward_vault, ticks, count,
                     bitmap, protocol, personal>>,
         steps' \in 0..MaxSteps, swap' = NoSwap \/ swap' \in Swaps,
         Growths' = growth', Tick' = Tick, Price' = Price, Active' = Active,
         \A a \in Assets : Books(a)' = total'[a] - claimed[a], Search'
  PROVE  ClmmInv'
<1>1. /\ Shape /\ Closed /\ LiquidityIsSum /\ Tables /\ Place /\ Search
      /\ Bounded /\ Noted /\ Taken /\ Owing
  BY DEF ClmmInv
<1>2. /\ Grown(e) \in Nat /\ Emitted(e) \in Nat
      /\ Grown(e) * pool.liquidity <= Q * Emitted(e)
      /\ growth' \in [Assets -> U128] /\ total' \in [Assets -> Nat]
      /\ \A a \in Assets : total'[a] = total[a] + (IF a = Reward THEN Emitted(e) ELSE 0)
  BY <1>1, EmitGrows
<1>3. /\ history \in Histories /\ history'.earned = Earned(Reward, Grown(e), pool.tick_current)
      /\ history'.protocol = history.protocol /\ history'.personal = history.personal
  BY <1>1 DEF Shape, Histories
<1>4. Grew(Reward, Grown(e)) /\ history'.earned \in [Ranges -> [Assets -> Nat]]
  BY <1>1, <1>3, EmissionGrew
<1>5. history' \in Histories
  <2> DEFINE earned == Earned(Reward, Grown(e), pool.tick_current)
  <2>1. earned \in [Ranges -> [Assets -> Nat]]
    BY <1>3, <1>4
  <2>2. history' = [history EXCEPT !.earned = earned]
    OBVIOUS
  <2> HIDE DEF earned
  <2> QED
    BY <1>3, <2>1, <2>2 DEF Histories
<1>6. Shape'
  BY <1>1, <1>2, <1>5 DEF Shape, NoSwap
<1>7. Closed' /\ LiquidityIsSum' /\ Tables' /\ Place' /\ EndsAreUsed'
  BY <1>1, <1>6, ViewKeeps DEF Closed
<1>8. TicksKeep
  BY DEF TicksKeep, Below, GrownBelow
<1>9. Bounded'
  <2>1. \A a \in Assets : Growths'[a] = Growths[a] + Part(a, Reward, Grown(e))
          /\ Part(a, Reward, Grown(e)) \in Nat /\ Growths[a] \in Nat
    BY <1>1, <1>2, <1>4, NowTypes DEF Grew, Part, U128
  <2>2. \A t \in Ticks, a \in Assets : ticks[t].outside[a] \in 0..Growths[a]
    BY <1>1 DEF Bounded
  <2>3. \A t \in Ticks, a \in Assets : ticks'[t].outside[a] \in 0..Growths'[a]
    BY <2>1, <2>2
  <2> QED
    BY <2>3 DEF Bounded
<1>10. Noted' /\ Taken' /\ Owing'
  <2> DEFINE add == Emitted(e)
             d == Grown(e)
  <2>1. Active = pool.liquidity
    BY DEF Active
  <2>2. \A a \in Assets : Books(a) \in Int /\ Books(a)' = Books(a) + Part(a, Reward, add)
    <3> SUFFICES ASSUME NEW a \in Assets
                 PROVE  Books(a) \in Int /\ Books(a)' = Books(a) + Part(a, Reward, add)
      OBVIOUS
    <3>1. total[a] \in Nat /\ claimed[a] \in Nat /\ add \in Nat
      BY <1>1, <1>2 DEF Shape
    <3>2. Books(a) = total[a] - claimed[a]
      BY <3>1 DEF Books
    <3>3. total'[a] = total[a] + Part(a, Reward, add) /\ Part(a, Reward, add) \in Nat
      BY <1>2 DEF Part
    <3> QED
      BY <3>1, <3>2, <3>3
  <2>3. add \in Nat /\ d * Active <= Q * add
    BY <1>2, <2>1
  <2>4. Grew(Reward, d)
    BY <1>4
  <2> HIDE DEF add, d
  <2> QED
    BY <1>3, <1>7, <1>8, <2>2, <2>3, <2>4, GrowthKeeps
<1> QED
  BY <1>6, <1>7, <1>9, <1>10 DEF ClmmInv

LEMMA UpdateKeeps ==
  ASSUME ClmmInv, NEW e \in Emissions, UpdateRewardInfos(e)
  PROVE  ClmmInv'
<1>1. Shape
  BY DEF ClmmInv
<1>2. /\ ~swap.on /\ swap' = swap /\ steps' \in 0..MaxSteps /\ Emit(e)
      /\ history' = [history EXCEPT !.earned = Earned(Reward, Grown(e), pool.tick_current)]
      /\ UNCHANGED <<pool, status, claimed, protocol_fees, reward_vault, ticks, count,
                     bitmap, protocol, personal>>
  BY <1>1, InstructionIs DEF UpdateRewardInfos
<1>3. Growths' = growth' /\ Tick' = Tick /\ Price' = Price /\ Active' = Active
  BY <1>2 DEF Growths, Tick, Price, Active
<1>4. \A a \in Assets : Books(a)' = total'[a] - claimed[a]
  <2>1. total' \in [Assets -> Nat] /\ claimed \in [Assets -> Nat]
    BY <1>1, <1>2, EmitGrows DEF ClmmInv, Shape
  <2> QED
    BY <1>2, <2>1 DEF Books
<1>5. Search' /\ (swap' = NoSwap \/ swap' \in Swaps)
  BY <1>1, <1>2 DEF Search, Shape
<1> QED
  BY <1>2, <1>3, <1>4, <1>5, EmissionKeeps

-----------------------------------------------------------------------------
(* A swap begins and ends.                                                 *)

LEMMA StartKeeps ==
  ASSUME ClmmInv, NEW z \in BOOLEAN, NEW upper \in Uppers, NEW e \in Emissions,
         SwapStart(z, upper, e)
  PROVE  ClmmInv'
<1>1. Shape /\ Closed /\ Tables
  BY DEF ClmmInv
<1> DEFINE side == IF z THEN 0 ELSE 1
           here == ArrayOf(pool.tick_current)
           first == Nearest(FirstArrays(z), z)
<1>2. /\ ~swap.on /\ steps' \in 0..MaxSteps /\ Emit(e) /\ FirstArrays(z) # {}
      /\ history' = [history EXCEPT !.earned = Earned(Reward, Grown(e), pool.tick_current)]
      /\ UNCHANGED <<pool, status, claimed, protocol_fees, reward_vault, ticks, count,
                     bitmap, protocol, personal>>
  BY <1>1, InstructionIs DEF SwapStart
<1>3. swap' = [on |-> TRUE, zero_for_one |-> z, upper |-> upper,
               tick |-> pool.tick_current, price |-> pool.price,
               liquidity |-> pool.liquidity, growth |-> growth[side],
               fee_amount |-> 0, protocol_fee |-> 0, reward_fee |-> 0, fees_in |-> 0,
               array |-> first, matched |-> here \in bitmap, filled |-> FALSE]
  BY DEF SwapStart
<1>4. /\ pool \in [liquidity : Int, tick_current : Int, price : Int]
      /\ growth \in [Assets -> U128] /\ total' \in [Assets -> Nat]
      /\ claimed \in [Assets -> Nat] /\ growth' \in [Assets -> U128]
      /\ \A a \in Assets : growth'[a] = growth[a] + (IF a = Reward THEN Grown(e) ELSE 0)
  BY <1>1, <1>2, EmitGrows DEF Shape
<1>5. side \in Assets /\ side # Reward /\ growth'[side] = growth[side] /\ side \in {0, 1}
  <2>1. side \in Assets /\ side # Reward /\ side \in {0, 1}
    BY DEF Assets, Tokens, Reward
  <2>2. growth[side] \in Int
    BY <1>4, <2>1 DEF U128
  <2> HIDE DEF side
  <2> QED
    BY <1>4, <2>1, <2>2
<1>6. FirstArrays(z) \subseteq bitmap
  BY DEF FirstArrays, ArraysAhead
<1>7. /\ first \in FirstArrays(z)
      /\ \A y \in FirstArrays(z) : IF z THEN y <= first ELSE y >= first
  <2>1. FirstArrays(z) \subseteq Int /\ IsFiniteSet(FirstArrays(z))
    BY <1>1, <1>6, Finite, FS_Subset DEF Shape
  <2> QED
    BY <1>2, <2>1, NearestIn
<1>8. first \in Arrays
  BY <1>1, <1>6, <1>7 DEF Shape
<1> HIDE DEF side, first
<1>9. swap' \in Swaps
  BY <1>3, <1>4, <1>5, <1>8, ClmmAssumption DEF Swaps
<1>10. /\ swap'.on = TRUE /\ swap'.zero_for_one = z /\ swap'.tick = pool.tick_current
       /\ swap'.price = pool.price /\ swap'.liquidity = pool.liquidity
       /\ swap'.growth = growth[side] /\ swap'.fee_amount = 0
       /\ swap'.array = first /\ swap'.matched = (here \in bitmap)
  BY <1>3
<1>11. Side' = side /\ Tick' = Tick /\ Price' = Price /\ Active' = Active
  BY <1>2, <1>10 DEF Side, Tick, Price, Active, side
<1>12. Growths' = growth'
  <2>1. Growths' = [growth' EXCEPT ![side] = growth'[side]]
    BY <1>5, <1>10, <1>11 DEF Growths
  <2> QED
    BY <1>4, <1>5, <2>1
<1>13. \A a \in Assets : Books(a)' = total'[a] - claimed[a]
  BY <1>2, <1>4, <1>10 DEF Books
<1>14. Search'
  <2>1. Tick = pool.tick_current /\ here = ArrayOf(Tick)
    BY <1>2 DEF Tick
  <2>2. CASE here \in bitmap
    <3>1. first = here
      BY <1>7, <2>2 DEF FirstArrays
    <3> QED
      BY <1>10, <1>11, <2>1, <2>2, <3>1 DEF Search
  <2>3. CASE here \notin bitmap
    <3>1. FirstArrays(z) = ArraysAhead(z, here)
      BY <2>3 DEF FirstArrays
    <3>2. ArraysAhead(z, here)' = ArraysAhead(z, here)
      BY <1>2 DEF ArraysAhead
    <3> HIDE DEF here
    <3>3. Tick' = Tick /\ bitmap' = bitmap
      BY <1>2, <1>11
    <3>4. ArraysAhead(swap.zero_for_one, ArrayOf(Tick))' = ArraysAhead(z, ArrayOf(Tick))
      BY <1>10, <3>3 DEF ArraysAhead
    <3> QED
      BY <1>7, <1>10, <2>1, <2>3, <3>1, <3>3, <3>4 DEF Search
  <2> QED
    BY <2>2, <2>3
<1> QED
  BY <1>2, <1>9, <1>11, <1>12, <1>13, <1>14, EmissionKeeps

LEMMA EndKeeps ==
  ASSUME ClmmInv, NEW freezes \in BOOLEAN, SwapEnd(freezes)
  PROVE  ClmmInv'
<1>1. /\ Shape /\ Closed /\ LiquidityIsSum /\ Tables /\ Place
      /\ Bounded /\ Noted /\ Taken /\ Owing
  BY DEF ClmmInv
<1>2. /\ swap.on /\ swap' = NoSwap
      /\ pool' = [liquidity |-> swap.liquidity, tick_current |-> swap.tick,
                  price |-> swap.price]
      /\ growth' = [growth EXCEPT ![Side] = swap.growth]
      /\ total' = [total EXCEPT ![Side] = @ + swap.fee_amount]
      /\ protocol_fees' = [protocol_fees EXCEPT ![Side] = @ + swap.protocol_fee]
      /\ status' = IF freezes THEN Operations ELSE status
      /\ UNCHANGED <<claimed, reward_vault, ticks, count, bitmap, protocol, personal,
                     steps, history>>
  BY DEF SwapEnd, SwapPaid, Side
<1>3. /\ swap.tick \in Int /\ swap.price \in Int /\ swap.liquidity \in Int
      /\ swap.growth \in U128 /\ swap.fee_amount \in Nat /\ swap.protocol_fee \in Nat
  BY <1>1, <1>2, UnderWay
<1>4. Side \in Tokens /\ Side \in Assets
  BY DEF Side, Tokens, Assets
<1>5. ~swap'.on
  BY <1>2 DEF NoSwap
<1>6. Growths' = Growths /\ Tick' = Tick /\ Price' = Price /\ Active' = Active
  BY <1>2, <1>5 DEF Growths, Tick, Price, Active
<1>7. /\ growth' \in [Assets -> U128] /\ total' \in [Assets -> Nat]
      /\ protocol_fees' \in [Tokens -> Nat]
      /\ \A a \in Assets :
           total'[a] = total[a] + (IF a = Side THEN swap.fee_amount ELSE 0)
  <2>1. growth \in [Assets -> U128] /\ total \in [Assets -> Nat]
          /\ protocol_fees \in [Tokens -> Nat]
    BY <1>1 DEF Shape
  <2> HIDE DEF Side
  <2>2. growth' \in [Assets -> U128]
    BY <1>2, <1>3, <1>4, <2>1
  <2>3. total' \in [Assets -> Nat] /\
          \A a \in Assets : total'[a] = total[a] + (IF a = Side THEN swap.fee_amount ELSE 0)
    BY <1>2, <1>3, <1>4, <2>1
  <2>4. protocol_fees' \in [Tokens -> Nat]
    BY <1>2, <1>3, <1>4, <2>1
  <2> QED
    BY <2>2, <2>3, <2>4
<1>8. Shape'
  BY <1>1, <1>2, <1>3, <1>7 DEF Shape, NoSwap
<1>9. pool'.liquidity >= 0
  <2>1. Active = Sum(personal, Around(Tick))
    BY <1>1, LiquidityIsParts DEF LiquidityParts
  <2>2. Sum(personal, Around(Tick)) \in Nat
    BY <1>1, LiquidityNatural DEF Shape
  <2> QED
    BY <1>2, <2>1, <2>2 DEF Active
<1>10. Search'
  BY <1>5 DEF Search
<1>11. Closed' /\ LiquidityIsSum' /\ Tables' /\ Place' /\ EndsAreUsed'
  BY <1>2, <1>6, <1>8, <1>9, <1>10, ViewKeeps
<1>12. \A r \in Ranges, a \in Assets : InsideOf(r, a)' = InsideOf(r, a)
  BY <1>2, <1>6 DEF InsideOf, Below, BelowAt
<1>13. Bounded' /\ Noted'
  BY <1>1, <1>2, <1>6, <1>12 DEF Bounded, Noted
<1>14. Taken'
  <2>1. \A p \in Positions : personal[p].range \in Ranges
    BY <1>1 DEF Shape, Personals
  <2> SUFFICES ASSUME NEW x \in Positions, NEW a \in Assets, NEW r \in Ranges,
                      r = personal[x].range, personal[x].liquidity > 0
               PROVE  /\ history.personal[x][a] <= history.protocol[r][a]
                      /\ WrappingSub(InsideOf(r, a)', personal[x].last[a])
                           = history.earned[r][a] - history.personal[x][a]
    BY <1>2, <2>1 DEF Taken
  <2> QED
    BY <1>1, <1>12 DEF Taken
<1>15. Owing'
  <2>1. ASSUME NEW a \in Assets PROVE Claims(a)' = Claims(a) /\ Books(a)' = Books(a)
    <3>1. Claims(a)' = Claims(a)
      BY <1>2 DEF Claims, Claim
    <3>2. total[a] \in Nat /\ claimed[a] \in Nat
      BY <1>1 DEF Shape
    <3>3. Books(a)' = total'[a] - claimed[a]
      BY <1>2, <1>5, <1>7, <3>2 DEF Books
    <3>4. Books(a) = total[a] - claimed[a] + (IF a = Side THEN swap.fee_amount ELSE 0)
      BY <1>2 DEF Books
    <3> QED
      BY <1>3, <1>7, <3>1, <3>2, <3>3, <3>4
  <2> QED
    BY <1>1, <2>1 DEF Owing
<1> QED
  BY <1>8, <1>10, <1>11, <1>13, <1>14, <1>15 DEF ClmmInv

-----------------------------------------------------------------------------
(* A step of a swap.                                                       *)

\* The nearest used tick n in direction z of tick from.
IsNext(z, from, n) ==
  /\ n \in Ticks /\ n \in Int /\ Initialized(n)
  /\ IF z THEN n <= from ELSE n > from
  /\ \A u \in Ticks : Initialized(u) =>
       IF z THEN u <= from => u <= n ELSE u > from => u >= n

\* The tick a step of a swap goes to is the next used one.
LEMMA NextFound ==
  ASSUME Shape, Tables, Search, swap.on, ~swap.filled, NextTicks # {}
  PROVE  IsNext(swap.zero_for_one, Tick, Nearest(NextTicks, swap.zero_for_one))
<1> DEFINE z == swap.zero_for_one
           n == Nearest(NextTicks, z)
           A == Ahead(z, swap.tick)
<1>1. z \in BOOLEAN /\ swap.tick = Tick
  BY UnderWay DEF Tick
<1>2. NextTicks \subseteq A /\ \A u \in A : \E v \in NextTicks : IF z THEN u <= v ELSE v <= u
  BY <1>1, SearchFinds
<1>3. A \subseteq Ticks /\ NextTicks \subseteq Int /\ IsFiniteSet(NextTicks)
  <2>1. A \subseteq Ticks
    BY DEF Ahead
  <2> QED
    BY <1>2, <2>1, Finite, FS_Subset
<1>4. n \in NextTicks /\ \A y \in NextTicks : IF z THEN y <= n ELSE y >= n
  BY <1>1, <1>3, NearestIn
<1> HIDE DEF n
<1>5. n \in A /\ n \in Ticks /\ n \in Int
  BY <1>2, <1>3, <1>4
<1>6. ASSUME NEW u \in A PROVE IF z THEN u <= n ELSE u >= n
  <2>1. PICK v \in NextTicks : IF z THEN u <= v ELSE v <= u
    BY <1>2
  <2>2. u \in Int /\ v \in Int
    BY <1>3, Finite
  <2> HIDE DEF z
  <2> QED
    BY <1>1, <1>4, <1>5, <2>1, <2>2
<1>7. \A u \in Ticks : Initialized(u) =>
        IF z THEN u <= Tick => u <= n ELSE u > Tick => u >= n
  BY <1>1, <1>6 DEF Ahead
<1>8. Initialized(n) /\ IF z THEN n <= Tick ELSE n > Tick
  BY <1>1, <1>5 DEF Ahead
<1> QED
  BY <1>5, <1>7, <1>8 DEF IsNext, n

\* The current tick after a step is the next one, or on its side of it, and
\* no used tick but the next changes sides.
Arrives(z, price, n) ==
  IF price = PriceAt(n) THEN IF z THEN n - 1 ELSE n
  ELSE IF price # Price THEN TickAt(price) ELSE Tick

LEMMA SidesKept ==
  ASSUME Place, Tick \in Int, Price \in Int, NEW z \in BOOLEAN, NEW n, IsNext(z, Tick, n),
         NEW price \in Int,
         IF z THEN PriceAt(n) <= price /\ price <= Price
              ELSE Price <= price /\ price <= PriceAt(n),
         NEW t \in Ticks, t \in Int, Initialized(t)
  PROVE  /\ Arrives(z, price, n) \in Int
         /\ t # n \/ price # PriceAt(n) => (t <= Arrives(z, price, n) <=> t <= Tick)
         /\ t = n /\ price = PriceAt(n) =>
              (t <= Arrives(z, price, n) <=> ~z) /\ (t <= Tick <=> z)
<1> DEFINE T == Arrives(z, price, n)
<1>1. n \in Int /\ (IF z THEN n <= Tick ELSE n > Tick)
        /\ (IF z THEN t <= Tick => t <= n ELSE t > Tick => t >= n)
  BY DEF IsNext
<1>2. CASE price = PriceAt(n)
  <2>1. T = IF z THEN n - 1 ELSE n
    BY <1>2 DEF Arrives
  <2> HIDE DEF T
  <2> QED
    BY <1>1, <1>2, <2>1 DEF T
<1>3. CASE price # PriceAt(n) /\ price = Price
  <2>1. T = Tick
    BY <1>3 DEF Arrives
  <2> QED
    BY <1>3, <2>1
<1>4. CASE price # PriceAt(n) /\ price # Price
  <2>1. T = price \div 2
    BY <1>4 DEF Arrives, TickAt
  <2>2. T \in Int /\ 2 * T <= price /\ price < 2 * T + 2
    BY <2>1
  <2>3. Price \div 2 = Tick \/ Price = 2 * (Tick + 1)
    BY DEF Place, TickAt, PriceAt
  <2>4. 2 * Tick <= Price /\ Price <= 2 * Tick + 2
    BY <2>3
  <2> HIDE DEF T
  <2>5. CASE z
    <3>1. 2 * n < price /\ price < Price
      BY <1>1, <1>4, <2>5 DEF PriceAt
    <3>2. n <= T /\ T <= Tick
      BY <1>1, <2>2, <2>4, <3>1
    <3>3. t <= T <=> t <= Tick
      BY <1>1, <2>2, <2>5, <3>2
    <3> QED
      BY <1>4, <2>2, <3>3 DEF T
  <2>6. CASE ~z
    <3>1. Price < price /\ price < 2 * n
      BY <1>1, <1>4, <2>6 DEF PriceAt
    <3>2. T < n /\ Tick <= T
      BY <1>1, <2>2, <2>4, <3>1
    <3>3. t <= T <=> t <= Tick
      BY <1>1, <2>2, <2>6, <3>2
    <3> QED
      BY <1>4, <2>2, <3>3 DEF T
  <2> QED
    BY <2>5, <2>6
<1> QED
  BY <1>2, <1>3, <1>4

\* A fee is split into what is kept and what is set aside, and the growth
\* with what it adds is within the books of the swap.
StepGrowth(fee) == FeeGrowth(fee - RewardFee(fee))
StepAdds(fee) == IF swap.liquidity > 0 THEN fee - RewardFee(fee) ELSE 0

LEMMA StepCovers ==
  ASSUME ClmmInv, swap.on, NEW fee \in Fees
  PROVE  /\ fee \in Nat /\ fee - RewardFee(fee) \in Nat /\ RewardFee(fee) \in Nat
         /\ StepGrowth(fee) \in Nat /\ StepAdds(fee) \in Nat
         /\ Active \in Nat /\ swap.liquidity \in Nat
         /\ StepGrowth(fee) * Active <= Q * StepAdds(fee)
<1>1. fee \in Nat /\ RewardFee(fee) \in Nat /\ RewardFee(fee) <= fee
  BY RewardFeePart, ClmmAssumption
<1>2. fee - RewardFee(fee) \in Nat
  BY <1>1
<1>3. Active = swap.liquidity /\ swap.liquidity \in Nat
  <2>1. Active = Sum(personal, Around(Tick))
    BY LiquidityIsParts DEF LiquidityParts, ClmmInv
  <2>2. Sum(personal, Around(Tick)) \in Nat
    BY LiquidityNatural DEF ClmmInv, Shape
  <2> QED
    BY <2>1, <2>2 DEF Active
<1> DEFINE kept == fee - RewardFee(fee)
<1>4. kept \in Nat
  BY <1>2
<1> HIDE DEF kept
<1>5. /\ FeeGrowth(kept) \in Nat
      /\ FeeGrowth(kept) * swap.liquidity <= Q * (IF swap.liquidity > 0 THEN kept ELSE 0)
  BY <1>3, <1>4, FeeCovers
<1> QED
  BY <1>1, <1>2, <1>3, <1>5 DEF StepGrowth, StepAdds, kept

\* What a step does, told by what stands for the pool.
LEMMA StepDoes ==
  ASSUME ClmmInv, NEW price \in Prices, NEW fee \in Fees, SwapStep(price, fee)
  PROVE  LET z == swap.zero_for_one
             n == Nearest(NextTicks, z)
         IN  /\ swap.on /\ z \in BOOLEAN /\ Side \in Assets /\ price \in Int
             /\ IsNext(z, Tick, n)
             /\ IF z THEN PriceAt(n) <= price /\ price <= Price
                     ELSE Price <= price /\ price <= PriceAt(n)
             /\ swap' \in Swaps /\ swap'.on /\ swap'.zero_for_one = z
             /\ Tick' = Arrives(z, price, n) /\ Price' = price
             /\ Active' = Active + (IF price # PriceAt(n) THEN 0
                                    ELSE IF z THEN -ticks[n].net ELSE ticks[n].net)
             /\ swap'.fee_amount = swap.fee_amount + StepAdds(fee)
             /\ swap'.array = ArrayOf(n) /\ swap'.matched = TRUE
             /\ swap'.filled = (price # PriceAt(n))
             /\ Growths' \in [Assets -> U128]
             /\ \A a \in Assets :
                  Growths'[a] = Growths[a] + Part(a, Side, StepGrowth(fee))
             /\ ticks' \in [Ticks -> TickStates]
             /\ \A t \in Ticks :
                  /\ ticks'[t].gross = ticks[t].gross /\ ticks'[t].net = ticks[t].net
                  /\ \A a \in Assets : ticks'[t].outside[a] =
                       IF t = n /\ price = PriceAt(n) THEN Growths'[a] - ticks[t].outside[a]
                       ELSE ticks[t].outside[a]
             /\ history' = [history EXCEPT !.earned = Earned(Side, StepGrowth(fee), Tick)]
             /\ UNCHANGED <<pool, status, growth, total, claimed, protocol_fees, reward_vault,
                            count, bitmap, protocol, personal, steps>>
<1> DEFINE z == swap.zero_for_one
           n == Nearest(NextTicks, z)
           reached == price = PriceAt(n)
           kept == fee - RewardFee(fee)
           g == [growth EXCEPT ![Side] = swap.growth + StepGrowth(fee)]
<1>1. /\ Shape /\ Tables /\ Search /\ ticks \in [Ticks -> TickStates]
      /\ growth \in [Assets -> U128]
  BY DEF ClmmInv, Shape
<1>2. /\ swap.on /\ ~swap.filled /\ NextTicks # {}
      /\ IF z THEN PriceAt(n) <= price /\ price <= swap.price
              ELSE swap.price <= price /\ price <= PriceAt(n)
      /\ g[Side] < Modulus
      /\ ticks' = IF reached THEN Crossed(n, g) ELSE ticks
      /\ history' = [history EXCEPT !.earned = Earned(Side, StepGrowth(fee), swap.tick)]
      /\ UNCHANGED <<pool, status, growth, total, claimed, protocol_fees, reward_vault,
                     count, bitmap, protocol, personal, steps>>
  BY DEF SwapStep, Side, StepGrowth
<1>3. swap' = [swap EXCEPT
                 !.price        = price,
                 !.tick         = Arrives(z, price, n),
                 !.liquidity    = IF reached THEN CrossingLiquidity(n) ELSE swap.liquidity,
                 !.growth       = g[Side],
                 !.reward_fee   = RewardFee(fee),
                 !.protocol_fee = swap.protocol_fee + kept,
                 !.fee_amount   = IF swap.liquidity > 0 THEN swap.fee_amount + kept
                                  ELSE swap.fee_amount,
                 !.fees_in      = swap.fees_in + fee,
                 !.array        = ArrayOf(n),
                 !.matched      = TRUE,
                 !.filled       = ~reached]
  <2>1. Price = swap.price /\ Tick = swap.tick
    BY <1>2 DEF Price, Tick
  <2> QED
    BY <2>1 DEF SwapStep, Side, StepGrowth, Arrives
<1>4. /\ swap \in Swaps /\ z \in BOOLEAN /\ swap.tick = Tick /\ swap.price = Price
      /\ swap.liquidity = Active /\ Side \in Assets
      /\ Tick \in Int /\ Price \in Int /\ swap.growth \in U128
      /\ swap.fee_amount \in Nat /\ swap.protocol_fee \in Nat /\ swap.fees_in \in Nat
  BY <1>1, <1>2, UnderWay DEF Tick, Price, Active, Side, Assets, Tokens
<1>5. IsNext(z, Tick, n) /\ n \in Ticks /\ n \in Int /\ ArrayOf(n) \in Arrays
  BY <1>1, <1>2, NextFound DEF IsNext, Arrays
<1>6. price \in Int
  BY Finite DEF Prices, PriceAt
<1>7. /\ fee \in Nat /\ kept \in Nat /\ RewardFee(fee) \in Nat
      /\ StepGrowth(fee) \in Nat /\ StepAdds(fee) \in Nat /\ swap.liquidity \in Nat
      /\ StepAdds(fee) = IF swap.liquidity > 0 THEN kept ELSE 0
  BY <1>2, StepCovers DEF StepAdds
<1>8. g \in [Assets -> U128] /\ g[Side] \in U128 /\ g[Side] = swap.growth + StepGrowth(fee)
  <2> HIDE DEF Side
  <2>1. g[Side] = swap.growth + StepGrowth(fee)
    BY <1>1, <1>4
  <2>2. g[Side] \in U128
    BY <1>2, <1>4, <1>7, <2>1, ClmmAssumption DEF U128
  <2> QED
    BY <1>1, <1>4, <2>1, <2>2
<1> HIDE DEF n, g, kept
<1>9. Arrives(z, price, n) \in Int
  BY <1>4, <1>5, <1>6 DEF Arrives, TickAt
<1>10. ticks[n].net \in Int
  BY <1>1, <1>5 DEF TickStates
<1> DEFINE net == IF z THEN -ticks[n].net ELSE ticks[n].net
<1>11. CrossingLiquidity(n) = swap.liquidity + net /\ net \in Int
  BY <1>10 DEF CrossingLiquidity
<1> HIDE DEF net
<1>12. /\ swap' \in Swaps /\ swap'.on = TRUE /\ swap'.zero_for_one = z
       /\ swap'.tick = Arrives(z, price, n) /\ swap'.price = price
       /\ swap'.liquidity = IF reached THEN swap.liquidity + net ELSE swap.liquidity
       /\ swap'.growth = g[Side]
       /\ swap'.fee_amount = IF swap.liquidity > 0 THEN swap.fee_amount + kept
                             ELSE swap.fee_amount
       /\ swap'.array = ArrayOf(n) /\ swap'.matched = TRUE /\ swap'.filled = ~reached
  <2> DEFINE tick == Arrives(z, price, n)
             liquidity == IF reached THEN CrossingLiquidity(n) ELSE swap.liquidity
             growing == g[Side]
             array == ArrayOf(n)
             aside == RewardFee(fee)
             amount == IF swap.liquidity > 0 THEN swap.fee_amount + kept ELSE swap.fee_amount
             owing == swap.protocol_fee + kept
             paid == swap.fees_in + fee
             filled == ~reached
  <2>1. /\ tick \in Int /\ liquidity \in Int /\ growing \in U128 /\ array \in Arrays
        /\ aside \in Nat /\ amount \in Nat /\ owing \in Nat /\ paid \in Nat /\ filled \in BOOLEAN
        /\ liquidity = IF reached THEN swap.liquidity + net ELSE swap.liquidity
    BY <1>4, <1>5, <1>7, <1>8, <1>9, <1>11
  <2>2. swap' = [swap EXCEPT !.price = price, !.tick = tick, !.liquidity = liquidity,
                   !.growth = growing, !.reward_fee = aside, !.protocol_fee = owing,
                   !.fee_amount = amount, !.fees_in = paid, !.array = array,
                   !.matched = TRUE, !.filled = filled]
    BY <1>3
  <2> HIDE DEF tick, liquidity, growing, aside, amount, owing, paid, array, filled
  <2>3. swap' \in Swaps
    BY <1>4, <1>6, <2>1, <2>2, ZenonT(60) DEF Swaps
  <2>4. /\ swap'.on = TRUE /\ swap'.zero_for_one = z
        /\ swap'.tick = tick /\ swap'.price = price /\ swap'.liquidity = liquidity
        /\ swap'.growth = growing /\ swap'.fee_amount = amount
        /\ swap'.array = array /\ swap'.matched = TRUE /\ swap'.filled = filled
    BY <1>4, <2>2 DEF Swaps
  <2> QED
    BY <2>1, <2>3, <2>4 DEF tick, growing, amount, array, filled
<1>13. Side' = Side /\ Growths' = g
  <2>1. Side' = Side
    BY <1>12 DEF Side
  <2>2. Growths' = [growth EXCEPT ![Side] = g[Side]]
    BY <1>2, <1>12, <2>1 DEF Growths
  <2> QED
    BY <1>1, <1>4, <1>8, <2>1, <2>2 DEF g
<1>14. \A a \in Assets : Growths'[a] = Growths[a] + Part(a, Side, StepGrowth(fee))
  <2>1. Growths = [growth EXCEPT ![Side] = swap.growth]
    BY <1>2 DEF Growths
  <2>2. \A a \in Assets : growth[a] \in Int /\ (a # Side => g[a] = growth[a])
    BY <1>1, <1>4 DEF U128, g
  <2> HIDE DEF Side
  <2> QED
    BY <1>1, <1>4, <1>8, <1>13, <2>1, <2>2 DEF Part
<1>15. Tick' = Arrives(z, price, n) /\ Price' = price
  BY <1>12 DEF Tick, Price
<1>16. Active' = Active + (IF ~reached THEN 0 ELSE net)
  BY <1>4, <1>7, <1>11, <1>12 DEF Active
<1>17. ASSUME NEW t \in Ticks
       PROVE  /\ ticks'[t] \in TickStates
              /\ ticks'[t].gross = ticks[t].gross /\ ticks'[t].net = ticks[t].net
              /\ \A a \in Assets : ticks'[t].outside[a] =
                   IF t = n /\ reached THEN Growths'[a] - ticks[t].outside[a]
                   ELSE ticks[t].outside[a]
  <2>1. ticks[t] \in TickStates
    BY <1>1
  <2>2. CASE t = n /\ reached
    <3> DEFINE outside == [a \in Assets |-> g[a] - ticks[t].outside[a]]
    <3>1. ticks'[t] = [ticks[t] EXCEPT !.outside = outside]
      BY <1>1, <1>2, <1>5, <2>2 DEF Crossed
    <3>2. outside \in [Assets -> Int] /\ \A a \in Assets : outside[a] = g[a] - ticks[t].outside[a]
      BY <1>8, <2>1 DEF TickStates, U128
    <3> HIDE DEF outside
    <3>3. ticks'[t] \in TickStates /\ ticks'[t].outside = outside
            /\ ticks'[t].gross = ticks[t].gross /\ ticks'[t].net = ticks[t].net
      BY <2>1, <3>1, <3>2 DEF TickStates
    <3> QED
      BY <1>13, <2>2, <3>2, <3>3
  <2>3. CASE ~(t = n /\ reached)
    <3>1. ticks'[t] = ticks[t]
      BY <1>1, <1>2, <1>5, <2>3 DEF Crossed
    <3> QED
      BY <2>1, <2>3, <3>1
  <2> QED
    BY <2>2, <2>3
<1>18. ticks' \in [Ticks -> TickStates]
  <2>1. ticks' = [t \in Ticks |-> ticks'[t]]
    BY <1>1, <1>2 DEF Crossed
  <2> QED
    BY <1>17, <2>1
<1>19. swap'.fee_amount = swap.fee_amount + StepAdds(fee)
  BY <1>4, <1>7, <1>12
<1> QED
  BY <1>2, <1>4, <1>5, <1>6, <1>8, <1>12, <1>13, <1>14, <1>15, <1>16, <1>17, <1>18, <1>19
  DEF n, net

\* A position with liquidity has its ends on used ticks.
LEMMA UsedEnds ==
  ASSUME EndsAreUsed
  PROVE  \A p \in Positions : personal[p].liquidity > 0 =>
           LET r == personal[p].range
           IN  /\ r \in Ranges /\ r[1] \in Ticks /\ r[2] \in Ticks
               /\ r[1] \in Int /\ r[2] \in Int /\ r[1] < r[2]
               /\ Initialized(r[1]) /\ Initialized(r[2])
<1> SUFFICES ASSUME NEW p \in Positions, personal[p].liquidity > 0, NEW r, r = personal[p].range
             PROVE  /\ r \in Ranges /\ r[1] \in Ticks /\ r[2] \in Ticks
                    /\ r[1] \in Int /\ r[2] \in Int /\ r[1] < r[2]
                    /\ Initialized(r[1]) /\ Initialized(r[2])
  OBVIOUS
<1>1. r \in Ranges /\ personal[p].liquidity <= protocol[r].liquidity
        /\ protocol[r].liquidity \in Nat /\ personal[p].liquidity \in Nat
  BY DEF EndsAreUsed
<1>2. r[1] \in Ticks /\ r[2] \in Ticks /\ r[1] \in Int /\ r[2] \in Int /\ r[1] < r[2]
  BY <1>1, RangeTicks
<1>3. /\ protocol[r].liquidity <= ticks[r[1]].gross /\ protocol[r].liquidity <= ticks[r[2]].gross
      /\ ticks[r[1]].gross \in Nat /\ ticks[r[2]].gross \in Nat
  BY <1>1, <1>2 DEF EndsAreUsed
<1>4. Initialized(r[1]) /\ Initialized(r[2])
  BY <1>1, <1>3 DEF Initialized
<1> QED
  BY <1>1, <1>2, <1>4

\* The ranges around the tick beyond a crossed one have the liquidity of those
\* around the tick before it and what the crossing adds.
LEMMA CrossingMoves ==
  ASSUME NEW z \in BOOLEAN, NEW from \in Int, NEW n, IsNext(z, from, n),
         NEW to \in Int, to = IF z THEN n - 1 ELSE n,
         EndsAreUsed, personal \in [Positions -> Personals],
         ticks[n].net = Sum(personal, {r \in Ranges : r[1] = n})
                          - Sum(personal, {r \in Ranges : r[2] = n})
  PROVE  Sum(personal, Around(to)) = Sum(personal, Around(from))
           + (IF z THEN -ticks[n].net ELSE ticks[n].net)
<1> DEFINE From == {r \in Ranges : r[1] = n}
           To == {r \in Ranges : r[2] = n}
           S == IF z THEN From ELSE To
           V == IF z THEN To ELSE From
<1>1. \A p \in Positions : personal[p].liquidity > 0 =>
        LET r == personal[p].range
        IN  /\ r \in Ranges /\ r[1] \in Ticks /\ r[2] \in Ticks
            /\ r[1] \in Int /\ r[2] \in Int /\ r[1] < r[2]
            /\ Initialized(r[1]) /\ Initialized(r[2])
  BY UsedEnds
<1>2. ASSUME NEW t \in Ticks, t \in Int, Initialized(t)
      PROVE  /\ t # n => (t <= to <=> t <= from)
             /\ t = n => (t <= to <=> ~z) /\ (t <= from <=> z)
  BY <1>2 DEF IsNext
<1>3. ASSUME NEW p \in Positions, personal[p].liquidity > 0, NEW r, r = personal[p].range
      PROVE  \/ (r \in Around(to) <=> r \in Around(from)) /\ (r \in S <=> r \in V)
             \/ (r \in Around(to) <=> r \in V) /\ (r \in S <=> r \in Around(from))
  <2>1. r \in Ranges /\ r[1] \in Ticks /\ r[2] \in Ticks /\ r[1] \in Int /\ r[2] \in Int
          /\ r[1] < r[2] /\ Initialized(r[1]) /\ Initialized(r[2]) /\ n \in Int
    BY <1>1, <1>3 DEF IsNext
  <2>2. /\ r \in Around(to) <=> r[1] <= to /\ ~(r[2] <= to)
        /\ r \in Around(from) <=> r[1] <= from /\ ~(r[2] <= from)
        /\ r \in From <=> r[1] = n
        /\ r \in To <=> r[2] = n
    BY <2>1 DEF Around, InRange
  <2>3. /\ r[1] # n => (r[1] <= to <=> r[1] <= from)
        /\ r[1] = n => (r[1] <= to <=> ~z) /\ (r[1] <= from <=> z)
        /\ r[2] # n => (r[2] <= to <=> r[2] <= from)
        /\ r[2] = n => (r[2] <= to <=> ~z) /\ (r[2] <= from <=> z)
    BY <1>2, <2>1
  <2>4. /\ z /\ r[1] = n => ~(r[2] <= from)
        /\ ~z /\ r[2] = n => r[1] <= from
        /\ z /\ r[2] = n => r[1] <= to
        /\ ~z /\ r[1] = n => ~(r[2] <= to)
    <3>1. /\ (r[1] <= from /\ z => r[1] <= n) /\ (r[2] <= from /\ z => r[2] <= n)
          /\ (~(r[1] <= from) /\ ~z => r[1] >= n) /\ (~(r[2] <= from) /\ ~z => r[2] >= n)
          /\ (IF z THEN n <= from ELSE n > from)
      BY <2>1 DEF IsNext
    <3> QED
      BY <2>1, <2>3, <3>1
  <2> HIDE DEF From, To
  <2> QED
    BY <2>1, <2>2, <2>3, <2>4
<1>4. Sum(personal, Around(to)) + Sum(personal, S) = Sum(personal, Around(from)) + Sum(personal, V)
  <2> HIDE DEF S, V
  <2>1. \A p \in Positions : personal[p].liquidity > 0 =>
          LET r == personal[p].range
          IN  \/ (r \in Around(to) <=> r \in Around(from)) /\ (r \in S <=> r \in V)
              \/ (r \in Around(to) <=> r \in V) /\ (r \in S <=> r \in Around(from))
    BY <1>3
  <2> QED
    BY <2>1, LiquidityMoved
<1>5. \A R : Sum(personal, R) \in Nat
  BY LiquidityNatural
<1> DEFINE here == Sum(personal, Around(from))
           there == Sum(personal, Around(to))
           lower == Sum(personal, From)
           upper == Sum(personal, To)
<1>6. there + (IF z THEN lower ELSE upper) = here + (IF z THEN upper ELSE lower)
  BY <1>4
<1>7. here \in Nat /\ there \in Nat /\ lower \in Nat /\ upper \in Nat
  BY <1>5
<1>8. ticks[n].net = lower - upper
  OBVIOUS
<1> HIDE DEF here, there, lower, upper
<1>9. there = here + (IF z THEN -ticks[n].net ELSE ticks[n].net)
  BY <1>6, <1>7, <1>8
<1> QED
  BY <1>9 DEF here, there

\* The liquidity of the pool after a step is that of the ranges around the
\* tick it came to.
LEMMA StepLiquidity ==
  ASSUME Place, Tick \in Int, Price \in Int, NEW z \in BOOLEAN, NEW n, IsNext(z, Tick, n),
         NEW price \in Int,
         IF z THEN PriceAt(n) <= price /\ price <= Price
              ELSE Price <= price /\ price <= PriceAt(n),
         LiquidityParts, EndsAreUsed, personal \in [Positions -> Personals]
  PROVE  Sum(personal, Around(Arrives(z, price, n))) = Active
           + (IF price # PriceAt(n) THEN 0 ELSE IF z THEN -ticks[n].net ELSE ticks[n].net)
<1> DEFINE T == Arrives(z, price, n)
<1>1. Active = Sum(personal, Around(Tick)) /\ Active \in Nat
  BY LiquidityNatural DEF LiquidityParts
<1>2. CASE price # PriceAt(n)
  <2>1. ASSUME NEW p \in Positions, personal[p].liquidity > 0
        PROVE  personal[p].range \in Around(T) <=> personal[p].range \in Around(Tick)
    <3> DEFINE r == personal[p].range
    <3>1. r \in Ranges /\ r[1] \in Ticks /\ r[2] \in Ticks /\ r[1] \in Int /\ r[2] \in Int
            /\ Initialized(r[1]) /\ Initialized(r[2])
      BY <2>1, UsedEnds
    <3>2. /\ T \in Int /\ (r[1] <= T <=> r[1] <= Tick) /\ (r[2] <= T <=> r[2] <= Tick)
      BY <1>2, <3>1, SidesKept
    <3> HIDE DEF T
    <3>3. /\ r \in Around(T) <=> r[1] <= T /\ ~(r[2] <= T)
          /\ r \in Around(Tick) <=> r[1] <= Tick /\ ~(r[2] <= Tick)
      BY <3>1, <3>2 DEF Around, InRange
    <3> QED
      BY <3>2, <3>3
  <2>2. Sum(personal, Around(T)) = Sum(personal, Around(Tick))
    BY <2>1, LiquiditySame
  <2> QED
    BY <1>1, <1>2, <2>2
<1>3. CASE price = PriceAt(n)
  <2>1. n \in Ticks /\ n \in Int
    BY DEF IsNext
  <2>2. T = (IF z THEN n - 1 ELSE n) /\ T \in Int
    BY <1>3, <2>1 DEF Arrives
  <2>3. ticks[n].net = Sum(personal, {r \in Ranges : r[1] = n})
                         - Sum(personal, {r \in Ranges : r[2] = n})
    BY <2>1 DEF LiquidityParts
  <2> HIDE DEF T
  <2>4. Sum(personal, Around(T)) = Sum(personal, Around(Tick))
          + (IF z THEN -ticks[n].net ELSE ticks[n].net)
    BY <2>2, <2>3, CrossingMoves
  <2> QED
    BY <1>1, <1>3, <2>4 DEF T
<1> QED
  BY <1>2, <1>3


LEMMA StepKeeps ==
  ASSUME ClmmInv, NEW price \in Prices, NEW fee \in Fees, SwapStep(price, fee)
  PROVE  ClmmInv'
<1> DEFINE z == swap.zero_for_one
           n == Nearest(NextTicks, z)
           reached == price = PriceAt(n)
           d == StepGrowth(fee)
           add == StepAdds(fee)
<1>1. /\ Shape /\ Closed /\ LiquidityIsSum /\ Tables /\ Place /\ Search
      /\ Bounded /\ Noted /\ Taken /\ Owing
  BY DEF ClmmInv
<1>2. /\ swap.on /\ z \in BOOLEAN /\ Side \in Assets /\ price \in Int
      /\ IsNext(z, Tick, n)
      /\ IF z THEN PriceAt(n) <= price /\ price <= Price
              ELSE Price <= price /\ price <= PriceAt(n)
  BY StepDoes
<1>3. /\ swap' \in Swaps /\ swap'.on /\ swap'.zero_for_one = z
      /\ Tick' = Arrives(z, price, n) /\ Price' = price
      /\ Active' = Active + (IF price # PriceAt(n) THEN 0
                             ELSE IF z THEN -ticks[n].net ELSE ticks[n].net)
      /\ swap'.fee_amount = swap.fee_amount + add
      /\ swap'.array = ArrayOf(n) /\ swap'.matched = TRUE /\ swap'.filled = (price # PriceAt(n))
  BY StepDoes
<1>4. /\ Growths' \in [Assets -> U128]
      /\ \A a \in Assets : Growths'[a] = Growths[a] + Part(a, Side, d)
      /\ ticks' \in [Ticks -> TickStates]
      /\ \A t \in Ticks :
           /\ ticks'[t].gross = ticks[t].gross /\ ticks'[t].net = ticks[t].net
           /\ \A a \in Assets : ticks'[t].outside[a] =
                IF t = n /\ reached THEN Growths'[a] - ticks[t].outside[a]
                ELSE ticks[t].outside[a]
  BY StepDoes
<1>5. /\ history' = [history EXCEPT !.earned = Earned(Side, d, Tick)]
      /\ pool' = pool /\ status' = status /\ growth' = growth /\ total' = total
      /\ claimed' = claimed /\ protocol_fees' = protocol_fees /\ reward_vault' = reward_vault
      /\ count' = count /\ bitmap' = bitmap /\ protocol' = protocol /\ personal' = personal
      /\ steps' = steps
  BY StepDoes
<1>6. d \in Nat /\ add \in Nat /\ Active \in Nat /\ d * Active <= Q * add
  BY <1>2, StepCovers
<1>7. Growths \in [Assets -> U128] /\ Tick \in Int /\ Price \in Int
        /\ personal \in [Positions -> Personals]
        /\ \A t \in Ticks : ticks[t].outside \in [Assets -> Int]
  BY <1>1, NowTypes DEF Shape, TickStates
<1> HIDE DEF n, d, add, Side
<1>8. EndsAreUsed /\ LiquidityParts
  BY <1>1, EndsUsed, LiquidityIsParts DEF PositionsTyped, Shape
<1>9. n \in Ticks /\ n \in Int /\ \A t \in Ticks : t \in Int
  BY <1>2, Finite DEF IsNext
<1>10. ASSUME NEW r \in Ranges
       PROVE  /\ Earned(Side, d, Tick)[r] \in [Assets -> Nat]
              /\ \A a \in Assets : Earned(Side, d, Tick)[r][a] = history.earned[r][a]
                   + (IF InRange(r, Tick) THEN Part(a, Side, d) ELSE 0)
  <2>1. history.earned[r] \in [Assets -> Nat]
    BY <1>1 DEF Shape, Histories
  <2>2. Earned(Side, d, Tick)[r] = IF InRange(r, Tick)
                                   THEN [history.earned[r] EXCEPT ![Side] = @ + d]
                                   ELSE history.earned[r]
    BY DEF Earned
  <2>3. CASE InRange(r, Tick)
    BY <1>2, <1>6, <2>1, <2>2, <2>3 DEF Part
  <2>4. CASE ~InRange(r, Tick)
    BY <2>1, <2>2, <2>4
  <2> QED
    BY <2>3, <2>4
<1>11. /\ history' \in Histories /\ history'.earned = Earned(Side, d, Tick)
       /\ history'.protocol = history.protocol /\ history'.personal = history.personal
  <2> DEFINE earned == Earned(Side, d, Tick)
  <2>1. earned \in [Ranges -> [Assets -> Nat]]
    BY <1>10 DEF Earned
  <2>2. history' = [history EXCEPT !.earned = earned] /\ history \in Histories
    BY <1>1, <1>5 DEF Shape
  <2> HIDE DEF earned
  <2>3. /\ history' \in Histories /\ history'.earned = earned
        /\ history'.protocol = history.protocol /\ history'.personal = history.personal
    BY <2>1, <2>2 DEF Histories
  <2> QED
    BY <2>3 DEF earned
<1>12. Grew(Side, d)
  BY <1>4, <1>6, <1>10, <1>11 DEF Grew
<1>13. Shape'
  BY <1>1, <1>3, <1>4, <1>5, <1>11 DEF Shape, NoSwap
<1>14. Closed'
  BY <1>1, <1>5 DEF Closed
<1>15. LiquidityIsSum'
  <2>1. Sum(personal, Around(Arrives(z, price, n))) = Active'
    <3> DEFINE T == Arrives(z, price, n)
               more == IF price # PriceAt(n) THEN 0
                       ELSE IF z THEN -ticks[n].net ELSE ticks[n].net
    <3>1. Sum(personal, Around(T)) = Active + more
      BY <1>1, <1>2, <1>7, <1>8, StepLiquidity
    <3>2. Active' = Active + more
      BY <1>3
    <3> HIDE DEF T, more
    <3> QED
      BY <3>1, <3>2 DEF T
  <2>2. \A R : Sum(personal', R) = Sum(personal, R)
    BY <1>5
  <2>3. Active' = Sum(personal', Around(Tick'))
    BY <1>3, <2>1, <2>2
  <2>4. Around(Tick)' = Around(Tick')
    BY DEF Around, InRange
  <2>5. LiquidityParts'
    BY <1>4, <1>5, <1>8, <2>2, <2>3, <2>4 DEF LiquidityParts
  <2>6. LiquidityIsSum' <=> LiquidityParts'
    BY LiquidityIsParts, PTL
  <2> QED
    BY <2>5, <2>6
<1>16. EndsAreUsed'
  <2>1. PositionsTyped' /\ LiquidityIsSum' => EndsAreUsed'
    BY EndsUsed, PTL
  <2>2. PositionsTyped'
    BY <1>13 DEF PositionsTyped, Shape
  <2> QED
    BY <1>15, <2>1, <2>2
<1>17. Tables'
  <2>1. \A b : InArray(b)' = InArray(b)
    BY <1>4 DEF InArray, Initialized
  <2> QED
    BY <1>1, <1>5, <2>1 DEF Tables
<1>18. Place'
  <2>1. CASE reached
    <3>1. Tick' = (IF z THEN n - 1 ELSE n) /\ Price' = 2 * n
      BY <1>3, <2>1 DEF Arrives, PriceAt
    <3> QED
      BY <1>9, <3>1 DEF Place, TickAt, PriceAt
  <2>2. CASE ~reached /\ price # Price
    BY <1>3, <2>2 DEF Arrives, Place
  <2>3. CASE ~reached /\ price = Price
    <3>1. Tick' = Tick /\ Price' = Price
      BY <1>3, <2>3 DEF Arrives
    <3> QED
      BY <1>1, <3>1 DEF Place
  <2> QED
    BY <2>1, <2>2, <2>3
<1>19. Search'
  <2> SUFFICES ASSUME ~swap'.filled
               PROVE  \/ swap'.array = ArrayOf(Tick')
                      \/ swap'.zero_for_one /\ swap'.array = ArrayOf(Tick' + 1)
    BY <1>3 DEF Search, ArrayOf
  <2>1. Tick' = IF z THEN n - 1 ELSE n
    BY <1>3 DEF Arrives
  <2>2. CASE z
    <3>1. Tick' + 1 = n
      BY <1>9, <2>1, <2>2
    <3> QED
      BY <1>3, <2>2, <3>1
  <2>3. CASE ~z
    BY <1>3, <2>1, <2>3
  <2> QED
    BY <2>2, <2>3
<1>20. Bounded'
  <2> SUFFICES ASSUME NEW t \in Ticks, NEW a \in Assets
               PROVE  ticks'[t].outside[a] \in 0..Growths'[a]
    BY DEF Bounded
  <2>1. ticks[t].outside[a] \in 0..Growths[a]
    BY <1>1 DEF Bounded
  <2>2. Growths[a] \in Nat /\ Growths'[a] \in Nat /\ Growths[a] <= Growths'[a]
    BY <1>4, <1>7, <1>12 DEF Grew, Part, U128
  <2> QED
    BY <1>4, <2>1, <2>2
<1>21. TicksKeep
  <2> SUFFICES ASSUME NEW t \in Ticks, NEW a \in Assets, ticks[t].gross # 0
               PROVE  Below(t, a)' = GrownBelow(t, a)
    BY DEF TicksKeep
  <2>1. /\ Tick' \in Int
        /\ t # n \/ price # PriceAt(n) => (t <= Tick' <=> t <= Tick)
        /\ t = n /\ price = PriceAt(n) => (t <= Tick' <=> ~z) /\ (t <= Tick <=> z)
    <3>1. Initialized(t) /\ t \in Int
      BY <1>9 DEF Initialized
    <3> QED
      BY <1>1, <1>2, <1>3, <1>7, <3>1, SidesKept
  <2>2. Below(t, a)' = IF t <= Tick' THEN ticks'[t].outside[a]
                       ELSE Growths'[a] - ticks'[t].outside[a]
    BY <1>9, <2>1 DEF Below, BelowAt
  <2>3. GrownBelow(t, a) = IF t <= Tick THEN ticks[t].outside[a]
                           ELSE Growths'[a] - ticks[t].outside[a]
    BY <1>7, <1>9 DEF GrownBelow, BelowAt
  <2>4. Growths'[a] \in Int /\ ticks[t].outside[a] \in Int
    BY <1>4, <1>7 DEF U128
  <2>5. ticks'[t].outside[a] = IF t = n /\ reached THEN Growths'[a] - ticks[t].outside[a]
                               ELSE ticks[t].outside[a]
    BY <1>4
  <2> QED
    BY <1>2, <2>1, <2>2, <2>3, <2>4, <2>5
<1>22. Noted' /\ Taken' /\ Owing'
  <2>1. \A a \in Assets : Books(a) \in Int /\ Books(a)' = Books(a) + Part(a, Side, add)
    <3> SUFFICES ASSUME NEW a \in Assets
                 PROVE  Books(a) \in Int /\ Books(a)' = Books(a) + Part(a, Side, add)
      OBVIOUS
    <3>1. total[a] \in Nat /\ claimed[a] \in Nat /\ swap.fee_amount \in Nat
      BY <1>1, <1>2, UnderWay DEF Shape
    <3>2. Side' = Side
      BY <1>3 DEF Side
    <3>3. Books(a) = (total[a] - claimed[a]) + (IF a = Side THEN swap.fee_amount ELSE 0)
      BY <1>2 DEF Books
    <3>4. Books(a)' = (total[a] - claimed[a])
                        + (IF a = Side THEN swap.fee_amount + add ELSE 0)
      BY <1>3, <1>5, <3>2 DEF Books
    <3> QED
      BY <1>6, <3>1, <3>3, <3>4 DEF Part
  <2> QED
    BY <1>5, <1>6, <1>11, <1>12, <1>16, <1>21, <2>1, GrowthKeeps
<1> QED
  BY <1>13, <1>14, <1>15, <1>17, <1>18, <1>19, <1>20, <1>22 DEF ClmmInv

-----------------------------------------------------------------------------
(* The beginning.                                                          *)

LEMMA InitKeeps == Init => ClmmInv
<1> SUFFICES ASSUME Init PROVE ClmmInv
  OBVIOUS
<1>1. PICK price \in InitPrices :
        pool = [liquidity |-> 0, tick_current |-> TickAt(price), price |-> price]
  BY DEF Init
<1>2. /\ price \in Int /\ TickAt(price) \in Int /\ RewardFund \in Nat /\ MaxSteps \in Nat
      /\ Modulus \in Nat \ {0} /\ Q \in Nat
  BY <1>1, ClmmAssumption DEF TickAt
<1>3. /\ Zero \in [Assets -> U128] /\ Zero \in [Assets -> Nat] /\ Zero \in [Assets -> Int]
      /\ \A a \in Assets : Zero[a] = 0
  BY <1>2 DEF Zero, U128
<1>4. /\ status = {} /\ growth = Zero /\ total = Zero /\ claimed = Zero
      /\ protocol_fees = [i \in Tokens |-> 0] /\ reward_vault = RewardFund
      /\ ticks = [t \in Ticks |-> NoTick] /\ count = [b \in Arrays |-> 0] /\ bitmap = {}
      /\ protocol = [r \in Ranges |-> [liquidity |-> 0, inside |-> Zero]]
      /\ personal = [p \in Positions |-> NoPosition]
      /\ swap = NoSwap /\ steps = 0
      /\ history = [earned |-> [r \in Ranges |-> Zero], protocol |-> [r \in Ranges |-> Zero],
                    personal |-> [p \in Positions |-> Zero]]
  BY DEF Init
<1>5. /\ NoPosition \in Personals /\ NoPosition.liquidity = 0 /\ NoPosition.owed = Zero
  <2>1. \E r \in Ranges : TRUE
    BY ClmmAssumption
  <2> QED
    BY <1>3, <2>1 DEF NoPosition, Personals
<1>6. NoTick \in TickStates /\ NoTick.gross = 0 /\ NoTick.net = 0 /\ NoTick.outside = Zero
  BY <1>3 DEF NoTick, TickStates
<1>7. ~swap.on
  BY <1>4 DEF NoSwap
<1>8. history \in Histories
  BY <1>3, <1>4 DEF Histories
<1>9. Shape
  <2>1. pool \in [liquidity : Int, tick_current : Int, price : Int]
    BY <1>1, <1>2
  <2>2. ticks \in [Ticks -> TickStates] /\ personal \in [Positions -> Personals]
    BY <1>4, <1>5, <1>6
  <2>3. protocol \in [Ranges -> Protocols]
    BY <1>3, <1>4 DEF Protocols
  <2>4. count \in [Arrays -> Int] /\ protocol_fees \in [Tokens -> Nat]
    BY <1>4
  <2> QED
    BY <1>2, <1>3, <1>4, <1>8, <2>1, <2>2, <2>3, <2>4 DEF Shape
<1>10. Closed
  BY <1>1, <1>4, <1>5 DEF Closed
<1>11. LiquidityIsSum
  <2>1. \A R : Sum(personal, R) = 0
    <3> SUFFICES ASSUME NEW R PROVE Sum(personal, R) = 0
      OBVIOUS
    <3> DEFINE f == LiquidityIn(personal, R)
    <3>1. \A p \in Positions : f[p] = 0
      BY <1>4, <1>5 DEF LiquidityIn
    <3>2. IsFiniteSet(Positions)
      BY ClmmAssumption
    <3> HIDE DEF f
    <3>3. SumFunctionOnSet(f, Positions) = 0
      BY <3>1, <3>2, SumZero
    <3> QED
      BY <3>3 DEF Sum, f
  <2>2. Active = 0
    BY <1>1, <1>7 DEF Active
  <2>3. LiquidityParts
    BY <1>4, <1>6, <2>1, <2>2 DEF LiquidityParts
  <2> QED
    BY <2>3, LiquidityIsParts
<1>12. Tables
  <2>1. \A b \in Arrays : InArray(b) = {}
    BY <1>4, <1>6 DEF InArray, Initialized
  <2> QED
    BY <1>4, <2>1, FS_EmptySet DEF Tables
<1>13. Place /\ Search
  BY <1>1, <1>7 DEF Place, Search, Price, Tick
<1>14. Growths = Zero
  BY <1>4, <1>7 DEF Growths
<1>15. Bounded
  BY <1>3, <1>4, <1>6, <1>14 DEF Bounded
<1>16. Noted /\ Taken
  <2>1. \A r \in Ranges : history.earned[r] = Zero /\ history.protocol[r] = Zero
          /\ protocol[r].liquidity = 0
    BY <1>4
  <2>2. \A p \in Positions : personal[p].liquidity = 0
    BY <1>4, <1>5
  <2> QED
    BY <1>3, <1>14, <2>1, <2>2 DEF Noted, Taken
<1>17. Owing
  <2> SUFFICES ASSUME NEW a \in Assets PROVE Claims(a) <= Q * Books(a)
    BY DEF Owing
  <2> DEFINE f == [p \in Positions |-> Claim(p, a)]
  <2>1. ASSUME NEW p \in Positions PROVE Claim(p, a) = 0
    <3>1. Claim(p, a) = Q * personal[p].owed[a]
      BY <1>4, <1>5, <1>9, ClaimOfNone
    <3>2. personal[p].owed[a] = 0
      BY <1>3, <1>4, <1>5
    <3> QED
      BY <1>2, <3>1, <3>2
  <2>2. \A p \in Positions : f[p] = 0
    BY <2>1
  <2>3. Claims(a) = SumFunctionOnSet(f, Positions) /\ IsFiniteSet(Positions)
    BY ClaimsAre, ClmmAssumption
  <2> HIDE DEF f
  <2>4. Claims(a) = 0
    BY <2>2, <2>3, SumZero
  <2>5. Books(a) = 0
    BY <1>3, <1>4, <1>7 DEF Books
  <2> QED
    BY <1>2, <2>4, <2>5
<1> QED
  BY <1>9, <1>10, <1>11, <1>12, <1>13, <1>15, <1>16, <1>17 DEF ClmmInv

\* Every action keeps the invariant.
LEMMA ClmmSteps == ClmmInv /\ [Next]_vars => ClmmInv'
<1> SUFFICES ASSUME ClmmInv, [Next]_vars PROVE ClmmInv'
  OBVIOUS
<1>1. CASE \E p \in Positions, e \in Emissions, liquidity \in Liquidities, r \in Ranges :
             OpenPosition(p, r, liquidity, e)
  BY <1>1, OpenKeeps
<1>2. CASE \E p \in Positions, e \in Emissions, liquidity \in Liquidities :
             IncreaseLiquidity(p, liquidity, e)
  BY <1>2, IncreaseKeeps
<1>3. CASE \E p \in Positions, e \in Emissions, liquidity \in Liquidities, short \in BOOLEAN :
             DecreaseLiquidity(p, liquidity, e, short)
  BY <1>3, DecreaseKeeps
<1>4. CASE \E p \in Positions : ClosePosition(p)
  BY <1>4, CloseKeeps
<1>5. CASE \E zero_for_one \in BOOLEAN, upper \in Uppers, e \in Emissions :
             SwapStart(zero_for_one, upper, e)
  BY <1>5, StartKeeps
<1>6. CASE \E price \in Prices, fee \in Fees : SwapStep(price, fee)
  BY <1>6, StepKeeps
<1>7. CASE \E freezes \in BOOLEAN : SwapEnd(freezes)
  BY <1>7, EndKeeps
<1>8. CASE \E e \in Emissions : UpdateRewardInfos(e)
  BY <1>8, UpdateKeeps
<1>9. CASE \E requested \in [Tokens -> Fees], short \in BOOLEAN :
             CollectProtocolFee(requested, short)
  BY <1>9, CollectKeeps
<1>10. CASE \E new \in Statuses : UpdatePoolStatus(new)
  BY <1>10, StatusKeeps
<1>11. CASE UNCHANGED vars
  <2>1. /\ UNCHANGED <<books, claimed, personal, swap, history>>
        /\ status' = status /\ protocol_fees' = protocol_fees
        /\ reward_vault' = reward_vault /\ steps' = steps
    BY <1>11 DEF vars
  <2>2. status' \subseteq Operations /\ protocol_fees' \in [Tokens -> Nat]
          /\ reward_vault' \in Nat /\ steps' \in 0..MaxSteps
    BY <2>1 DEF ClmmInv, Shape
  <2> QED
    BY <2>1, <2>2, QuietKeeps
<1> QED
  BY <1>1, <1>2, <1>3, <1>4, <1>5, <1>6, <1>7, <1>8, <1>9, <1>10, <1>11 DEF Next

-----------------------------------------------------------------------------
(* The theorems.                                                           *)

\* Every state of the pool satisfies the inductive invariant: its tables are
\* those of the positions, a swap looks for its next tick from the right
\* place, and the growth of every range and the claims on every asset are
\* told apart from what has been counted twice or lost.
THEOREM ClmmInvariant == Spec => []ClmmInv
<1>1. Init => ClmmInv
  BY InitKeeps
<1>2. ClmmInv /\ [Next]_vars => ClmmInv'
  BY ClmmSteps
<1> QED
  BY <1>1, <1>2, PTL DEF Spec

\* Every variable has its type, and what grew outside a tick is no more than
\* what grew at all, so no checked subtraction of a growth fails.
THEOREM ClmmTypes == Spec => []TypeOK
<1>1. ClmmInv => TypeOK
  <2> SUFFICES ASSUME ClmmInv PROVE TypeOK
    OBVIOUS
  <2>1. Shape /\ Closed /\ LiquidityIsSum /\ Tables /\ Bounded
    BY DEF ClmmInv
  <2>2. EndsAreUsed
    BY <2>1, EndsUsed DEF PositionsTyped, Shape
  <2>3. count \in [Arrays -> Nat]
    <3>1. \A b \in Arrays : IsFiniteSet(InArray(b))
      BY Finite, FS_Subset DEF InArray
    <3>2. \A b \in Arrays : count[b] \in Nat
      BY <2>1, <3>1, FS_CardinalityType DEF Tables
    <3> QED
      BY <2>1, <3>2 DEF Shape
  <2>4. ticks \in [Ticks -> [gross : Nat, net : Int, outside : [Assets -> Nat]]]
    <3>1. ASSUME NEW t \in Ticks
          PROVE  ticks[t] \in [gross : Nat, net : Int, outside : [Assets -> Nat]]
      <4>1. ticks[t] \in TickStates /\ ticks[t].gross \in Nat
        BY <2>1, <2>2 DEF Shape, EndsAreUsed
      <4>2. \A a \in Assets : ticks[t].outside[a] \in Nat
        BY <2>1 DEF Bounded
      <4>3. ticks[t].outside \in [Assets -> Nat]
        BY <4>1, <4>2 DEF TickStates
      <4> QED
        BY <4>1, <4>3 DEF TickStates
    <3> QED
      BY <2>1, <3>1 DEF Shape
  <2>5. \A t \in Ticks, a \in Assets :
          ticks[t].outside[a] <=
            IF swap.on /\ a = (IF swap.zero_for_one THEN 0 ELSE 1) THEN swap.growth
            ELSE growth[a]
    <3> SUFFICES ASSUME NEW t \in Ticks, NEW a \in Assets
                 PROVE  ticks[t].outside[a] <=
                          IF swap.on /\ a = (IF swap.zero_for_one THEN 0 ELSE 1)
                          THEN swap.growth ELSE growth[a]
      OBVIOUS
    <3>1. ticks[t].outside[a] <= Growths[a]
      BY <2>1, NowTypes DEF Bounded, U128
    <3>2. Growths[a] = IF swap.on /\ a = Side THEN swap.growth ELSE growth[a]
      BY <2>1 DEF Growths, Shape
    <3> QED
      BY <3>1, <3>2 DEF Side
  <2>6. pool.liquidity \in Nat /\ pool.tick_current \in Int /\ pool.price \in Int
    BY <2>1 DEF Shape, Closed
  <2>7. protocol \in [Ranges -> [liquidity : Nat, inside : [Assets -> 0..(Modulus - 1)]]]
    BY <2>1 DEF Shape, Protocols, U128
  <2>8. personal \in [Positions -> [open : BOOLEAN, range : Ranges, liquidity : Nat,
                                    last : [Assets -> 0..(Modulus - 1)],
                                    owed : [Assets -> Nat]]]
    BY <2>1 DEF Shape, Personals, U128
  <2> QED
    BY <2>1, <2>3, <2>4, <2>5, <2>6, <2>7, <2>8 DEF TypeOK, Shape, U128
<1> QED
  BY <1>1, ClmmInvariant, PTL

\* The liquidity of ticks, ranges and pool is that of the positions.
THEOREM LiquidityAgrees == Spec => []LiquidityIsSum
<1>1. ClmmInv => LiquidityIsSum
  BY DEF ClmmInv
<1> QED
  BY <1>1, ClmmInvariant, PTL

\* A swap passes over no used tick, wherever ticks were put to use and given
\* up: the bits and the counts of the tick arrays lead it to the nearest.
THEOREM SearchFindsNearest == Spec => []NextTickIsNearest
<1>1. ClmmInv => NextTickIsNearest
  BY SearchIsRight DEF ClmmInv
<1> QED
  BY <1>1, ClmmInvariant, PTL

\* What the code takes as grown inside a range since the last update of a
\* position is exactly what has grown while the current tick was in it, for
\* any width of the growths.
THEOREM GrowthExact == Spec => []GrowthIsExact
<1>1. ClmmInv => GrowthIsExact
  <2> SUFFICES ASSUME ClmmInv, ~swap.on, NEW p \in Positions, personal[p].liquidity > 0,
                      NEW r, r = personal[p].range, NEW a \in Assets
               PROVE  (Inside(ticks, growth, r, pool.tick_current)[a] - personal[p].last[a])
                        % Modulus = history.earned[r][a] - history.personal[p][a]
    BY DEF GrowthIsExact
  <2>1. Shape /\ Taken
    BY DEF ClmmInv
  <2>2. Growths = growth /\ Tick = pool.tick_current
    BY DEF Growths, Tick
  <2>3. r \in Ranges /\ personal[p].last[a] \in Int /\ InsideOf(r, a) \in Int
    BY <2>1, NowTypes DEF Shape, Personals, U128
  <2>4. Inside(ticks, growth, r, pool.tick_current)[a] = InsideOf(r, a) % Modulus
    <3>1. Inside(ticks, growth, r, pool.tick_current)[a]
            = (BelowAt(ticks, growth, pool.tick_current, r[2], a)
               - BelowAt(ticks, growth, pool.tick_current, r[1], a)) % Modulus
      BY <2>1, <2>3, InsideIs DEF Shape
    <3> QED
      BY <2>2, <3>1 DEF InsideOf, Below
  <2>5. WrappingSub(InsideOf(r, a), personal[p].last[a])
          = history.earned[r][a] - history.personal[p][a]
    BY <2>1 DEF Taken
  <2> DEFINE i == Inside(ticks, growth, r, pool.tick_current)[a]
  <2>6. i \in Int
    BY <2>3, <2>4, ClmmAssumption
  <2> HIDE DEF i
  <2>7. WrappingSub(i, personal[p].last[a]) = WrappingSub(InsideOf(r, a), personal[p].last[a])
    BY <2>3, <2>4, <2>6, WrappingAgain DEF i
  <2> QED
    BY <2>5, <2>7 DEF WrappingSub, i
<1> QED
  BY <1>1, ClmmInvariant, PTL

\* What the positions could collect, each rounded down, is in the books: no
\* check in front of a payment refuses one.
THEOREM DuesAreCovered == Spec => []DuesCovered
<1>1. ClmmInv => DuesCovered
  <2> SUFFICES ASSUME ClmmInv, ~swap.on, NEW a \in Assets
               PROVE  total[a] - claimed[a] >= SumFunction([p \in Positions |-> Due(p, a)])
    BY DEF DuesCovered
  <2>1. Shape /\ Taken /\ Owing
    BY DEF ClmmInv
  <2>2. Growths = growth /\ Tick = pool.tick_current
    BY DEF Growths, Tick
  <2>3. ASSUME NEW p \in Positions
        PROVE  Due(p, a) \in Int /\ Q * Due(p, a) \in Int /\ Claim(p, a) \in Int
                 /\ Q * Due(p, a) <= Claim(p, a)
    <3> DEFINE r == personal[p].range
               inside == Inside(ticks, growth, r, pool.tick_current)
               x == history.earned[r][a] - history.personal[p][a]
               o == personal[p].owed[a]
               L == personal[p].liquidity
               c == IF L = 0 THEN 0 ELSE Accrued(personal[p], inside, a)
    <3>1. /\ personal[p] \in Personals /\ r \in Ranges /\ o \in Nat /\ L \in Nat
          /\ x \in Int /\ Q \in Nat \ {0} /\ personal[p].last[a] \in Int
      BY <2>1, ClmmAssumption DEF Shape, Personals, Histories, U128
    <3>2. inside \in [Assets -> U128] /\
            \A b \in Assets : InsideOf(r, b) \in Int /\ inside[b] = InsideOf(r, b) % Modulus
      <4> HIDE DEF r
      <4>1. ASSUME NEW b \in Assets
            PROVE  InsideOf(r, b) \in Int /\ inside[b] = InsideOf(r, b) % Modulus
        <5>1. inside[b] = (BelowAt(ticks, growth, pool.tick_current, r[2], b)
                           - BelowAt(ticks, growth, pool.tick_current, r[1], b)) % Modulus
          BY <2>1, <3>1, InsideIs DEF Shape
        <5> QED
          BY <2>1, <2>2, <3>1, <5>1, NowTypes DEF InsideOf, Below
      <4>2. \A b \in Assets : inside[b] \in U128
        BY <4>1, ClmmAssumption DEF U128
      <4> QED
        BY <4>1, <4>2 DEF Inside
    <3>3. L > 0 => WrappingSub(inside[a], personal[p].last[a]) = x
      <4>1. L > 0 => WrappingSub(InsideOf(r, a), personal[p].last[a]) = x
        BY <2>1 DEF Taken
      <4> DEFINE i == inside[a]
                 w == InsideOf(r, a)
      <4>2. i \in Int /\ w \in Int /\ i = w % Modulus
        BY <3>2, ClmmAssumption
      <4> HIDE DEF i, w
      <4>3. WrappingSub(i, personal[p].last[a]) = WrappingSub(w, personal[p].last[a])
        BY <3>1, <4>2, WrappingAgain
      <4> QED
        BY <4>1, <4>3 DEF i, w
    <3>4. Due(p, a) = o + c /\ Claim(p, a) = Q * o + x * L
      BY DEF Due, Claim
    <3> HIDE DEF x, inside
    <3>5. c \in Nat /\ Q * c <= x * L
      <4>1. CASE L = 0
        <5>1. c = 0 /\ x * 0 = 0 /\ Q * 0 = 0
          BY <3>1, <4>1
        <5> HIDE DEF c, L
        <5> QED
          BY <4>1, <5>1
      <4>2. CASE L # 0
        BY <3>1, <3>2, <3>3, <4>2, AccruedFloor
      <4> QED
        BY <4>1, <4>2
    <3> HIDE DEF o, c, L
    <3>6. Q * (o + c) = Q * o + Q * c /\ Q * o \in Int /\ Q * c \in Int /\ x * L \in Int
      BY <3>1, <3>5, Distribute
    <3>7. Q * (o + c) <= Q * o + x * L
      BY <3>5, <3>6
    <3> QED
      BY <3>1, <3>4, <3>5, <3>6, <3>7
  <2> DEFINE f == [p \in Positions |-> Due(p, a)]
             g == [p \in Positions |-> Claim(p, a)]
             h == [p \in Positions |-> Q * Due(p, a)]
             S == SumFunctionOnSet(f, Positions)
             B == Books(a)
  <2>4. /\ \A p \in Positions : f[p] \in Int /\ g[p] \in Int /\ h[p] \in Int /\ h[p] = Q * f[p]
        /\ \A p \in Positions : h[p] <= g[p]
    BY <2>3
  <2>5. IsFiniteSet(Positions) /\ Q \in Nat \ {0} /\ Q \in Int
    BY ClmmAssumption
  <2>6. Claims(a) = SumFunctionOnSet(g, Positions)
          /\ SumFunction([p \in Positions |-> Due(p, a)]) = S
    BY ClaimsAre DEF SumFunction
  <2>7. B = total[a] - claimed[a] /\ B \in Int
    <3>1. total[a] \in Nat /\ claimed[a] \in Nat
      BY <2>1 DEF Shape
    <3> QED
      BY <3>1 DEF Books
  <2> HIDE DEF f, g, h
  <2>8. SumFunctionOnSet(h, Positions) = Q * S
    BY <2>4, <2>5, SumTimes
  <2>9. SumFunctionOnSet(h, Positions) <= SumFunctionOnSet(g, Positions)
    BY <2>4, <2>5, SumMonotone
  <2>10. S \in Int /\ SumFunctionOnSet(g, Positions) \in Int
    BY <2>4, <2>5, SumType
  <2>11. Claims(a) <= Q * B
    BY <2>1 DEF Owing
  <2> HIDE DEF S, B
  <2>12. Q * S <= Q * B
    <3>1. Q * S \in Int /\ Q * B \in Int
      BY <2>5, <2>7, <2>10
    <3> QED
      BY <2>6, <2>8, <2>9, <2>10, <2>11, <3>1
  <2>13. S <= B
    BY <2>5, <2>7, <2>10, <2>12
  <2> QED
    BY <2>6, <2>7, <2>10, <2>13
<1> QED
  BY <1>1, ClmmInvariant, PTL

-----------------------------------------------------------------------------
(* The quotes.                                                             *)

QuoteStates == [tick : Int, liquidity : Int, first : Int, array : Int,
                queue : SUBSET Int, visited : SUBSET Int, turns : Nat, over : BOOLEAN]

\* The array of the current tick, those ahead of it and the nearest of them.
Here      == ArrayOf(pool.tick_current)
Onward(z) == ArraysAhead(z, Here)
Second(z) == Nearest(Onward(z), z)

\* The used ticks ahead of the current one, and those a quote has before it
\* gives up.
Coming(z) == Ahead(z, pool.tick_current)
Within(z) == {t \in Coming(z) : ArrayOf(t) \in {Here} \cup {b \in Onward(z) :
                                                Onward(z) \ {b} = ArraysAhead(z, b)}}

\* A tick the swap may be at when it is in an array: one of its ticks or,
\* downwards, the one below.
At(z, tick, array) ==
  \E u \in Int : ArrayOf(u) = array /\ (tick = u \/ (z /\ tick = u - 1))

Before(z, a, b) == IF z THEN a > b ELSE a < b

\* What the swap of a quote has behind it: the ticks that are no longer ahead,
\* each crossed in a turn of its own; and the arrays it is in and has left.
Crossing(z, s) ==
  /\ IF z THEN s.tick <= pool.tick_current ELSE s.tick >= pool.tick_current
  /\ s.liquidity = Sum(personal, Around(s.tick))
  /\ s.visited = Coming(z) \ Ahead(z, s.tick)
Stands(z, s) ==
  \/ s.array = Here /\ s.queue = NextArrays(z, Here) /\ At(z, s.tick, Here)
  \/ Onward(z) # {} /\ s.array = Second(z) /\ s.queue \subseteq Onward(z) \ {Second(z)}
       /\ At(z, s.tick, Second(z))

QuoteInv(z, s) ==
  /\ s \in QuoteStates
  /\ s.first = Here
  /\ IsFiniteSet(s.visited) /\ s.turns = Cardinality(s.visited) /\ s.turns <= MaxTurns
  /\ IF s.over THEN s.turns = MaxTurns \/ s.visited = Within(z)
               ELSE Crossing(z, s) /\ Stands(z, s)

\* What a tick of an array has ahead of it.
LEMMA AtArray ==
  ASSUME NEW z \in BOOLEAN, NEW tick \in Int, NEW array, At(z, tick, array), NEW x \in Int
  PROVE  /\ array \in Int /\ ArrayOf(x) \in Int
         /\ Before(z, array, ArrayOf(x)) => IF z THEN x <= tick ELSE x > tick
         /\ (IF z THEN x <= tick ELSE x > tick) =>
              /\ ArrayOf(x) = array \/ Before(z, array, ArrayOf(x))
              /\ ArrayOf(x) = array => ArrayOf(tick) = array
<1>1. PICK u \in Int : ArrayOf(u) = array /\ (tick = u \/ (z /\ tick = u - 1))
  BY DEF At
<1>2. /\ ArrayOf(x) \in Int /\ ArrayOf(u) \in Int /\ ArrayOf(tick) \in Int
      /\ (x <= u => ArrayOf(x) <= ArrayOf(u)) /\ (u <= x => ArrayOf(u) <= ArrayOf(x))
      /\ (x <= tick => ArrayOf(x) <= ArrayOf(tick))
      /\ (tick <= u => ArrayOf(tick) <= ArrayOf(u))
  BY ArraysApart
<1> DEFINE X == ArrayOf(x)
           U == ArrayOf(u)
           W == ArrayOf(tick)
<1>3. /\ X \in Int /\ U \in Int /\ W \in Int /\ U = array
      /\ (x <= u => X <= U) /\ (u <= x => U <= X) /\ (x <= tick => X <= W)
      /\ (tick <= u => W <= U) /\ (tick = u => W = U)
  BY <1>1, <1>2
<1> HIDE DEF X, U, W
<1>4. CASE z
  BY <1>1, <1>3, <1>4 DEF Before, X, W
<1>5. CASE ~z
  BY <1>1, <1>3, <1>5 DEF Before, X, W
<1> QED
  BY <1>4, <1>5

\* Arrays whose bit is set, and their ticks.
LEMMA Used ==
  ASSUME Shape, Tables
  PROVE  /\ bitmap \subseteq Int /\ IsFiniteSet(bitmap)
         /\ \A b \in bitmap : InArray(b) # {}
         /\ \A b : /\ InArray(b) \subseteq Int /\ IsFiniteSet(InArray(b))
                   /\ \A t \in InArray(b) : t \in Ticks /\ Initialized(t) /\ ArrayOf(t) = b
         /\ \A t \in Ticks : Initialized(t) =>
              t \in Int /\ t \in InArray(ArrayOf(t)) /\ ArrayOf(t) \in bitmap
<1>1. bitmap \subseteq Arrays
  BY DEF Shape
<1>2. bitmap \subseteq Int /\ IsFiniteSet(bitmap)
  BY <1>1, Finite, FS_Subset
<1>3. \A b \in bitmap : InArray(b) # {}
  BY <1>1, BitIsUsed
<1>4. ASSUME NEW b
      PROVE  /\ InArray(b) \subseteq Int /\ IsFiniteSet(InArray(b))
             /\ \A t \in InArray(b) : t \in Ticks /\ Initialized(t) /\ ArrayOf(t) = b
  <2>1. InArray(b) \subseteq Ticks
    BY DEF InArray
  <2>2. IsFiniteSet(InArray(b))
    BY <2>1, Finite, FS_Subset
  <2> QED
    BY <2>1, <2>2, Finite DEF InArray
<1>5. \A t \in Ticks : Initialized(t) =>
        t \in Int /\ t \in InArray(ArrayOf(t)) /\ ArrayOf(t) \in bitmap
  BY Finite, BitIsUsed
<1> QED
  BY <1>2, <1>3, <1>4, <1>5

\* The nearest of the arrays ahead: the one from which all others are ahead,
\* and the first of those a quote has loaded.
LEMMA SecondIs ==
  ASSUME Shape, Tables, NEW z \in BOOLEAN
  PROVE  /\ Onward(z) \subseteq Int /\ IsFiniteSet(Onward(z)) /\ Here \notin Onward(z)
         /\ {b \in Onward(z) : Onward(z) \ {b} = ArraysAhead(z, b)}
              = IF Onward(z) = {} THEN {} ELSE {Second(z)}
         /\ Onward(z) # {} =>
              /\ Second(z) \in Onward(z)
              /\ \A c \in Onward(z) : c = Second(z) \/ Before(z, Second(z), c)
<1> DEFINE D == Onward(z)
           h == Here
           c == Second(z)
<1>1. bitmap \subseteq Int /\ IsFiniteSet(bitmap)
  BY Used
<1>2. D \subseteq bitmap /\ D = {b \in bitmap : Before(z, h, b)}
  BY DEF Onward, ArraysAhead, Before
<1>3. D \subseteq Int /\ IsFiniteSet(D)
  BY <1>1, <1>2, FS_Subset
<1>4. h \in Int
  <2>1. pool.tick_current \in Int
    BY DEF Shape
  <2> QED
    BY <2>1, ArraysApart DEF Here
<1>5. h \notin D
  BY <1>2, <1>4 DEF Before
<1>6. D # {} => c \in D /\ \A b \in D : IF z THEN b <= c ELSE b >= c
  BY <1>3, NearestIn DEF Second
<1>7. \A b : ArraysAhead(z, b) = {d \in bitmap : Before(z, b, d)}
  BY DEF ArraysAhead, Before
<1> HIDE DEF D, h, c
<1>8. ASSUME D # {} PROVE \A b \in D : b = c \/ Before(z, c, b)
  <2>1. c \in Int
    BY <1>3, <1>6, <1>8
  <2>2. ASSUME NEW b \in D PROVE b = c \/ Before(z, c, b)
    <3>1. b \in Int /\ IF z THEN b <= c ELSE b >= c
      BY <1>3, <1>6, <1>8
    <3> QED
      BY <2>1, <3>1 DEF Before
  <2> QED
    BY <2>2
<1>9. ASSUME D # {} PROVE D \ {c} = ArraysAhead(z, c)
  <2>1. c \in Int /\ c \in bitmap /\ Before(z, h, c)
    BY <1>1, <1>2, <1>6, <1>9
  <2>2. \A d \in bitmap : Before(z, c, d) => Before(z, h, d) /\ d # c
    BY <1>1, <1>4, <2>1 DEF Before
  <2> QED
    BY <1>2, <1>7, <1>8, <1>9, <2>2
<1>10. ASSUME NEW b \in D, D \ {b} = ArraysAhead(z, b) PROVE b = c
  <2>1. c \in D /\ c \in Int /\ b \in Int
    BY <1>3, <1>6, <1>10
  <2>2. c # b => Before(z, b, c)
    BY <1>7, <1>10, <2>1
  <2>3. b = c \/ Before(z, c, b)
    BY <1>8, <1>10
  <2> QED
    BY <2>1, <2>2, <2>3 DEF Before
<1>11. {b \in D : D \ {b} = ArraysAhead(z, b)} = IF D = {} THEN {} ELSE {c}
  BY <1>6, <1>9, <1>10
<1> QED
  BY <1>3, <1>5, <1>6, <1>8, <1>11 DEF D, h, c

\* The arrays a quote loads are ahead, the nearest of them among them.
LEMMA LoadedIs ==
  ASSUME Shape, Tables, NEW z \in BOOLEAN
  PROVE  LET loaded == NextArrays(z, Here)
         IN  /\ loaded \subseteq Onward(z)
             /\ loaded = {} <=> Onward(z) = {}
             /\ loaded # {} => Nearest(loaded, z) = Second(z)
<1> DEFINE D == Onward(z)
           c == Second(z)
           L == NextArrays(z, Here)
           N(b) == {d \in D : IF z THEN d > b ELSE d < b}
<1>1. L = {b \in D : Cardinality(N(b)) < MoreArrays}
  BY DEF NextArrays, Onward
<1>2. D \subseteq Int /\ IsFiniteSet(D)
        /\ (D # {} => c \in D /\ \A b \in D : b = c \/ Before(z, c, b))
  BY SecondIs
<1>3. MoreArrays \in Nat /\ 0 < MoreArrays
  BY QuoteAssumption
<1> HIDE DEF D, c, L
<1>4. ASSUME D # {} PROVE c \in L
  <2>1. N(c) = {}
    <3>1. c \in Int
      BY <1>2, <1>4
    <3>2. ASSUME NEW d \in D PROVE ~(IF z THEN d > c ELSE d < c)
      <4>1. d \in Int /\ (d = c \/ Before(z, c, d))
        BY <1>2, <1>4
      <4> QED
        BY <3>1, <4>1 DEF Before
    <3> QED
      BY <3>2
  <2>2. Cardinality(N(c)) = 0
    BY <2>1, FS_EmptySet
  <2> QED
    BY <1>1, <1>2, <1>3, <1>4, <2>2
<1>5. L \subseteq D
  BY <1>1
<1>6. ASSUME L # {} PROVE Nearest(L, z) = c
  <2> DEFINE n == Nearest(L, z)
  <2>1. L \subseteq Int /\ IsFiniteSet(L)
    BY <1>2, <1>5, FS_Subset
  <2>2. n \in L /\ \A b \in L : IF z THEN b <= n ELSE b >= n
    BY <1>6, <2>1, NearestIn
  <2> HIDE DEF n
  <2>3. c \in L /\ n \in D /\ n \in Int /\ c \in Int
    BY <1>2, <1>4, <1>5, <2>1, <2>2
  <2>4. n = c \/ Before(z, c, n)
    BY <1>2, <2>3
  <2>5. IF z THEN c <= n ELSE c >= n
    BY <2>2, <2>3
  <2>6. n = c
    BY <2>3, <2>4, <2>5 DEF Before
  <2> QED
    BY <2>6 DEF n
<1> QED
  BY <1>4, <1>5, <1>6 DEF D, c, L

\* A used tick ahead of the current one is in its array or in one ahead of it.
LEMMA ComingIs ==
  ASSUME Shape, Tables, NEW z \in BOOLEAN, NEW t \in Ticks, Initialized(t),
         IF z THEN t <= pool.tick_current ELSE t > pool.tick_current
  PROVE  /\ ArrayOf(t) = Here \/ ArrayOf(t) \in Onward(z)
         /\ ArrayOf(t) # Here => /\ Onward(z) # {}
                                 /\ ArrayOf(t) = Second(z) \/ Before(z, Second(z), ArrayOf(t))
<1>1. pool.tick_current \in Int /\ t \in Int /\ ArrayOf(t) \in bitmap
  BY Used DEF Shape
<1>2. At(z, pool.tick_current, Here)
  <2>1. ArrayOf(pool.tick_current) = Here
    BY DEF Here
  <2> QED
    BY <1>1, <2>1 DEF At
<1>3. ArrayOf(t) = Here \/ Before(z, Here, ArrayOf(t))
  BY <1>1, <1>2, AtArray
<1>4. ArrayOf(t) = Here \/ ArrayOf(t) \in Onward(z)
  BY <1>1, <1>3 DEF Onward, ArraysAhead, Before
<1> QED
  BY <1>4, SecondIs

\* The tick a turn of the loop finds in the array the swap is in is the next
\* used one.
LEMMA NextHere ==
  ASSUME Shape, Tables, NEW z \in BOOLEAN, NEW tick \in Int, NEW array,
         TicksOfArrayAhead(array, tick, z) # {}
  PROVE  /\ IsNext(z, tick, Nearest(TicksOfArrayAhead(array, tick, z), z))
         /\ ArrayOf(Nearest(TicksOfArrayAhead(array, tick, z), z)) = array
<1> DEFINE S == TicksOfArrayAhead(array, tick, z)
           n == Nearest(S, z)
<1>1. S = {t \in Ticks : ArrayOf(t) = array /\ Initialized(t)
                         /\ (IF z THEN t <= tick ELSE t > tick) /\ ArrayOf(tick) = array}
  BY DEF TicksOfArrayAhead, InArray, Ahead
<1>2. S \subseteq Int /\ IsFiniteSet(S)
  BY <1>1, Finite, FS_Subset
<1>3. n \in S /\ \A y \in S : IF z THEN y <= n ELSE y >= n
  BY <1>2, NearestIn
<1> HIDE DEF S, n
<1>4. /\ n \in Ticks /\ n \in Int /\ Initialized(n) /\ ArrayOf(n) = array
      /\ ArrayOf(tick) = array /\ (IF z THEN n <= tick ELSE n > tick)
  BY <1>1, <1>2, <1>3
<1>5. ASSUME NEW u \in Ticks, Initialized(u), IF z THEN u <= tick ELSE u > tick
      PROVE  IF z THEN u <= n ELSE u >= n
  <2>1. u \in Int
    BY Finite
  <2>2. CASE ArrayOf(u) = array
    BY <1>1, <1>3, <1>4, <1>5, <2>2
  <2>3. CASE ArrayOf(u) # array
    <3>1. /\ ArrayOf(u) \in Int /\ ArrayOf(n) \in Int
          /\ (u <= tick => ArrayOf(u) <= array) /\ (tick <= u => array <= ArrayOf(u))
          /\ (ArrayOf(u) < array => u < n) /\ (array < ArrayOf(u) => n < u)
      BY <1>4, <2>1, ArraysApart
    <3> QED
      BY <1>4, <1>5, <2>1, <2>3, <3>1
  <2> QED
    BY <2>2, <2>3
<1>6. IsNext(z, tick, n)
  BY <1>4, <1>5, Finite DEF IsNext
<1> QED
  BY <1>4, <1>6 DEF S, n

\* Once the array of the current tick has none ahead, it is the first tick of
\* the nearest array ahead.
LEMMA NextSecond ==
  ASSUME Shape, Tables, NEW z \in BOOLEAN, NEW tick \in Int, At(z, tick, Here),
         IF z THEN tick <= pool.tick_current ELSE tick >= pool.tick_current,
         TicksOfArrayAhead(Here, tick, z) = {}, Onward(z) # {}
  PROVE  /\ InArray(Second(z)) # {}
         /\ IsNext(z, tick, Nearest(InArray(Second(z)), z))
         /\ ArrayOf(Nearest(InArray(Second(z)), z)) = Second(z)
<1> DEFINE c == Second(z)
           S == InArray(c)
           n == Nearest(S, z)
<1>1. c \in Onward(z) /\ c \in bitmap /\ Before(z, Here, c) /\ c \in Int
  BY SecondIs DEF Onward, ArraysAhead, Before
<1>2. S # {} /\ S \subseteq Int /\ IsFiniteSet(S)
        /\ \A t \in S : t \in Ticks /\ Initialized(t) /\ ArrayOf(t) = c
  BY <1>1, Used
<1>3. n \in S /\ \A y \in S : IF z THEN y <= n ELSE y >= n
  BY <1>2, NearestIn
<1> HIDE DEF n
<1>4. n \in Ticks /\ n \in Int /\ Initialized(n) /\ ArrayOf(n) = c
  BY <1>2, <1>3
<1> HIDE DEF c
<1>5. IF z THEN n <= tick ELSE n > tick
  BY <1>1, <1>4, AtArray
<1>6. ASSUME NEW u \in Ticks, Initialized(u), IF z THEN u <= tick ELSE u > tick
      PROVE  IF z THEN u <= n ELSE u >= n
  <2>1. u \in Int /\ u \in InArray(ArrayOf(u)) /\ ArrayOf(u) \in bitmap
    BY <1>6, Used
  <2>2. pool.tick_current \in Int
    BY DEF Shape
  <2>3. IF z THEN u <= pool.tick_current ELSE u > pool.tick_current
    BY <1>6, <2>1, <2>2
  <2>4. ArrayOf(u) # Here
    <3>1. ArrayOf(u) = Here => ArrayOf(tick) = Here
      BY <1>6, <2>1, AtArray
    <3> QED
      BY <1>6, <2>1, <3>1 DEF TicksOfArrayAhead, Ahead
  <2>5. ArrayOf(u) = c \/ Before(z, c, ArrayOf(u))
    BY <1>6, <2>3, <2>4, ComingIs DEF c
  <2>6. CASE ArrayOf(u) = c
    BY <1>3, <2>1, <2>6
  <2>7. CASE Before(z, c, ArrayOf(u))
    <3>1. ArrayOf(u) \in Int /\ ArrayOf(n) \in Int
            /\ (ArrayOf(u) < ArrayOf(n) => u < n) /\ (ArrayOf(n) < ArrayOf(u) => n < u)
      BY <1>4, <2>1, ArraysApart
    <3> QED
      BY <1>4, <2>1, <2>7, <3>1 DEF Before
  <2> QED
    BY <2>5, <2>6, <2>7
<1>7. IsNext(z, tick, n)
  BY <1>4, <1>5, <1>6 DEF IsNext
<1> QED
  BY <1>2, <1>4, <1>7 DEF n, c

\* A turn that goes to the next used tick leaves what the swap has behind it
\* as it should be.
LEMMA VisitCrosses ==
  ASSUME Shape, EndsAreUsed, LiquidityParts, NEW z \in BOOLEAN, NEW s \in QuoteStates,
         s.first = Here, ~s.over, Crossing(z, s),
         IsFiniteSet(s.visited), s.turns = Cardinality(s.visited),
         NEW t, IsNext(z, s.tick, t), NEW array \in Int, ArrayOf(t) = array
  PROVE  LET v == Visit(s, t, array, z)
         IN  /\ v \in QuoteStates /\ v.first = Here /\ ~v.over
             /\ v.array = array /\ v.queue = s.queue \ {array}
             /\ IsFiniteSet(v.visited) /\ v.turns = Cardinality(v.visited)
             /\ v.turns = s.turns + 1
             /\ Crossing(z, v) /\ At(z, v.tick, array)
<1> DEFINE v == Visit(s, t, array, z)
           C == Coming(z)
<1>1. /\ s.tick \in Int /\ s.liquidity \in Int /\ s.first \in Int /\ s.array \in Int
      /\ s.queue \subseteq Int /\ s.visited \subseteq Int /\ s.turns \in Nat /\ s.over = FALSE
  BY DEF QuoteStates
<1>2. t \in Ticks /\ t \in Int /\ Initialized(t) /\ (IF z THEN t <= s.tick ELSE t > s.tick)
  BY DEF IsNext
<1>3. ticks[t].net \in Int
  BY <1>2 DEF Shape, TickStates
<1>4. /\ v.tick = IF z THEN t - 1 ELSE t
      /\ v.liquidity = s.liquidity + (IF z THEN -ticks[t].net ELSE ticks[t].net)
      /\ v.first = s.first /\ v.array = array /\ v.queue = s.queue \ {array}
      /\ v.visited = s.visited \cup {t} /\ v.turns = s.turns + 1 /\ v.over = FALSE
  BY <1>1 DEF Visit, QuoteStates
<1>5. v.tick \in Int
  BY <1>2, <1>4
<1>6. v.liquidity \in Int
  <2>1. (IF z THEN -ticks[t].net ELSE ticks[t].net) \in Int
    BY <1>3
  <2> QED
    BY <1>1, <1>4, <2>1
<1>7. v \in QuoteStates
  <2>1. /\ (IF z THEN t - 1 ELSE t) \in Int
        /\ (s.liquidity + (IF z THEN -ticks[t].net ELSE ticks[t].net)) \in Int
        /\ (s.queue \ {array}) \in SUBSET Int /\ (s.visited \cup {t}) \in SUBSET Int
        /\ s.turns + 1 \in Nat
    BY <1>1, <1>2, <1>4, <1>6
  <2> QED
    BY <2>1 DEF Visit, QuoteStates
<1> HIDE DEF v
<1>8. pool.tick_current \in Int
  BY DEF Shape
<1>9. IF z THEN v.tick <= pool.tick_current ELSE v.tick >= pool.tick_current
  BY <1>1, <1>2, <1>4, <1>5, <1>8 DEF Crossing
<1>10. v.liquidity = Sum(personal, Around(v.tick))
  <2>1. ticks[t].net = Sum(personal, {r \in Ranges : r[1] = t})
                         - Sum(personal, {r \in Ranges : r[2] = t})
    BY <1>2 DEF LiquidityParts
  <2>2. personal \in [Positions -> Personals]
    BY DEF Shape
  <2>3. Sum(personal, Around(v.tick)) = Sum(personal, Around(s.tick))
          + (IF z THEN -ticks[t].net ELSE ticks[t].net)
    BY <1>1, <1>4, <1>5, <2>1, <2>2, CrossingMoves
  <2> QED
    BY <1>4, <2>3 DEF Crossing
<1>11. v.visited = C \ Ahead(z, v.tick)
  <2>1. C = {u \in Ticks : Initialized(u) /\ IF z THEN u <= pool.tick_current
                                                  ELSE u > pool.tick_current}
    BY DEF Coming, Ahead
  <2>2. \A tick : Ahead(z, tick) = {u \in Ticks : Initialized(u) /\ IF z THEN u <= tick ELSE u > tick}
    BY DEF Ahead
  <2> HIDE DEF C
  <2>3. t \in C
    BY <1>1, <1>2, <1>8, <2>1 DEF Crossing
  <2>4. ASSUME NEW u \in C
        PROVE  u \notin Ahead(z, v.tick) <=> u = t \/ u \notin Ahead(z, s.tick)
    <3>1. u \in Ticks /\ u \in Int /\ Initialized(u)
      BY <2>1, Finite
    <3>2. IF z THEN u <= s.tick => u <= t ELSE u > s.tick => u >= t
      BY <3>1 DEF IsNext
    <3>3. u \in Ahead(z, v.tick) <=> IF z THEN u <= v.tick ELSE u > v.tick
      BY <2>2, <3>1
    <3>4. u \in Ahead(z, s.tick) <=> IF z THEN u <= s.tick ELSE u > s.tick
      BY <2>2, <3>1
    <3> QED
      BY <1>1, <1>2, <1>4, <3>1, <3>2, <3>3, <3>4
  <2>5. s.visited = C \ Ahead(z, s.tick)
    BY DEF Crossing, C
  <2> QED
    BY <1>4, <2>3, <2>4, <2>5
<1>12. At(z, v.tick, array)
  BY <1>2, <1>4 DEF At
<1>13. IsFiniteSet(v.visited) /\ v.turns = Cardinality(v.visited)
  <2>1. t \notin s.visited
    BY <1>2 DEF Crossing, Ahead
  <2>2. /\ IsFiniteSet(s.visited \cup {t})
        /\ Cardinality(s.visited \cup {t}) = Cardinality(s.visited) + 1
    BY <2>1, FS_AddElement
  <2> QED
    BY <1>4, <2>2
<1> QED
  BY <1>4, <1>7, <1>9, <1>10, <1>11, <1>12, <1>13 DEF v, Crossing

\* A quote that gives up has been through the ticks of two arrays: of that of
\* the current tick when there is none ahead of it,
LEMMA FirstUsedUp ==
  ASSUME Shape, Tables, NEW z \in BOOLEAN, NEW tick \in Int, At(z, tick, Here),
         TicksOfArrayAhead(Here, tick, z) = {}, Onward(z) = {}
  PROVE  Coming(z) \ Ahead(z, tick) = Within(z)
<1>1. Within(z) = {t \in Coming(z) : ArrayOf(t) = Here}
  <2>1. {b \in Onward(z) : Onward(z) \ {b} = ArraysAhead(z, b)} = {}
    BY SecondIs
  <2> QED
    BY <2>1 DEF Within
<1>2. ASSUME NEW t \in Coming(z)
      PROVE  t \notin Ahead(z, tick) /\ ArrayOf(t) = Here
  <2>1. t \in Ticks /\ Initialized(t)
          /\ IF z THEN t <= pool.tick_current ELSE t > pool.tick_current
    BY DEF Coming, Ahead
  <2>2. ArrayOf(t) = Here
    BY <2>1, ComingIs
  <2>3. ASSUME t \in Ahead(z, tick) PROVE FALSE
    <3>1. t \in Int /\ (IF z THEN t <= tick ELSE t > tick)
      BY <2>1, <2>3, Finite DEF Ahead
    <3>2. ArrayOf(tick) = Here
      BY <2>2, <3>1, AtArray
    <3>3. t \in InArray(Here)
      BY <2>1, <2>2 DEF InArray
    <3> QED
      BY <2>3, <3>2, <3>3 DEF TicksOfArrayAhead
  <2> QED
    BY <2>2, <2>3
<1> QED
  BY <1>1, <1>2

\* and else of that array and the next.
LEMMA SecondUsedUp ==
  ASSUME Shape, Tables, NEW z \in BOOLEAN, NEW tick \in Int, At(z, tick, Second(z)),
         TicksOfArrayAhead(Second(z), tick, z) = {}, Onward(z) # {}
  PROVE  Coming(z) \ Ahead(z, tick) = Within(z)
<1> DEFINE c == Second(z)
<1>1. Within(z) = {t \in Coming(z) : ArrayOf(t) \in {Here, c}}
  <2>1. {b \in Onward(z) : Onward(z) \ {b} = ArraysAhead(z, b)} = {c}
    BY SecondIs
  <2> QED
    BY <2>1 DEF Within
<1>2. c \in Int /\ Here \in Int /\ Before(z, Here, c)
  <2>1. c \in Onward(z) /\ c \in Int
    BY SecondIs
  <2>2. Here \in Int
    <3>1. pool.tick_current \in Int
      BY DEF Shape
    <3> QED
      BY <3>1, ArraysApart DEF Here
  <2> QED
    BY <2>1, <2>2 DEF Onward, ArraysAhead, Before
<1> HIDE DEF c
<1>3. ASSUME NEW t \in Coming(z)
      PROVE  t \notin Ahead(z, tick) <=> ArrayOf(t) \in {Here, c}
  <2>1. t \in Ticks /\ t \in Int /\ Initialized(t)
          /\ IF z THEN t <= pool.tick_current ELSE t > pool.tick_current
    BY Finite DEF Coming, Ahead
  <2>2. t \in Ahead(z, tick) <=> IF z THEN t <= tick ELSE t > tick
    BY <2>1 DEF Ahead
  <2>3. /\ ArrayOf(t) \in Int
        /\ Before(z, c, ArrayOf(t)) => IF z THEN t <= tick ELSE t > tick
        /\ (IF z THEN t <= tick ELSE t > tick) =>
             /\ ArrayOf(t) = c \/ Before(z, c, ArrayOf(t))
             /\ ArrayOf(t) = c => ArrayOf(tick) = c
    BY <2>1, AtArray DEF c
  <2>4. CASE t \in Ahead(z, tick)
    <3>1. ArrayOf(t) # c
      <4>1. SUFFICES ASSUME ArrayOf(t) = c PROVE FALSE
        OBVIOUS
      <4>2. t \in InArray(c) /\ ArrayOf(tick) = c
        BY <2>1, <2>2, <2>3, <2>4, <4>1 DEF InArray
      <4> QED
        BY <2>4, <4>2 DEF TicksOfArrayAhead, c
    <3>2. Before(z, c, ArrayOf(t))
      BY <2>2, <2>3, <2>4, <3>1
    <3>3. ArrayOf(t) # Here
      BY <1>2, <3>2 DEF Before
    <3> QED
      BY <2>4, <3>1, <3>3
  <2>5. CASE t \notin Ahead(z, tick)
    <3>1. ArrayOf(t) = Here \/ ArrayOf(t) = c \/ Before(z, c, ArrayOf(t))
      BY <2>1, ComingIs DEF c
    <3> QED
      BY <2>2, <2>3, <2>5, <3>1
  <2> QED
    BY <2>4, <2>5
<1> QED
  BY <1>1, <1>3

\* One turn of the loop keeps what has been said of it, and ends it or counts.
LEMMA TurnKeeps ==
  ASSUME Shape, Tables, EndsAreUsed, LiquidityParts, NEW z \in BOOLEAN,
         NEW s, QuoteInv(z, s)
  PROVE  /\ QuoteInv(z, QuoteTurn(s, z))
         /\ QuoteTurn(s, z).over \/ QuoteTurn(s, z).turns = s.turns + 1
<1> DEFINE here == TicksOfArrayAhead(s.array, s.tick, z)
           next == Nearest(s.queue, z)
           lost == \/ s.queue = {} \/ Expected(s, z) = {}
                   \/ next # Nearest(Expected(s, z), z)
                   \/ InArray(next) = {}
           stop == [s EXCEPT !.over = TRUE]
           c == Second(z)
<1>1. /\ s \in QuoteStates /\ s.first = Here /\ s.tick \in Int /\ s.array \in Int
      /\ s.queue \subseteq Int /\ s.over \in BOOLEAN /\ s.turns \in Nat
      /\ Expected(s, z) = Onward(z)
  BY DEF QuoteInv, QuoteStates, Expected, Onward
<1>2. QuoteTurn(s, z) = IF s.over \/ s.turns = MaxTurns \/ (here = {} /\ lost) THEN stop
                        ELSE IF here # {} THEN Visit(s, Nearest(here, z), s.array, z)
                        ELSE Visit(s, Nearest(InArray(next), z), next, z)
  BY DEF QuoteTurn
<1>3. /\ IsFiniteSet(s.visited) /\ s.turns = Cardinality(s.visited) /\ s.turns <= MaxTurns
      /\ IF s.over THEN s.turns = MaxTurns \/ s.visited = Within(z)
                   ELSE Crossing(z, s) /\ Stands(z, s)
  BY DEF QuoteInv
<1>4. ASSUME s.turns = MaxTurns \/ s.visited = Within(z) PROVE QuoteInv(z, stop) /\ stop.over
  <2>1. /\ stop \in QuoteStates /\ stop.first = s.first /\ stop.visited = s.visited
        /\ stop.turns = s.turns /\ stop.over
    BY <1>1 DEF QuoteStates
  <2> HIDE DEF stop
  <2> QED
    BY <1>1, <1>3, <1>4, <2>1 DEF QuoteInv
<1>5. (c \in Int \/ Onward(z) = {}) /\ MaxTurns \in Nat
  BY SecondIs, QuoteAssumption
<1> HIDE DEF here, next, lost, stop, c
<1>6. CASE s.over \/ s.turns = MaxTurns
  BY <1>2, <1>3, <1>4, <1>6
<1>7. CASE ~s.over /\ s.turns # MaxTurns /\ here # {}
  <2> DEFINE t == Nearest(here, z)
             v == Visit(s, t, s.array, z)
  <2>1. IsNext(z, s.tick, t) /\ ArrayOf(t) = s.array
    BY <1>1, <1>7, NextHere DEF here
  <2> HIDE DEF t
  <2>2. /\ v \in QuoteStates /\ v.first = Here /\ ~v.over
        /\ v.array = s.array /\ v.queue = s.queue \ {s.array}
        /\ IsFiniteSet(v.visited) /\ v.turns = Cardinality(v.visited) /\ v.turns = s.turns + 1
        /\ Crossing(z, v) /\ At(z, v.tick, s.array)
    BY <1>1, <1>3, <1>7, <2>1, VisitCrosses
  <2>3. QuoteTurn(s, z) = v
    BY <1>2, <1>7 DEF t
  <2> HIDE DEF v
  <2>4. Stands(z, v)
    <3>1. CASE s.array = Here /\ s.queue = NextArrays(z, Here)
      <4>1. Here \notin s.queue
        BY <3>1, LoadedIs, SecondIs
      <4>2. v.array = Here /\ v.queue = NextArrays(z, Here)
        BY <2>2, <3>1, <4>1
      <4> QED
        BY <2>2, <3>1, <4>2 DEF Stands
    <3>2. CASE Onward(z) # {} /\ s.array = Second(z) /\ s.queue \subseteq Onward(z) \ {Second(z)}
      <4>1. v.queue \subseteq Onward(z) \ {Second(z)}
        BY <2>2, <3>2
      <4> QED
        BY <2>2, <3>2, <4>1 DEF Stands
    <3> QED
      BY <1>3, <1>7, <3>1, <3>2 DEF Stands
  <2>5. v.turns <= MaxTurns
    BY <1>1, <1>3, <1>5, <1>7, <2>2
  <2> QED
    BY <2>2, <2>3, <2>4, <2>5 DEF QuoteInv
<1>8. CASE ~s.over /\ s.turns # MaxTurns /\ here = {} /\ s.array = Here /\ s.queue = NextArrays(z, Here)
           /\ At(z, s.tick, Here)
  <2>0. TicksOfArrayAhead(Here, s.tick, z) = {}
    BY <1>8 DEF here
  <2>1. CASE Onward(z) = {}
    <3>1. s.visited = Within(z)
      BY <1>1, <1>3, <1>8, <2>0, <2>1, FirstUsedUp DEF Crossing
    <3>2. lost
      BY <1>1, <2>1 DEF lost
    <3> QED
      BY <1>2, <1>4, <1>8, <3>1, <3>2
  <2>2. CASE Onward(z) # {}
    <3>1. s.queue # {} /\ next = c
      BY <1>8, <2>2, LoadedIs DEF next, c
    <3> DEFINE t == Nearest(InArray(c), z)
               v == Visit(s, t, c, z)
    <3>2. InArray(c) # {} /\ IsNext(z, s.tick, t) /\ ArrayOf(t) = c
      BY <1>1, <1>3, <1>8, <2>0, <2>2, NextSecond DEF Crossing, c
    <3>3. ~lost
      BY <1>1, <2>2, <3>1, <3>2 DEF lost, c, Second
    <3>4. QuoteTurn(s, z) = v
      BY <1>2, <1>8, <3>1, <3>3
    <3> HIDE DEF t
    <3>5. /\ v \in QuoteStates /\ v.first = Here /\ ~v.over
          /\ v.array = c /\ v.queue = s.queue \ {c}
          /\ IsFiniteSet(v.visited) /\ v.turns = Cardinality(v.visited) /\ v.turns = s.turns + 1
          /\ Crossing(z, v) /\ At(z, v.tick, c)
      BY <1>1, <1>3, <1>5, <1>8, <2>2, <3>2, VisitCrosses
    <3> HIDE DEF v
    <3>6. v.queue \subseteq Onward(z) \ {c}
      BY <1>8, <3>5, LoadedIs
    <3>7. v.turns <= MaxTurns
      BY <1>1, <1>3, <1>5, <1>8, <3>5
    <3> QED
      BY <2>2, <3>4, <3>5, <3>6, <3>7 DEF QuoteInv, Stands, c
  <2> QED
    BY <2>1, <2>2
<1>9. CASE ~s.over /\ s.turns # MaxTurns /\ here = {} /\ Onward(z) # {} /\ s.array = c
           /\ s.queue \subseteq Onward(z) \ {c} /\ At(z, s.tick, c)
  <2>1. s.visited = Within(z)
    BY <1>1, <1>3, <1>9, SecondUsedUp DEF Crossing, c, here
  <2>2. ASSUME s.queue # {} PROVE next # c
    <3>1. Onward(z) \subseteq Int /\ IsFiniteSet(Onward(z))
      BY SecondIs
    <3>2. IsFiniteSet(s.queue)
      BY <1>9, <3>1, FS_Subset
    <3>3. next \in s.queue
      BY <1>1, <2>2, <3>2, NearestIn DEF next
    <3> QED
      BY <1>9, <3>3
  <2>3. lost
    BY <1>1, <2>2 DEF lost, c, Second
  <2> QED
    BY <1>2, <1>4, <1>9, <2>1, <2>3
<1> QED
  BY <1>1, <1>3, <1>6, <1>7, <1>8, <1>9 DEF Stands, c

\* The states of a loop turn by turn, as far as turn n: those of the quote or
\* those of the impact.
TurnOf(quotes, s, z) == IF quotes THEN QuoteTurn(s, z) ELSE ImpactTurn(s, z)
IsRun(quotes, z, n, f) ==
  f = [k \in 0..n |-> IF k = 0 THEN QuoteStart(z) ELSE TurnOf(quotes, f[k - 1], z)]

\* The recursive definition of a loop has a solution, so the loop is what its
\* turns make it.
LEMMA RunExists ==
  ASSUME NEW quotes \in BOOLEAN, NEW z \in BOOLEAN, NEW n \in Nat
  PROVE  \E f : IsRun(quotes, z, n, f)
<1> DEFINE Missing == {m \in Nat : ~ \E f : IsRun(quotes, z, m, f)}
<1>1. SUFFICES ASSUME Missing # {} PROVE FALSE
  OBVIOUS
<1>2. PICK m \in Missing : \A y \in Missing : m <= y
  <2>1. Missing \in SUBSET Nat
    OBVIOUS
  <2> HIDE DEF Missing
  <2> QED
    BY <1>1, <2>1, LeastExists
<1>3. CASE m = 0
  <2> DEFINE f == [k \in 0..0 |-> QuoteStart(z)]
  <2>1. IsRun(quotes, z, 0, f)
    BY DEF IsRun
  <2> QED
    BY <1>2, <1>3, <2>1
<1>4. CASE m # 0
  <2>1. m \in Nat /\ m - 1 \in Nat /\ m - 1 \notin Missing
    BY <1>2, <1>4
  <2>2. PICK g : IsRun(quotes, z, m - 1, g)
    BY <2>1
  <2> DEFINE f == [k \in 0..m |-> IF k = m THEN TurnOf(quotes, g[m - 1], z) ELSE g[k]]
             h == [k \in 0..m |-> IF k = 0 THEN QuoteStart(z) ELSE TurnOf(quotes, f[k - 1], z)]
  <2>3. ASSUME NEW k \in 0..m PROVE f[k] = h[k]
    <3>1. CASE k = m
      BY <1>4, <2>1, <3>1
    <3>2. CASE k # m
      <4>1. k \in 0..(m - 1) /\ (k # 0 => k - 1 \in 0..(m - 1) /\ k - 1 # m)
        BY <2>1, <3>2
      <4>2. g[k] = IF k = 0 THEN QuoteStart(z) ELSE TurnOf(quotes, g[k - 1], z)
        BY <2>2, <4>1 DEF IsRun
      <4>3. k # 0 => f[k - 1] = g[k - 1]
        BY <2>1, <4>1
      <4> QED
        BY <3>2, <4>2, <4>3
    <3> QED
      BY <3>1, <3>2
  <2>4. f = h
    BY <2>3
  <2>5. IsRun(quotes, z, m, f)
    BY <2>4 DEF IsRun
  <2> QED
    BY <1>2, <2>5
<1> QED
  BY <1>3, <1>4

LEMMA TurnsAre == Turns = 0..(MaxTurns + 1) /\ MaxTurns \in Nat
BY QuoteAssumption DEF Turns

LEMMA Unrolled ==
  ASSUME NEW z \in BOOLEAN
  PROVE  /\ IsRun(TRUE, z, MaxTurns + 1, Quoted(z)) /\ IsRun(FALSE, z, MaxTurns + 1, Impact(z))
<1>1. MaxTurns \in Nat /\ MaxTurns + 1 \in Nat
  BY QuoteAssumption
<1>2. \E f : IsRun(TRUE, z, MaxTurns + 1, f)
  BY <1>1, RunExists
<1>3. \E f : IsRun(FALSE, z, MaxTurns + 1, f)
  BY <1>1, RunExists
<1>4. Quoted(z) = CHOOSE f : IsRun(TRUE, z, MaxTurns + 1, f)
  BY DEF Quoted, IsRun, TurnOf, Turns
<1>5. Impact(z) = CHOOSE f : IsRun(FALSE, z, MaxTurns + 1, f)
  BY DEF Impact, IsRun, TurnOf, Turns
<1> QED
  BY <1>2, <1>3, <1>4, <1>5

\* What is said of every turn holds before the first.
LEMMA QuoteStarts ==
  ASSUME ClmmInv, ~swap.on, NEW z \in BOOLEAN, Here \in bitmap
  PROVE  QuoteInv(z, QuoteStart(z))
<1> DEFINE s == QuoteStart(z)
<1>1. Shape /\ Tables /\ LiquidityIsSum
  BY DEF ClmmInv
<1>2. pool.tick_current \in Int /\ pool.liquidity \in Int /\ Here \in Int
  <2>1. pool.tick_current \in Int /\ pool.liquidity \in Int
    BY <1>1 DEF Shape
  <2> QED
    BY <2>1, ArraysApart DEF Here
<1>3. Nearest(FirstArrays(z), z) = Here
  <2>1. FirstArrays(z) = {Here}
    BY DEF FirstArrays, Here
  <2>2. {Here} \subseteq Int /\ IsFiniteSet({Here})
    BY <1>2, FS_Singleton
  <2>3. Nearest({Here}, z) \in {Here}
    BY <2>2, NearestIn
  <2> QED
    BY <2>1, <2>3
<1>4. s = [tick |-> pool.tick_current, liquidity |-> pool.liquidity, first |-> Here,
           array |-> Here, queue |-> NextArrays(z, Here), visited |-> {}, turns |-> 0,
           over |-> FALSE]
  BY <1>3 DEF QuoteStart
<1>5. NextArrays(z, Here) \subseteq Int
  BY <1>1, LoadedIs, SecondIs
<1> HIDE DEF s
<1>6. s \in QuoteStates
  BY <1>2, <1>4, <1>5 DEF QuoteStates
<1>7. pool.liquidity = Sum(personal, Around(pool.tick_current))
  BY <1>1, LiquidityIsParts DEF LiquidityParts, Active, Tick
<1>8. Crossing(z, s)
  BY <1>2, <1>4, <1>7 DEF Crossing, Coming
<1>9. At(z, s.tick, Here)
  <2>1. ArrayOf(s.tick) = Here /\ s.tick \in Int
    BY <1>2, <1>4 DEF Here
  <2> QED
    BY <2>1 DEF At
<1>10. IsFiniteSet(s.visited) /\ s.turns = Cardinality(s.visited) /\ s.turns <= MaxTurns
  BY <1>4, FS_EmptySet, QuoteAssumption
<1> QED
  BY <1>4, <1>6, <1>8, <1>9, <1>10 DEF QuoteInv, Stands, s

\* What has been said holds at every turn of a quote,
LEMMA QuoteKeeps ==
  ASSUME ClmmInv, ~swap.on, NEW z \in BOOLEAN, Here \in bitmap
  PROVE  \A n \in Turns :
           QuoteInv(z, Quoted(z)[n]) /\ (Quoted(z)[n].over \/ Quoted(z)[n].turns = n)
<1> DEFINE f == Quoted(z)
           Last == MaxTurns + 1
           S == {n \in Turns : QuoteInv(z, f[n]) /\ (f[n].over \/ f[n].turns = n)}
<1>1. Last \in Nat /\ Turns = 0..Last
  BY TurnsAre
<1>2. \A n \in Turns : f[n] = IF n = 0 THEN QuoteStart(z) ELSE QuoteTurn(f[n - 1], z)
  BY TurnsAre, Unrolled DEF IsRun, TurnOf
<1>3. Shape /\ Tables /\ EndsAreUsed /\ LiquidityParts
  <2>1. PositionsTyped
    BY DEF ClmmInv, Shape, PositionsTyped
  <2> QED
    BY <2>1, EndsUsed, LiquidityIsParts DEF ClmmInv
<1> HIDE DEF f, Last
<1>4. 0 \in S
  <2>1. QuoteStart(z).turns = 0
    BY DEF QuoteStart
  <2> QED
    BY <1>1, <1>2, <2>1, QuoteStarts
<1>5. ASSUME NEW n \in S, n < Last PROVE n + 1 \in S
  <2>1. n + 1 \in Turns /\ n + 1 # 0 /\ (n + 1) - 1 = n
    BY <1>1, <1>5
  <2>2. f[n + 1] = QuoteTurn(f[n], z)
    BY <1>2, <2>1
  <2>3. /\ QuoteInv(z, QuoteTurn(f[n], z))
        /\ QuoteTurn(f[n], z).over \/ QuoteTurn(f[n], z).turns = f[n].turns + 1
    BY <1>3, <1>5, TurnKeeps
  <2>4. f[n].over => f[n + 1].over
    BY <2>2 DEF QuoteTurn, QuoteInv, QuoteStates
  <2> QED
    BY <1>5, <2>1, <2>2, <2>3, <2>4
<1>6. S \in SUBSET Nat
  BY <1>1
<1> HIDE DEF S
<1>7. 0..Last \subseteq S
  BY <1>1, <1>4, <1>5, <1>6, InductionUpTo
<1> QED
  BY <1>1, <1>7 DEF S, f

\* and the impact is told of the same swap until the quote gives up.
LEMMA ImpactFollows ==
  ASSUME NEW z \in BOOLEAN
  PROVE  \A n \in Turns : Quoted(z)[n].over \/ Impact(z)[n] = Quoted(z)[n]
<1> DEFINE f == Quoted(z)
           g == Impact(z)
           Last == MaxTurns + 1
           S == {n \in Turns :
                   "over" \in DOMAIN f[n] /\ (f[n].over \/ g[n] = f[n])}
<1>1. Last \in Nat /\ Turns = 0..Last
  BY TurnsAre
<1>2. \A n \in Turns :
        /\ f[n] = IF n = 0 THEN QuoteStart(z) ELSE QuoteTurn(f[n - 1], z)
        /\ g[n] = IF n = 0 THEN QuoteStart(z) ELSE ImpactTurn(g[n - 1], z)
  BY TurnsAre, Unrolled DEF IsRun, TurnOf
<1>3. ASSUME NEW s, "over" \in DOMAIN s
      PROVE  /\ "over" \in DOMAIN QuoteTurn(s, z)
             /\ s.over => QuoteTurn(s, z).over
             /\ QuoteTurn(s, z).over \/ ImpactTurn(s, z) = QuoteTurn(s, z)
  <2> DEFINE here == TicksOfArrayAhead(s.array, s.tick, z)
             next == Nearest(s.queue, z)
             lost == \/ s.queue = {} \/ Expected(s, z) = {}
                     \/ next # Nearest(Expected(s, z), z)
                     \/ InArray(next) = {}
             full == s.turns = MaxTurns
             stay == Visit(s, Nearest(here, z), s.array, z)
             go == Visit(s, Nearest(InArray(next), z), next, z)
             stop == [s EXCEPT !.over = TRUE]
  <2>1. QuoteTurn(s, z) = IF s.over \/ full \/ (here = {} /\ lost) THEN stop
                          ELSE IF here # {} THEN stay ELSE go
    BY DEF QuoteTurn
  <2>2. ImpactTurn(s, z) = IF \/ s.over \/ full
                              \/ here = {} /\ (s.queue = {} \/ InArray(next) = {})
                           THEN stop ELSE IF here # {} THEN stay ELSE go
    BY DEF ImpactTurn
  <2>3. "over" \in DOMAIN stay /\ "over" \in DOMAIN go
    BY <1>3 DEF Visit
  <2>4. "over" \in DOMAIN stop /\ stop.over
    BY <1>3
  <2>5. ~lost => ~(s.queue = {} \/ InArray(next) = {})
    OBVIOUS
  <2> HIDE DEF here, lost, full, stay, go, stop, next
  <2> QED
    BY <1>3, <2>1, <2>2, <2>3, <2>4, <2>5
<1> HIDE DEF f, g, Last
<1>4. 0 \in S
  <2>1. "over" \in DOMAIN QuoteStart(z)
    BY DEF QuoteStart
  <2> QED
    BY <1>1, <1>2, <2>1
<1>5. ASSUME NEW n \in S, n < Last PROVE n + 1 \in S
  <2>1. n \in Turns /\ n + 1 \in Turns /\ n + 1 # 0 /\ (n + 1) - 1 = n
    BY <1>1, <1>5
  <2>2. f[n + 1] = QuoteTurn(f[n], z) /\ g[n + 1] = ImpactTurn(g[n], z)
    BY <1>2, <2>1
  <2>3. "over" \in DOMAIN f[n] /\ (f[n].over \/ g[n] = f[n])
    BY <1>5
  <2>4. /\ "over" \in DOMAIN QuoteTurn(f[n], z)
        /\ f[n].over => QuoteTurn(f[n], z).over
        /\ QuoteTurn(f[n], z).over \/ ImpactTurn(f[n], z) = QuoteTurn(f[n], z)
    BY <1>3, <2>3
  <2>5. f[n + 1].over \/ g[n + 1] = f[n + 1]
    BY <2>2, <2>3, <2>4
  <2> QED
    BY <2>1, <2>2, <2>4, <2>5
<1>6. S \in SUBSET Nat
  BY <1>1
<1> HIDE DEF S
<1>7. 0..Last \subseteq S
  BY <1>1, <1>4, <1>5, <1>6, InductionUpTo
<1> QED
  BY <1>1, <1>7 DEF S, f, g

\* For any ticks, ranges and positions and any number of arrays loaded: as long
\* as a quote goes on it goes with the liquidity the positions have put where
\* it is, and what is told of its impact on the price is of the same swap; and
\* it gives up only at the limit of its loop, with as many ticks crossed, or
\* with the ticks of two arrays used up (swap_calculator.rs:1014, :1056).
THEOREM QuotesSee == Spec => []QuoteSeesPositions
<1>1. ASSUME ClmmInv PROVE QuoteSeesPositions
  <2> DEFINE last(z) == Quoted(z)[MaxTurns + 1]
  <2> SUFFICES ASSUME ~swap.on, NEW z \in BOOLEAN
               PROVE  /\ \A n \in Turns :
                           \/ Quoted(z)[n].over
                           \/ /\ Impact(z)[n].visited = Quoted(z)[n].visited
                              /\ Here \in bitmap =>
                                   Quoted(z)[n].liquidity
                                     = LiquidityOn({r \in Ranges : InRange(r, Quoted(z)[n].tick)})
                      /\ Here \in bitmap =>
                           /\ last(z).over
                           /\ \/ Cardinality(last(z).visited) = MaxTurns
                              \/ last(z).visited = Within(z)
    BY DEF QuoteSeesPositions, Here, Within, Coming, Onward
  <2>1. \A n \in Turns : Quoted(z)[n].over \/ Impact(z)[n] = Quoted(z)[n]
    BY ImpactFollows
  <2>2. Here \in bitmap =>
          \A n \in Turns : QuoteInv(z, Quoted(z)[n])
                          /\ (Quoted(z)[n].over \/ Quoted(z)[n].turns = n)
    BY <1>1, QuoteKeeps
  <2>3. MaxTurns \in Nat /\ MaxTurns + 1 \in Turns
    BY TurnsAre
  <2>4. \A tick : LiquidityOn({r \in Ranges : InRange(r, tick)}) = Sum(personal, Around(tick))
    BY LiquidityOnSum DEF Around
  <2>5. ASSUME Here \in bitmap
        PROVE  /\ last(z).over
               /\ Cardinality(last(z).visited) = MaxTurns \/ last(z).visited = Within(z)
    <3>1. /\ QuoteInv(z, last(z))
          /\ last(z).over \/ last(z).turns = MaxTurns + 1
      BY <2>2, <2>3, <2>5
    <3> HIDE DEF last
    <3> QED
      BY <2>3, <3>1 DEF QuoteInv
  <2> HIDE DEF last
  <2>6. Here \in bitmap => \A n \in Turns : Quoted(z)[n].over \/ Crossing(z, Quoted(z)[n])
    BY <2>2 DEF QuoteInv
  <2> QED
    BY <2>1, <2>4, <2>5, <2>6 DEF Crossing
<1> QED
  BY <1>1, ClmmInvariant, PTL
=============================================================================
