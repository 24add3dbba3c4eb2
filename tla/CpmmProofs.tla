----------------------------- MODULE CpmmProofs -----------------------------
(***************************************************************************)
(* Proofs about the CPMM pool for any wallets, amounts, rates and shares   *)
(* of the steps: its type, that the vaults cover the fees, and that no     *)
(* instruction takes value from the holders of LP tokens.                  *)
(***************************************************************************)
EXTENDS CpmmService, DataLemmas

-----------------------------------------------------------------------------
(* Arithmetic                                                              *)

\* Division rounds down.
LEMMA DivBelow ==
  ASSUME NEW a \in Nat, NEW b \in Nat \ {0}
  PROVE  /\ a \div b \in Nat
         /\ b * (a \div b) <= a
         /\ a < b * ((a \div b) + 1)
OBVIOUS

\* A product with factors that are no larger is no larger.
LEMMA TimesMonotone ==
  ASSUME NEW a \in Nat, NEW b \in Nat, NEW c \in Nat, NEW d \in Nat,
         a <= c, b <= d
  PROVE  /\ a * b \in Nat
         /\ a * b <= c * d
<1>1. a * b \in Nat /\ c * b \in Nat /\ c * d \in Nat
  OBVIOUS
<1>2. a * b <= c * b
  OBVIOUS
<1>3. c * b <= c * d
  OBVIOUS
<1> QED BY <1>1, <1>2, <1>3

\* What is multiplied by more is more.
LEMMA TimesCancel ==
  ASSUME NEW a \in Nat, NEW b \in Nat, NEW c \in Nat \ {0}, c * a < c * b
  PROVE  a < b
<1> SUFFICES ASSUME b <= a PROVE FALSE
  OBVIOUS
<1>1. c * b <= c * a
  BY TimesMonotone
<1> QED BY <1>1

\* CeilDiv rounds up.
LEMMA CeilAbove ==
  ASSUME NEW a \in Nat, NEW b \in Nat \ {0}
  PROVE  /\ CeilDiv(a, b) \in Nat
         /\ b * CeilDiv(a, b) >= a
<1> DEFINE q == (a + b - 1) \div b
<1>1. a + b - 1 \in Nat
  OBVIOUS
<1>2. q \in Nat /\ a + b - 1 < b * (q + 1)
  BY <1>1, DivBelow
<1>3. b * (q + 1) = b * q + b
  BY <1>2
<1>4. b * q \in Nat
  BY <1>2
<1> HIDE DEF q
<1>5. b * q >= a
  BY <1>2, <1>3, <1>4
<1> QED BY <1>2, <1>5 DEF CeilDiv, q

\* The share amount/whole of a quantity is no more than the quantity.
LEMMA ShareBelow ==
  ASSUME NEW amount \in Nat, NEW whole \in Nat \ {0}, amount <= whole,
         NEW quantity \in Nat
  PROVE  /\ (amount * quantity) \div whole \in Nat
         /\ (amount * quantity) \div whole <= quantity
<1> DEFINE q == (amount * quantity) \div whole
<1>1. amount * quantity \in Nat /\ amount * quantity <= whole * quantity
  BY TimesMonotone
<1>2. q \in Nat /\ whole * q <= amount * quantity
  BY <1>1, DivBelow
<1> HIDE DEF q
<1>3. SUFFICES ASSUME quantity < q PROVE FALSE
  BY <1>2 DEF q
<1>4. quantity + 1 \in Nat /\ quantity + 1 <= q
  BY <1>2, <1>3
<1>5. whole * (quantity + 1) <= whole * q
  BY <1>2, <1>4, TimesMonotone
<1>6. whole * (quantity + 1) = whole * quantity + whole
  OBVIOUS
<1>7. whole * quantity \in Nat /\ whole * q \in Nat
  BY <1>2
<1> QED BY <1>1, <1>2, <1>5, <1>6, <1>7

\* Fees are natural numbers, and what is asked for to have `post' left is
\* no less than that.
LEMMA FeeNat ==
  ASSUME NEW amount \in Nat, NEW rate \in Nat
  PROVE  Fee(amount, rate) \in Nat
<1>1. amount * rate \in Nat
  OBVIOUS
<1> QED BY <1>1, CeilAbove, CpmmAssumption DEF Fee

LEMMA PreFeeAbove ==
  ASSUME NEW post \in Nat, NEW rate \in Nat, rate < Denominator
  PROVE  PreFee(post, rate) \in Nat /\ PreFee(post, rate) >= post
<1> DEFINE d == Denominator - rate
           c == CeilDiv(post * Denominator, d)
<1>1. Denominator \in Nat \ {0} /\ d \in Nat \ {0} /\ d <= Denominator
  BY CpmmAssumption
<1>2. post * Denominator \in Nat
  BY <1>1
<1>3. c \in Nat /\ d * c >= post * Denominator
  BY <1>1, <1>2, CeilAbove
<1>4. d * c <= Denominator * c
  BY <1>1, <1>3, TimesMonotone
<1> HIDE DEF c, d
<1>5. ASSUME c < post PROVE FALSE
  <2>1. c + 1 \in Nat /\ c + 1 <= post
    BY <1>3, <1>5
  <2>2. Denominator * (c + 1) <= Denominator * post
    BY <1>1, <2>1, TimesMonotone
  <2>3. Denominator * (c + 1) = Denominator * c + Denominator
    BY <1>1, <1>3
  <2>4. /\ Denominator * post = post * Denominator
        /\ Denominator * c \in Nat /\ d * c \in Nat
    BY <1>1, <1>3
  <2> QED BY <1>1, <1>2, <1>3, <1>4, <2>2, <2>3, <2>4
<1>6. c >= post
  BY <1>3, <1>5
<1> QED BY <1>3, <1>6 DEF PreFee, c, d

-----------------------------------------------------------------------------
(* Quotes and swaps                                                        *)

\* How the amounts of a quote hang together.
QuoteOK(i, q) ==
  /\ q.net \in Nat /\ q.swapped \in Nat
  /\ q.trade \in Nat /\ q.creator \in Nat
  /\ q.paid \in Nat /\ q.out \in Int
  /\ IF CreatorFeeOnInput(i)
     THEN q.paid = q.net + q.trade + q.creator /\ q.out = q.swapped
     ELSE q.paid = q.net + q.trade /\ q.out = q.swapped - q.creator

LEMMA RateNat ==
  ASSUME TypeOK
  PROVE  CreatorRate \in Nat /\ amm_config.trade \in Nat
BY DEF TypeOK, Config, CreatorRate

LEMMA QuoteInputOK ==
  ASSUME TypeOK, NEW i \in Sides, NEW amount \in Nat, NEW slack,
         QuoteInput(i, amount, CreatorRate, slack).net \in Nat,
         QuoteInput(i, amount, CreatorRate, slack).swapped \in Nat
  PROVE  QuoteOK(i, QuoteInput(i, amount, CreatorRate, slack))
<1> DEFINE rate    == CreatorRate
           trade   == Fee(amount, amm_config.trade)
           swapped == CurveOut(i, NetInput(i, amount, rate), Reserves, slack)
           onIn    == Fee(amount, rate)
           onOut   == Fee(swapped, rate)
<1>1. rate \in Nat /\ trade \in Nat /\ onIn \in Nat
  BY RateNat, FeeNat
<1>2. swapped \in Nat /\ NetInput(i, amount, rate) \in Nat
  BY DEF QuoteInput, Quote
<1>3. onOut \in Nat
  BY <1>1, <1>2, FeeNat
<1> HIDE DEF rate, trade, swapped, onIn, onOut
<1>4. CASE CreatorFeeOnInput(i)
  <2>1. NetInput(i, amount, rate) = amount - trade - onIn
    BY <1>4 DEF NetInput, CreatorFeeIn, trade, onIn
  <2>2. QuoteInput(i, amount, rate, slack)
          = Quote(amount - trade - onIn, swapped, trade, onIn + 0, amount, swapped - 0)
    BY <1>4, <2>1 DEF QuoteInput, CreatorFeeIn, trade, onIn, swapped
  <2> QED BY <1>1, <1>2, <1>4, <2>1, <2>2 DEF QuoteOK, Quote, rate
<1>5. CASE ~CreatorFeeOnInput(i)
  <2>1. NetInput(i, amount, rate) = amount - trade
    BY <1>1, <1>5 DEF NetInput, CreatorFeeIn, trade
  <2>2. QuoteInput(i, amount, rate, slack)
          = Quote(amount - trade, swapped, trade, 0 + onOut, amount, swapped - onOut)
    BY <1>5, <2>1 DEF QuoteInput, CreatorFeeIn, trade, onOut, swapped
  <2> QED BY <1>1, <1>2, <1>3, <1>5, <2>1, <2>2 DEF QuoteOK, Quote, rate
<1> QED BY <1>4, <1>5

LEMMA QuoteOutputOK ==
  ASSUME TypeOK, NEW i \in Sides, NEW amount \in Nat,
         CanQuoteOutput(i, amount, CreatorRate),
         QuoteOutput(i, amount, CreatorRate).net \in Nat
  PROVE  QuoteOK(i, QuoteOutput(i, amount, CreatorRate))
<1> DEFINE rate    == CreatorRate
           trade   == amm_config.trade
           grossed == PreFee(amount, rate)
           net     == QuoteOutput(i, amount, rate).net
           onBoth  == PreFee(net, trade + rate)
           onTrade == PreFee(net, trade)
           split   == ((onBoth - net) * rate) \div (trade + rate)
<1>1. rate \in Nat /\ trade \in Nat /\ net \in Nat
  BY RateNat
<1>2. /\ trade + rate < Denominator
      /\ CreatorFeeOnInput(i) => trade + rate > 0
      /\ Denominator \in Nat
  BY CpmmAssumption DEF CanQuoteOutput
<1> HIDE DEF rate, trade, net
<1>3. grossed \in Nat /\ grossed >= amount
  BY <1>1, <1>2, PreFeeAbove
<1>4. onTrade \in Nat /\ onTrade >= net
  BY <1>1, <1>2, PreFeeAbove
<1>5. onBoth \in Nat /\ onBoth >= net
  BY <1>1, <1>2, PreFeeAbove
<1> HIDE DEF grossed, onTrade, onBoth
<1>6. CASE CreatorFeeOnInput(i)
  <2>1. net = CurveIn(i, amount, Reserves)
    BY <1>6 DEF QuoteOutput, Quote, SwappedOutput, net
  <2>2. split \in Nat /\ split <= onBoth - net
    <3>1. onBoth - net \in Nat
      BY <1>1, <1>5
    <3>2. trade + rate \in Nat \ {0} /\ rate <= trade + rate
      BY <1>1, <1>2, <1>6
    <3>3. (rate * (onBoth - net)) \div (trade + rate) \in Nat
          /\ (rate * (onBoth - net)) \div (trade + rate) <= onBoth - net
      BY <1>1, <3>1, <3>2, ShareBelow
    <3>4. rate * (onBoth - net) = (onBoth - net) * rate
      BY <1>1, <3>1
    <3> QED BY <3>3, <3>4
  <2> HIDE DEF split
  <2>3. QuoteOutput(i, amount, rate)
          = Quote(net, amount, onBoth - net - split, split, onBoth, amount)
    BY <1>6, <2>1 DEF QuoteOutput, SwappedOutput, onBoth, trade, split
  <2> QED BY <1>1, <1>5, <1>6, <2>2, <2>3 DEF QuoteOK, Quote, rate
<1>7. CASE ~CreatorFeeOnInput(i)
  <2>1. net = CurveIn(i, grossed, Reserves)
    BY <1>7 DEF QuoteOutput, Quote, SwappedOutput, net, grossed
  <2>2. QuoteOutput(i, amount, rate)
          = Quote(net, grossed, onTrade - net - 0, grossed - amount, onTrade, amount)
    <3>1. onTrade = PreFee(net, amm_config.trade + 0)
      BY <1>1 DEF onTrade, trade
    <3> QED BY <1>7, <2>1, <3>1 DEF QuoteOutput, SwappedOutput, grossed
  <2> QED BY <1>1, <1>3, <1>4, <1>7, <2>2 DEF QuoteOK, Quote, rate
<1> QED BY <1>6, <1>7

\* The shares of the protocol and of the reward are within the trade fee.
LEMMA TradeFeeSplit ==
  ASSUME NEW uppers \in 0..2, NEW trade \in Nat
  PROVE  /\ ProtocolFee(uppers, trade) \in Nat /\ Reward(uppers, trade) \in Nat
         /\ ProtocolFee(uppers, trade) + Reward(uppers, trade) <= trade
BY DEF ProtocolFee, Reward

\* All of the reward is handed out, and no more.
LEMMA RewardIsPaid ==
  ASSUME NEW uppers \in 0..2, NEW reward \in Nat
  PROVE  RewardPaid(uppers, reward) = reward
<1> DEFINE half == reward \div 2
           chain == reward - half
           first == (chain * 5) \div 6
<1>1. half \in Nat /\ half <= reward
  OBVIOUS
<1>2. chain \in Nat /\ half + chain = reward
  BY <1>1
<1>3. first \in Nat
  BY <1>2
<1>4. CASE uppers = 0
  <2>1. RewardShares(uppers, reward) = [project |-> reward, upper |-> 0, upper_upper |-> 0]
    BY <1>4 DEF RewardShares
  <2> QED BY <2>1 DEF RewardPaid
<1>5. CASE uppers = 1
  <2>1. RewardShares(uppers, reward) = [project |-> half, upper |-> chain, upper_upper |-> 0]
    BY <1>5 DEF RewardShares
  <2> QED BY <2>1, <1>1, <1>2 DEF RewardPaid
<1>6. CASE uppers = 2
  <2>1. RewardShares(uppers, reward)
          = [project |-> half, upper |-> first, upper_upper |-> chain - first]
    BY <1>6 DEF RewardShares
  <2> HIDE DEF half, chain, first
  <2> QED BY <2>1, <1>1, <1>2, <1>3 DEF RewardPaid
<1> QED BY <1>4, <1>5, <1>6

\* What a swap does to the two reserves: at least what went into the curve
\* stays on the side paid in, and exactly what came out leaves the other.
LEMMA SwapEffect ==
  ASSUME TypeOK, Solvent, NEW uppers \in 0..2, NEW mint \in Sides, NEW i \in Sides, NEW q,
         QuoteOK(i, q), Swap(i, q, uppers, mint)
  PROVE  /\ fees' \in [FeeKinds -> [Sides -> Nat]]
         /\ vault' \in [Sides -> Nat]
         /\ Reserve(i) \in Nat /\ Reserve(1 - i) \in Nat
         /\ Reserve(i)' \in Nat /\ Reserve(1 - i)' \in Nat
         /\ Reserve(i)' >= Reserve(i) + q.net
         /\ Reserve(1 - i)' = Reserve(1 - i) - q.swapped
<1> DEFINE j == 1 - i
           protocol == ProtocolFee(uppers, q.trade)
           reward == Reward(uppers, q.trade)
<1>1. /\ protocol \in Nat /\ reward \in Nat /\ protocol + reward <= q.trade
      /\ RewardPaid(uppers, reward) = reward
  BY TradeFeeSplit, RewardIsPaid DEF QuoteOK
<1> HIDE DEF protocol, reward
<1>2. j \in Sides /\ i # j /\ \A k \in Sides : k = i \/ k = j
  BY DEF Sides
<1>3. /\ vault \in [Sides -> Nat] /\ fees \in [FeeKinds -> [Sides -> Nat]]
      /\ "protocol" \in FeeKinds /\ "fund" \in FeeKinds /\ "creator" \in FeeKinds
  BY DEF TypeOK, FeeKinds
<1>4. /\ fees["protocol"][i] \in Nat /\ fees["fund"][i] \in Nat
      /\ fees["creator"][i] \in Nat /\ vault[i] \in Nat
      /\ fees["protocol"][j] \in Nat /\ fees["fund"][j] \in Nat
      /\ fees["creator"][j] \in Nat /\ vault[j] \in Nat
  BY <1>2, <1>3
<1>5. /\ vault[i] >= fees["protocol"][i] + fees["fund"][i] + fees["creator"][i]
      /\ vault[j] >= fees["protocol"][j] + fees["fund"][j] + fees["creator"][j]
  BY <1>2 DEF Solvent, FeesOf
<1>6. /\ Reserve(i) = vault[i] - (fees["protocol"][i] + fees["fund"][i] + fees["creator"][i])
      /\ Reserve(j) = vault[j] - (fees["protocol"][j] + fees["fund"][j] + fees["creator"][j])
  BY DEF Reserve, FeesOf
<1>7. /\ Reserve(i)' = vault'[i] - (fees'["protocol"][i] + fees'["fund"][i] + fees'["creator"][i])
      /\ Reserve(j)' = vault'[j] - (fees'["protocol"][j] + fees'["fund"][j] + fees'["creator"][j])
  BY DEF Reserve, FeesOf
<1>8. /\ q.swapped <= Reserve(j) /\ q.out > 0 /\ q.paid > 0
      /\ vault[i] >= reward
      /\ vault' = [vault EXCEPT ![i] = @ - reward + q.paid, ![j] = @ - q.out]
  BY <1>1, <1>4, <1>5, <1>6 DEF Swap, reward
<1>9. /\ vault'[i] = vault[i] - reward + q.paid
      /\ vault'[j] = vault[j] - q.out
  BY <1>2, <1>3, <1>8
<1>10. CASE CreatorFeeOnInput(i)
  <2>1. fees' = [fees EXCEPT !["protocol"][i] = @ + protocol, !["creator"][i] = @ + q.creator]
    BY <1>10 DEF Swap, protocol
  <2>2. /\ fees'["protocol"][i] = fees["protocol"][i] + protocol
        /\ fees'["creator"][i] = fees["creator"][i] + q.creator
        /\ fees'["fund"] = fees["fund"]
        /\ fees'["protocol"][j] = fees["protocol"][j]
        /\ fees'["creator"][j] = fees["creator"][j]
    BY <2>1, <1>2, <1>3
  <2>3. fees' \in [FeeKinds -> [Sides -> Nat]]
    <3>1. [fees["protocol"] EXCEPT ![i] = @ + protocol] \in [Sides -> Nat]
      BY <1>1, <1>3
    <3>2. [fees["creator"] EXCEPT ![i] = @ + q.creator] \in [Sides -> Nat]
      BY <1>3 DEF QuoteOK
    <3>3. fees' = [fees EXCEPT !["protocol"] = [fees["protocol"] EXCEPT ![i] = @ + protocol],
                               !["creator"] = [fees["creator"] EXCEPT ![i] = @ + q.creator]]
      BY <2>1, <1>3
    <3> QED BY <3>1, <3>2, <3>3, <1>3
  <2>4. /\ q.paid = q.net + q.trade + q.creator /\ q.out = q.swapped
        /\ q.net \in Nat /\ q.trade \in Nat /\ q.creator \in Nat /\ q.swapped \in Nat
    BY <1>10 DEF QuoteOK
  <2>5. vault' \in [Sides -> Nat]
    BY <1>1, <1>2, <1>3, <1>4, <1>5, <1>6, <1>8, <2>4
  <2>6. /\ Reserve(i)' = Reserve(i) + q.net + (q.trade - reward - protocol)
        /\ Reserve(j)' = Reserve(j) - q.swapped
    BY <1>1, <1>4, <1>6, <1>7, <1>9, <2>2, <2>4
  <2> QED BY <1>1, <1>4, <1>5, <1>6, <1>8, <2>3, <2>4, <2>5, <2>6
<1>11. CASE ~CreatorFeeOnInput(i)
  <2>1. fees' = [fees EXCEPT !["protocol"][i] = @ + protocol, !["creator"][j] = @ + q.creator]
    BY <1>11 DEF Swap, protocol
  <2>2. /\ fees'["protocol"][i] = fees["protocol"][i] + protocol
        /\ fees'["creator"][i] = fees["creator"][i]
        /\ fees'["fund"] = fees["fund"]
        /\ fees'["protocol"][j] = fees["protocol"][j]
        /\ fees'["creator"][j] = fees["creator"][j] + q.creator
    BY <2>1, <1>2, <1>3
  <2>3. fees' \in [FeeKinds -> [Sides -> Nat]]
    <3>1. [fees["protocol"] EXCEPT ![i] = @ + protocol] \in [Sides -> Nat]
      BY <1>1, <1>3
    <3>2. [fees["creator"] EXCEPT ![j] = @ + q.creator] \in [Sides -> Nat]
      BY <1>2, <1>3 DEF QuoteOK
    <3>3. fees' = [fees EXCEPT !["protocol"] = [fees["protocol"] EXCEPT ![i] = @ + protocol],
                               !["creator"] = [fees["creator"] EXCEPT ![j] = @ + q.creator]]
      BY <2>1, <1>3
    <3> QED BY <3>1, <3>2, <3>3, <1>3
  <2>4. /\ q.paid = q.net + q.trade /\ q.out = q.swapped - q.creator
        /\ q.net \in Nat /\ q.trade \in Nat /\ q.creator \in Nat /\ q.swapped \in Nat
    BY <1>11 DEF QuoteOK
  <2>5. vault' \in [Sides -> Nat]
    BY <1>1, <1>2, <1>3, <1>4, <1>5, <1>6, <1>8, <2>4
  <2>6. /\ Reserve(i)' = Reserve(i) + q.net + (q.trade - reward - protocol)
        /\ Reserve(j)' = Reserve(j) - q.swapped
    BY <1>1, <1>4, <1>6, <1>7, <1>9, <2>2, <2>4
  <2> QED BY <1>1, <1>4, <1>5, <1>6, <1>8, <2>3, <2>4, <2>5, <2>6
<1> QED BY <1>10, <1>11

-----------------------------------------------------------------------------
(* The invariant and what every instruction keeps                          *)

\* A pool that is not created yet owes nothing.
NoFeesBefore == ~pool.created => \A kind \in FeeKinds, i \in Sides : fees[kind][i] = 0

IInv == TypeOK /\ Solvent /\ NoFeesBefore

\* A step keeps the invariant and takes nothing from the holders.
Kept == IInv' /\ ShareKept

LEMMA ReserveNat ==
  ASSUME TypeOK, Solvent, NEW i \in Sides
  PROVE  /\ Reserve(i) \in Nat /\ FeesOf(i) \in Nat /\ vault[i] \in Nat
         /\ Reserve(i) = vault[i] - FeesOf(i)
<1>1. "protocol" \in FeeKinds /\ "fund" \in FeeKinds /\ "creator" \in FeeKinds
  BY DEF FeeKinds
<1>2. /\ fees["protocol"][i] \in Nat /\ fees["fund"][i] \in Nat
      /\ fees["creator"][i] \in Nat /\ vault[i] \in Nat
  BY <1>1 DEF TypeOK
<1>3. vault[i] >= FeesOf(i)
  BY DEF Solvent
<1> QED BY <1>2, <1>3 DEF Reserve, FeesOf

LEMMA Pow4Monotone ==
  ASSUME NEW x \in Nat, NEW y \in Nat, x <= y
  PROVE  Pow4(x) \in Nat /\ Pow4(y) \in Nat /\ Pow4(x) <= Pow4(y)
<1>1. x * x \in Nat /\ y * y \in Nat /\ x * x <= y * y
  BY TimesMonotone
<1>2. (x * x) * (x * x) \in Nat /\ (y * y) * (y * y) \in Nat
      /\ (x * x) * (x * x) <= (y * y) * (y * y)
  BY <1>1, TimesMonotone
<1> QED BY <1>2 DEF Pow4

LEMMA ConstantMonotone ==
  ASSUME NEW x \in Nat, NEW y \in Nat, NEW u \in Nat, NEW v \in Nat,
         x <= u, y <= v
  PROVE  /\ Constant(x, y) \in Nat /\ Constant(u, v) \in Nat
         /\ Constant(x, y) <= Constant(u, v)
<1>1. Pow4(x) \in Nat /\ Pow4(u) \in Nat /\ Pow4(x) <= Pow4(u)
  BY Pow4Monotone
<1>2. Pow4(x) * y \in Nat /\ Pow4(u) * v \in Nat /\ Pow4(x) * y <= Pow4(u) * v
  BY <1>1, TimesMonotone
<1> QED BY <1>2 DEF Constant

\* What the pool's instructions leave alone keeps its type.
LEMMA RestTyped ==
  ASSUME TypeOK, Step, UNCHANGED referralVars
  PROVE  ReferralTypeOK' /\ steps' \in Nat
<1>1. ReferralTypeOK'
  BY DEF TypeOK, referralVars, ReferralTypeOK
<1>2. steps \in Nat /\ steps' = steps + 1
  BY DEF TypeOK, Step
<1> QED BY <1>1, <1>2

\* Swaps, whichever amount they fix.
LEMMA SwapKept ==
  ASSUME IInv, pool.created, NEW uppers \in 0..2, NEW mint \in Sides, NEW i \in Sides, NEW q,
         QuoteOK(i, q), Swap(i, q, uppers, mint), Step,
         UNCHANGED <<amm_config, pool, lp, open, referralVars>>
  PROVE  Kept
<1>1. /\ fees' \in [FeeKinds -> [Sides -> Nat]]
      /\ vault' \in [Sides -> Nat]
      /\ Reserve(i) \in Nat /\ Reserve(1 - i) \in Nat
      /\ Reserve(i)' \in Nat /\ Reserve(1 - i)' \in Nat
      /\ Reserve(i)' >= Reserve(i) + q.net
      /\ Reserve(1 - i)' = Reserve(1 - i) - q.swapped
  <2>1. TypeOK /\ Solvent
    BY DEF IInv
  <2> HIDE DEF TypeOK, Solvent, QuoteOK, Swap
  <2> QED BY <2>1, SwapEffect, SMTT(60)
<1>2. 1 - i \in Sides /\ i # 1 - i /\ \A k \in Sides : k = i \/ k = 1 - i
  BY DEF Sides
<1>3. TypeOK'
  BY <1>1 DEF IInv, TypeOK, Step, referralVars, ReferralTypeOK
<1>4. Solvent'
  <2>1. /\ vault'[i] \in Nat /\ vault'[1 - i] \in Nat
        /\ FeesOf(i)' \in Nat /\ FeesOf(1 - i)' \in Nat
    BY <1>1, <1>2 DEF FeesOf, FeeKinds
  <2>2. vault'[i] >= FeesOf(i)' /\ vault'[1 - i] >= FeesOf(1 - i)'
    BY <2>1, <1>1 DEF Reserve
  <2> QED BY <1>2, <2>2 DEF Solvent
<1>5. NoFeesBefore'
  BY DEF NoFeesBefore
<1>6. Constant(Reserve(0)', Reserve(1)') >= Constant(Reserve(0), Reserve(1))
  <2> DEFINE a == After(i, q)
  <2>1. /\ a[i] = Reserve(i) + q.net /\ a[1 - i] = Reserve(1 - i) - q.swapped
        /\ a[i] \in Nat /\ a[1 - i] \in Nat
    <3>1. Reserves \in [Sides -> Int] /\ Reserves[i] = Reserve(i)
          /\ Reserves[1 - i] = Reserve(1 - i)
      <4>1. \A k \in Sides : Reserve(k) \in Int
        BY <1>1, <1>2
      <4> QED BY <4>1, <1>2 DEF Reserves
    <3>2. q.net \in Nat /\ q.swapped \in 0..Reserve(1 - i)
      BY DEF Swap
    <3> QED BY <1>1, <1>2, <3>1, <3>2 DEF After
  <2>2. Constant(a[0], a[1]) >= Constant(Reserve(0), Reserve(1))
    BY DEF Swap, KeepsConstant
  <2> HIDE DEF a
  <2>3. /\ a[0] \in Nat /\ a[1] \in Nat
        /\ Reserve(0)' \in Nat /\ Reserve(1)' \in Nat
        /\ a[0] <= Reserve(0)' /\ a[1] <= Reserve(1)'
        /\ Reserve(0) \in Nat /\ Reserve(1) \in Nat
    <3>1. CASE i = 0
      BY <3>1, <1>1, <2>1
    <3>2. CASE i = 1
      BY <3>2, <1>1, <2>1
    <3> QED BY <3>1, <3>2 DEF Sides
  <2>4. /\ Constant(a[0], a[1]) <= Constant(Reserve(0)', Reserve(1)')
        /\ Constant(a[0], a[1]) \in Nat /\ Constant(Reserve(0)', Reserve(1)') \in Nat
    BY <2>3, ConstantMonotone
  <2>5. Constant(Reserve(0), Reserve(1)) \in Nat
    BY <2>3, ConstantMonotone
  <2> QED BY <2>2, <2>4, <2>5
<1>7. ShareKept
  BY <1>6 DEF ShareKept
<1> QED BY <1>3, <1>4, <1>5, <1>7 DEF Kept, IInv

LEMMA SwapBaseInputKept ==
  ASSUME IInv, NEW i \in Sides, NEW amount \in Amounts, NEW uppers \in 0..2,
         NEW minimum \in Minimums, NEW slack \in RootSlack, NEW mint \in Sides,
         SwapBaseInput(i, amount, minimum, slack, uppers, mint)
  PROVE  Kept
<1> DEFINE q == QuoteInput(i, amount, CreatorRate, slack)
<1>1. /\ Step /\ pool.created /\ Swap(i, q, uppers, mint)
      /\ UNCHANGED <<amm_config, pool, lp, open, referralVars>>
  BY DEF SwapBaseInput, MaySwap, Allowed
<1>2. q.net \in Nat /\ q.swapped \in Nat
  <2>1. Reserve(1 - i) \in Nat
    BY ReserveNat DEF IInv, Sides
  <2> QED BY <1>1, <2>1 DEF Swap
<1>3. QuoteOK(i, q)
  BY <1>2, QuoteInputOK, CpmmAssumption DEF IInv
<1> HIDE DEF q
<1> QED BY <1>1, <1>3, SwapKept

LEMMA SwapBaseOutputKept ==
  ASSUME IInv, NEW i \in Sides, NEW amount \in Amounts, NEW uppers \in 0..2,
         NEW maximum \in Maximums, NEW mint \in Sides,
         SwapBaseOutput(i, amount, maximum, uppers, mint)
  PROVE  Kept
<1> DEFINE q == QuoteOutput(i, amount, CreatorRate)
<1>1. /\ Step /\ pool.created /\ Swap(i, q, uppers, mint)
      /\ UNCHANGED <<amm_config, pool, lp, open, referralVars>>
      /\ CanQuoteOutput(i, amount, CreatorRate)
  BY DEF SwapBaseOutput, MaySwap, Allowed
<1>2. q.net \in Nat
  BY <1>1 DEF Swap
<1>3. QuoteOK(i, q)
  BY <1>1, <1>2, QuoteOutputOK, CpmmAssumption DEF IInv
<1> HIDE DEF q
<1> QED BY <1>1, <1>3, SwapKept

LEMMA DepositKept ==
  ASSUME IInv, NEW w \in Wallets, NEW amount \in Amounts, NEW maximum \in Maximums,
         Deposit(w, amount, maximum)
  PROVE  Kept
<1> DEFINE paid == [i \in Sides |-> DepositAmount(amount, Reserve(i))]
           supply == pool.lp_supply
<1>1. /\ amount \in Nat \ {0} /\ supply \in Nat \ {0} /\ pool.created
      /\ \A i \in Sides : paid[i] > 0
      /\ vault' = [i \in Sides |-> vault[i] + paid[i]]
      /\ pool' = [pool EXCEPT !.lp_supply = @ + amount]
      /\ lp' = [lp EXCEPT ![w] = @ + amount]
      /\ Step
      /\ UNCHANGED <<amm_config, fees, open, referralVars>>
  BY CpmmAssumption DEF Deposit, Allowed, IInv, TypeOK
<1>2. ASSUME NEW i \in Sides
      PROVE  /\ Reserve(i) \in Nat /\ vault[i] \in Nat /\ FeesOf(i) \in Nat
             /\ Reserve(i) = vault[i] - FeesOf(i)
             /\ paid[i] \in Nat
             /\ paid[i] * supply >= amount * Reserve(i)
  <2>1. /\ Reserve(i) \in Nat /\ vault[i] \in Nat /\ FeesOf(i) \in Nat
        /\ Reserve(i) = vault[i] - FeesOf(i)
    BY ReserveNat DEF IInv
  <2>2. amount * Reserve(i) \in Nat
    BY <1>1, <2>1
  <2> DEFINE c == CeilDiv(amount * Reserve(i), supply)
  <2>3. c \in Nat /\ supply * c >= amount * Reserve(i)
    BY <1>1, <2>2, CeilAbove
  <2>4. paid[i] = c
    BY <1>1 DEF DepositAmount
  <2> HIDE DEF c, paid, supply
  <2>5. paid[i] * supply = supply * c
    BY <1>1, <2>3, <2>4
  <2> QED BY <2>1, <2>3, <2>4, <2>5
<1> HIDE DEF paid
<1>3. ASSUME NEW i \in Sides
      PROVE  /\ vault'[i] = vault[i] + paid[i] /\ FeesOf(i)' = FeesOf(i)
             /\ Reserve(i)' = Reserve(i) + paid[i]
  <2>1. vault'[i] = vault[i] + paid[i] /\ FeesOf(i)' = FeesOf(i)
    BY <1>1 DEF FeesOf
  <2> QED BY <2>1, <1>2 DEF Reserve
<1>4. TypeOK'
  <2>1. vault' \in [Sides -> Nat]
    BY <1>1, <1>2
  <2>2. pool' \in [created : BOOLEAN, lp_supply : Nat, creator_fee_on : FeeOns,
                   enable_creator_fee : BOOLEAN, status : SUBSET {"deposit", "withdraw", "swap"}]
    BY <1>1 DEF IInv, TypeOK
  <2>3. lp' \in [Wallets -> Nat]
    BY <1>1 DEF IInv, TypeOK
  <2>4. ReferralTypeOK' /\ steps' \in Nat
    BY <1>1, RestTyped DEF IInv
  <2>5. amm_config' \in Config /\ fees' \in [FeeKinds -> [Sides -> Nat]] /\ open' \in BOOLEAN
    BY <1>1 DEF IInv, TypeOK
  <2> QED BY <2>1, <2>2, <2>3, <2>4, <2>5 DEF TypeOK
<1>5. Solvent'
  BY <1>2, <1>3 DEF Solvent, IInv
<1>6. NoFeesBefore' /\ pool'.lp_supply = supply + amount
  BY <1>1 DEF NoFeesBefore, IInv, TypeOK
<1>7. ASSUME NEW i \in Sides
      PROVE  Reserve(i)' * supply >= Reserve(i) * pool'.lp_supply
  <2>1. Reserve(i)' * supply = Reserve(i) * supply + paid[i] * supply
    BY <1>1, <1>2, <1>3
  <2>2. Reserve(i) * pool'.lp_supply = Reserve(i) * supply + amount * Reserve(i)
    BY <1>1, <1>2, <1>6
  <2>3. /\ Reserve(i) * supply \in Nat /\ paid[i] * supply \in Nat
        /\ amount * Reserve(i) \in Nat /\ paid[i] * supply >= amount * Reserve(i)
    BY <1>1, <1>2
  <2> QED BY <2>1, <2>2, <2>3
<1>8. ShareKept
  BY <1>1, <1>6, <1>7 DEF ShareKept
<1> QED BY <1>4, <1>5, <1>6, <1>8 DEF Kept, IInv

LEMMA WithdrawKept ==
  ASSUME IInv, NEW w \in Wallets, NEW amount \in Amounts, NEW minimum \in Minimums,
         Withdraw(w, amount, minimum)
  PROVE  Kept
<1> DEFINE taken == [i \in Sides |-> WithdrawAmount(amount, Reserve(i))]
           supply == pool.lp_supply
<1>1. /\ amount \in Nat \ {0} /\ supply \in Nat /\ amount <= supply
      /\ lp \in [Wallets -> Nat] /\ lp[w] >= amount /\ pool.created
      /\ vault' = [i \in Sides |-> vault[i] - taken[i]]
      /\ pool' = [pool EXCEPT !.lp_supply = @ - amount]
      /\ lp' = [lp EXCEPT ![w] = @ - amount]
      /\ Step
      /\ UNCHANGED <<amm_config, fees, open, referralVars>>
  BY CpmmAssumption DEF Withdraw, Allowed, IInv, TypeOK
<1>2. ASSUME NEW i \in Sides
      PROVE  /\ Reserve(i) \in Nat /\ vault[i] \in Nat /\ FeesOf(i) \in Nat
             /\ Reserve(i) = vault[i] - FeesOf(i)
             /\ taken[i] \in Nat /\ taken[i] <= Reserve(i)
             /\ taken[i] * supply <= amount * Reserve(i)
  <2>1. /\ Reserve(i) \in Nat /\ vault[i] \in Nat /\ FeesOf(i) \in Nat
        /\ Reserve(i) = vault[i] - FeesOf(i)
    BY ReserveNat DEF IInv
  <2>2. amount * Reserve(i) \in Nat /\ supply \in Nat \ {0}
    BY <1>1, <2>1
  <2>3. taken[i] = (amount * Reserve(i)) \div supply
    BY DEF WithdrawAmount
  <2> HIDE DEF taken, supply
  <2>4. taken[i] \in Nat /\ taken[i] <= Reserve(i)
    BY <1>1, <2>1, <2>2, <2>3, ShareBelow
  <2>5. supply * taken[i] <= amount * Reserve(i)
    BY <2>2, <2>3, DivBelow
  <2>6. taken[i] * supply = supply * taken[i]
    BY <2>2, <2>4
  <2> QED BY <2>1, <2>4, <2>5, <2>6
<1> HIDE DEF taken
<1>3. ASSUME NEW i \in Sides
      PROVE  /\ vault'[i] = vault[i] - taken[i] /\ FeesOf(i)' = FeesOf(i)
             /\ Reserve(i)' = Reserve(i) - taken[i]
  <2>1. vault'[i] = vault[i] - taken[i] /\ FeesOf(i)' = FeesOf(i)
    BY <1>1 DEF FeesOf
  <2> QED BY <2>1, <1>2 DEF Reserve
<1>4. TypeOK'
  <2>1. vault' \in [Sides -> Nat]
    <3>1. \A i \in Sides : vault[i] - taken[i] \in Nat
      BY <1>2
    <3> QED BY <1>1, <3>1
  <2>2. pool' \in [created : BOOLEAN, lp_supply : Nat, creator_fee_on : FeeOns,
                   enable_creator_fee : BOOLEAN, status : SUBSET {"deposit", "withdraw", "swap"}]
    BY <1>1 DEF IInv, TypeOK
  <2>3. lp' \in [Wallets -> Nat]
    BY <1>1 DEF IInv, TypeOK
  <2>4. ReferralTypeOK' /\ steps' \in Nat
    BY <1>1, RestTyped DEF IInv
  <2>5. amm_config' \in Config /\ fees' \in [FeeKinds -> [Sides -> Nat]] /\ open' \in BOOLEAN
    BY <1>1 DEF IInv, TypeOK
  <2> QED BY <2>1, <2>2, <2>3, <2>4, <2>5 DEF TypeOK
<1>5. Solvent'
  <2>1. ASSUME NEW i \in Sides PROVE vault'[i] >= FeesOf(i)'
    BY <1>2, <1>3
  <2> QED BY <2>1 DEF Solvent
<1>6. NoFeesBefore' /\ pool'.lp_supply = supply - amount
  BY <1>1 DEF NoFeesBefore, IInv, TypeOK
<1>7. ASSUME NEW i \in Sides
      PROVE  Reserve(i)' * supply >= Reserve(i) * pool'.lp_supply
  <2>1. Reserve(i)' * supply = Reserve(i) * supply - taken[i] * supply
    BY <1>1, <1>2, <1>3
  <2>2. Reserve(i) * pool'.lp_supply = Reserve(i) * supply - amount * Reserve(i)
    BY <1>1, <1>2, <1>6
  <2>3. /\ Reserve(i) * supply \in Nat /\ taken[i] * supply \in Nat
        /\ amount * Reserve(i) \in Nat /\ taken[i] * supply <= amount * Reserve(i)
    BY <1>1, <1>2
  <2> QED BY <2>1, <2>2, <2>3
<1>8. ShareKept
  BY <1>1, <1>6, <1>7 DEF ShareKept
<1> QED BY <1>4, <1>5, <1>6, <1>8 DEF Kept, IInv

LEMMA CreatePoolKept ==
  ASSUME IInv, NEW w \in Wallets, NEW amounts \in InitAmounts, NEW fee_on \in FeeOns,
         NEW enable \in BOOLEAN, CreatePool(w, amounts, fee_on, enable)
  PROVE  Kept
<1> DEFINE liquidity == ISqrt(amounts[1] * amounts[2])
<1>1. /\ Step /\ ~pool.created
      /\ liquidity \in Nat /\ liquidity >= LockedLp
      /\ amounts[1] > 0 /\ amounts[2] > 0
      /\ pool' = [created |-> TRUE, lp_supply |-> liquidity, creator_fee_on |-> fee_on,
                  enable_creator_fee |-> enable, status |-> {}]
      /\ vault' = [i \in Sides |-> amounts[i + 1]]
      /\ lp' = [lp EXCEPT ![w] = @ + Minted(liquidity)]
      /\ UNCHANGED <<amm_config, fees, open, referralVars>>
  BY DEF CreatePool
<1> HIDE DEF liquidity
<1>2. amounts[1] \in Nat /\ amounts[2] \in Nat
  BY CpmmAssumption
<1>3. vault' \in [Sides -> Nat]
  <2>1. \A i \in Sides : amounts[i + 1] \in Nat
    BY <1>2 DEF Sides
  <2> QED BY <1>1, <2>1
<1>4. TypeOK'
  <2>1. pool' \in [created : BOOLEAN, lp_supply : Nat, creator_fee_on : FeeOns,
                   enable_creator_fee : BOOLEAN, status : SUBSET {"deposit", "withdraw", "swap"}]
    BY <1>1
  <2>2. Minted(liquidity) \in Nat
    BY <1>1, CpmmAssumption DEF Minted
  <2>3. lp' \in [Wallets -> Nat]
    BY <1>1, <2>2 DEF IInv, TypeOK
  <2>4. ReferralTypeOK' /\ steps' \in Nat
    BY <1>1, RestTyped DEF IInv
  <2>5. amm_config' \in Config /\ fees' \in [FeeKinds -> [Sides -> Nat]] /\ open' \in BOOLEAN
    BY <1>1 DEF IInv, TypeOK
  <2> QED BY <1>3, <2>1, <2>3, <2>4, <2>5 DEF TypeOK
<1>5. Solvent'
  <2>1. ASSUME NEW i \in Sides PROVE FeesOf(i)' = 0
    BY <1>1 DEF IInv, NoFeesBefore, FeesOf, FeeKinds
  <2> QED BY <1>3, <2>1 DEF Solvent
<1>6. NoFeesBefore' /\ ShareKept
  BY <1>1 DEF NoFeesBefore, ShareKept
<1> QED BY <1>4, <1>5, <1>6 DEF Kept, IInv

\* A step that leaves the supply and the reserves as they are takes nothing.
LEMMA SameReserves ==
  ASSUME IInv, pool'.lp_supply = pool.lp_supply,
         \A i \in Sides : Reserve(i)' = Reserve(i)
  PROVE  ShareKept
<1>1. Reserve(0) \in Nat /\ Reserve(1) \in Nat
      /\ Reserve(0)' = Reserve(0) /\ Reserve(1)' = Reserve(1)
  BY ReserveNat DEF IInv, Sides
<1>2. Constant(Reserve(0), Reserve(1)) \in Nat
  BY <1>1, ConstantMonotone
<1> QED BY <1>1, <1>2 DEF ShareKept

LEMMA CollectFeeKept ==
  ASSUME IInv, NEW kind \in {"protocol", "fund"}, NEW requested \in Amounts,
         CollectFee(kind, requested)
  PROVE  Kept
<1> DEFINE amount == [i \in Sides |-> Lesser(requested, fees[kind][i])]
<1>1. /\ Step /\ pool.created
      /\ \A i \in Sides : amount[i] <= vault[i]
      /\ fees' = [fees EXCEPT ![kind] = [i \in Sides |-> @[i] - amount[i]]]
      /\ vault' = [i \in Sides |-> vault[i] - amount[i]]
      /\ UNCHANGED <<amm_config, pool, lp, open, referralVars>>
  BY DEF CollectFee
<1>2. /\ kind \in FeeKinds /\ requested \in Nat
      /\ fees \in [FeeKinds -> [Sides -> Nat]] /\ vault \in [Sides -> Nat]
      /\ "protocol" \in FeeKinds /\ "fund" \in FeeKinds /\ "creator" \in FeeKinds
  BY CpmmAssumption DEF FeeKinds, IInv, TypeOK
<1>3. ASSUME NEW i \in Sides
      PROVE  amount[i] \in Nat /\ amount[i] <= fees[kind][i] /\ amount[i] <= vault[i]
  BY <1>1, <1>2 DEF Lesser
<1> HIDE DEF amount
<1>4. fees' \in [FeeKinds -> [Sides -> Nat]] /\ vault' \in [Sides -> Nat]
  <2>1. [i \in Sides |-> fees[kind][i] - amount[i]] \in [Sides -> Nat]
    BY <1>2, <1>3
  <2>2. fees' = [fees EXCEPT ![kind] = [i \in Sides |-> fees[kind][i] - amount[i]]]
    BY <1>1, <1>2
  <2>3. \A i \in Sides : vault[i] - amount[i] \in Nat
    BY <1>2, <1>3
  <2> QED BY <2>1, <2>2, <2>3, <1>1, <1>2
<1>5. ASSUME NEW i \in Sides
      PROVE  /\ vault'[i] = vault[i] - amount[i] /\ FeesOf(i)' = FeesOf(i) - amount[i]
             /\ Reserve(i)' = Reserve(i)
  <2>1. vault'[i] = vault[i] - amount[i]
    BY <1>1
  <2>2. fees'[kind][i] = fees[kind][i] - amount[i]
    BY <1>1, <1>2
  <2>3. \A k \in FeeKinds : k # kind => fees'[k] = fees[k]
    BY <1>1, <1>2
  <2>4. FeesOf(i)' = FeesOf(i) - amount[i]
    <3>1. /\ fees["protocol"][i] \in Nat /\ fees["fund"][i] \in Nat
          /\ fees["creator"][i] \in Nat /\ amount[i] \in Nat
      BY <1>2, <1>3
    <3>2. CASE kind = "protocol"
      BY <2>2, <2>3, <1>2, <3>1, <3>2 DEF FeesOf
    <3>3. CASE kind = "fund"
      BY <2>2, <2>3, <1>2, <3>1, <3>3 DEF FeesOf
    <3> QED BY <3>2, <3>3
  <2>5. Reserve(i) = vault[i] - FeesOf(i) /\ vault[i] \in Nat /\ FeesOf(i) \in Nat
    BY ReserveNat DEF IInv
  <2>6. Reserve(i)' = vault'[i] - FeesOf(i)'
    BY DEF Reserve
  <2> QED BY <1>3, <2>1, <2>4, <2>5, <2>6
<1>6. TypeOK'
  <2>1. ReferralTypeOK' /\ steps' \in Nat
    BY <1>1, RestTyped DEF IInv
  <2> QED BY <1>1, <1>4, <2>1 DEF IInv, TypeOK
<1>7. Solvent'
  <2>1. ASSUME NEW i \in Sides PROVE vault'[i] >= FeesOf(i)'
    <3>1. /\ Reserve(i) = vault[i] - FeesOf(i) /\ Reserve(i) \in Nat
          /\ vault[i] \in Nat /\ FeesOf(i) \in Nat
      BY ReserveNat DEF IInv
    <3> QED BY <1>3, <1>5, <3>1
  <2> QED BY <2>1 DEF Solvent
<1>8. NoFeesBefore' /\ ShareKept
  BY <1>1, <1>5, SameReserves DEF NoFeesBefore
<1> QED BY <1>6, <1>7, <1>8 DEF Kept, IInv

LEMMA CollectCreatorFeeKept ==
  ASSUME IInv, CollectCreatorFee
  PROVE  Kept
<1>1. /\ Step /\ pool.created
      /\ \A i \in Sides : fees["creator"][i] <= vault[i]
      /\ fees' = [fees EXCEPT !["creator"] = [i \in Sides |-> 0]]
      /\ vault' = [i \in Sides |-> vault[i] - fees["creator"][i]]
      /\ UNCHANGED <<amm_config, pool, lp, open, referralVars>>
  BY DEF CollectCreatorFee
<1>2. /\ fees \in [FeeKinds -> [Sides -> Nat]] /\ vault \in [Sides -> Nat]
      /\ "protocol" \in FeeKinds /\ "fund" \in FeeKinds /\ "creator" \in FeeKinds
  BY DEF FeeKinds, IInv, TypeOK
<1>3. fees' \in [FeeKinds -> [Sides -> Nat]] /\ vault' \in [Sides -> Nat]
  <2>1. [i \in Sides |-> 0] \in [Sides -> Nat]
    OBVIOUS
  <2>2. \A i \in Sides : vault[i] - fees["creator"][i] \in Nat
    BY <1>1, <1>2
  <2> QED BY <2>1, <2>2, <1>1, <1>2
<1>4. ASSUME NEW i \in Sides
      PROVE  /\ vault'[i] = vault[i] - fees["creator"][i]
             /\ FeesOf(i)' = FeesOf(i) - fees["creator"][i]
             /\ Reserve(i)' = Reserve(i)
             /\ vault'[i] >= FeesOf(i)'
  <2>1. vault'[i] = vault[i] - fees["creator"][i]
    BY <1>1
  <2>2. /\ fees'["creator"][i] = 0 /\ fees'["protocol"] = fees["protocol"]
        /\ fees'["fund"] = fees["fund"]
    BY <1>1, <1>2
  <2>3. /\ fees["protocol"][i] \in Nat /\ fees["fund"][i] \in Nat
        /\ fees["creator"][i] \in Nat
    BY <1>2
  <2>4. FeesOf(i)' = FeesOf(i) - fees["creator"][i]
    BY <2>2, <2>3 DEF FeesOf
  <2>5. /\ Reserve(i) = vault[i] - FeesOf(i) /\ Reserve(i) \in Nat
        /\ vault[i] \in Nat /\ FeesOf(i) \in Nat
    BY ReserveNat DEF IInv
  <2>6. Reserve(i)' = vault'[i] - FeesOf(i)'
    BY DEF Reserve
  <2> QED BY <2>1, <2>3, <2>4, <2>5, <2>6
<1>5. TypeOK'
  <2>1. ReferralTypeOK' /\ steps' \in Nat
    BY <1>1, RestTyped DEF IInv
  <2> QED BY <1>1, <1>3, <2>1 DEF IInv, TypeOK
<1>6. Solvent' /\ NoFeesBefore' /\ ShareKept
  BY <1>1, <1>4, SameReserves DEF Solvent, NoFeesBefore
<1> QED BY <1>5, <1>6 DEF Kept, IInv

\* Steps that touch neither the vaults nor the fees nor the supply.
LEMMA AsideKept ==
  ASSUME IInv, TypeOK', pool'.created = pool.created, pool'.lp_supply = pool.lp_supply,
         UNCHANGED <<fees, vault>>
  PROVE  Kept
<1>1. \A i \in Sides : Reserve(i)' = Reserve(i) /\ FeesOf(i)' = FeesOf(i)
  BY DEF Reserve, FeesOf
<1>2. Solvent' /\ NoFeesBefore'
  BY <1>1 DEF IInv, Solvent, NoFeesBefore
<1> QED BY <1>1, <1>2, SameReserves DEF Kept, IInv

LEMMA ReferralTyped ==
  ASSUME ReferralTypeOK, ReferralNext
  PROVE  ReferralTypeOK'
<1>1. ASSUME NEW w \in Wallets, NEW amount \in 1..MaxMinted, MintNft(w, amount)
      PROVE  ReferralTypeOK'
  <2>1. amount \in Nat
    BY ReferralAssumption
  <2>2. counters' \in [Wallets -> [exists : BOOLEAN, total_mint : Nat, remain_mint : Nat]]
    <3> DEFINE c == [exists      |-> TRUE,
                     total_mint  |-> counters[w].total_mint + amount,
                     remain_mint |-> counters[w].remain_mint + amount]
    <3>1. counters[w] \in [exists : BOOLEAN, total_mint : Nat, remain_mint : Nat]
      BY DEF ReferralTypeOK
    <3>2. c \in [exists : BOOLEAN, total_mint : Nat, remain_mint : Nat]
      BY <2>1, <3>1
    <3>3. counters' = [counters EXCEPT ![w] = c]
      BY <1>1 DEF MintNft
    <3> HIDE DEF c
    <3> QED BY <3>2, <3>3 DEF ReferralTypeOK
  <2>3. nft_pool' \in [Mints -> [Wallets -> Nat]]
    BY <1>1, <2>1 DEF MintNft, ReferralTypeOK
  <2> QED BY <1>1, <2>2, <2>3 DEF MintNft, ReferralTypeOK
<1>2. ASSUME NEW w \in Wallets, NEW u \in Wallets, ClaimNft(w, u)
      PROVE  ReferralTypeOK'
  <2>1. counters' \in [Wallets -> [exists : BOOLEAN, total_mint : Nat, remain_mint : Nat]]
    <3> DEFINE c == [counters[u] EXCEPT !.remain_mint = @ - 1]
    <3>1. counters[u] \in [exists : BOOLEAN, total_mint : Nat, remain_mint : Nat]
          /\ counters[u].remain_mint > 0
      BY <1>2 DEF ReferralTypeOK, ClaimNft
    <3>2. c \in [exists : BOOLEAN, total_mint : Nat, remain_mint : Nat]
      BY <3>1
    <3>3. counters' = [counters EXCEPT ![u] = c]
      BY <1>2 DEF ClaimNft, ReferralTypeOK
    <3> HIDE DEF c
    <3> QED BY <3>2, <3>3 DEF ReferralTypeOK
  <2>2. nft_pool' \in [Mints -> [Wallets -> Nat]]
    BY <1>2 DEF ClaimNft, ReferralTypeOK
  <2>3. held' \in [Mints -> [Wallets -> Nat]]
    BY <1>2 DEF ClaimNft, ReferralTypeOK
  <2> QED BY <1>2, <2>1, <2>2, <2>3 DEF ClaimNft, ReferralTypeOK
<1>3. ASSUME NEW m \in Mints, UpdateNftMint(m)
      PROVE  ReferralTypeOK'
  BY <1>3 DEF UpdateNftMint, ReferralTypeOK
<1> QED BY <1>1, <1>2, <1>3 DEF ReferralNext

-----------------------------------------------------------------------------
(* The theorems                                                            *)

LEMMA InitInv == Init => IInv
<1> SUFFICES ASSUME Init PROVE IInv
  OBVIOUS
<1>1. ReferralTypeOK
  BY ReferralAssumption DEF Init, ReferralInit, ReferralTypeOK, NoCounter
<1>2. TypeOK
  BY <1>1, CpmmAssumption DEF Init, TypeOK, NoPool, FeeOns
<1>3. Solvent
  <2>1. ASSUME NEW i \in Sides PROVE vault[i] = 0 /\ FeesOf(i) = 0
    BY DEF Init, FeesOf, FeeKinds
  <2> QED BY <2>1 DEF Solvent
<1>4. NoFeesBefore
  BY DEF Init, NoFeesBefore
<1> QED BY <1>2, <1>3, <1>4 DEF IInv

\* Every step keeps the invariant and takes nothing from the holders.
LEMMA StepKept == IInv /\ [Next]_vars => Kept
<1> SUFFICES ASSUME IInv, [Next]_vars PROVE Kept
  OBVIOUS
<1>1. ASSUME NEW w \in Wallets, NEW amounts \in InitAmounts, Initialize(w, amounts)
      PROVE  Kept
  BY <1>1, CreatePoolKept DEF Initialize, FeeOns
<1>2. ASSUME NEW w \in Wallets, NEW amounts \in InitAmounts, NEW fee_on \in FeeOns,
             InitializeWithPermission(w, amounts, fee_on)
      PROVE  Kept
  BY <1>2, CreatePoolKept DEF InitializeWithPermission
<1>3. CASE Open
  <2>1. TypeOK'
    BY <1>3 DEF Open, IInv, TypeOK, referralVars, ReferralTypeOK
  <2> QED BY <1>3, <2>1, AsideKept DEF Open
<1>4. ASSUME NEW kind \in {"protocol", "fund"}, NEW amount \in Amounts,
             CollectFee(kind, amount)
      PROVE  Kept
  BY <1>4, CollectFeeKept
<1>5. CASE CollectCreatorFee
  BY <1>5, CollectCreatorFeeKept
<1>6. ASSUME NEW status \in Statuses, UpdatePoolStatus(status)
      PROVE  Kept
  <2>1. TypeOK'
    <3>1. ReferralTypeOK' /\ steps' \in Nat
      BY <1>6, RestTyped DEF IInv, UpdatePoolStatus
    <3>2. pool' \in [created : BOOLEAN, lp_supply : Nat, creator_fee_on : FeeOns,
                     enable_creator_fee : BOOLEAN, status : SUBSET {"deposit", "withdraw", "swap"}]
      BY <1>6, CpmmAssumption DEF UpdatePoolStatus, IInv, TypeOK
    <3> QED BY <1>6, <3>1, <3>2 DEF UpdatePoolStatus, IInv, TypeOK
  <2>2. pool'.created = pool.created /\ pool'.lp_supply = pool.lp_supply
    BY <1>6 DEF UpdatePoolStatus, IInv, TypeOK
  <2> QED BY <1>6, <2>1, <2>2, AsideKept DEF UpdatePoolStatus
<1>7. ASSUME NEW config \in Configs, UpdateAmmConfig(config)
      PROVE  Kept
  <2>1. TypeOK'
    <3>1. ReferralTypeOK' /\ steps' \in Nat
      BY <1>7, RestTyped DEF IInv, UpdateAmmConfig
    <3> QED BY <1>7, <3>1, CpmmAssumption DEF UpdateAmmConfig, IInv, TypeOK
  <2> QED BY <1>7, <2>1, AsideKept DEF UpdateAmmConfig
<1>8. CASE ReferralStep
  <2>1. TypeOK'
    <3>1. ReferralTypeOK'
      BY <1>8, ReferralTyped DEF ReferralStep, IInv, TypeOK
    <3>2. steps' \in Nat
      BY <1>8 DEF ReferralStep, Step, IInv, TypeOK
    <3> QED BY <1>8, <3>1, <3>2 DEF ReferralStep, IInv, TypeOK
  <2> QED BY <1>8, <2>1, AsideKept DEF ReferralStep
<1>9. CASE UNCHANGED vars
  <2>1. TypeOK'
    BY <1>9 DEF vars, poolVars, referralVars, IInv, TypeOK, ReferralTypeOK
  <2> QED BY <1>9, <2>1, AsideKept DEF vars, poolVars
<1> HIDE DEF IInv, Kept
<1> QED BY <1>1, <1>2, <1>3, <1>4, <1>5, <1>6, <1>7, <1>8, <1>9, DepositKept, WithdrawKept,
           SwapBaseInputKept, SwapBaseOutputKept DEF Next

LEMMA InvHolds == Spec => []IInv
<1>1. IInv /\ [Next]_vars => IInv'
  BY StepKept DEF Kept
<1> QED BY InitInv, <1>1, PTL DEF Spec

\* The pool's accounts keep their types: no amount ever falls below zero,
\* whatever the rates and amounts (all of the `checked_sub' of cpmm).
THEOREM PoolTyped == Spec => []TypeOK
<1>1. IInv => TypeOK
  BY DEF IInv
<1> QED BY InvHolds, <1>1, PTL

\* What the pool owes in fees is always in its vaults (pool.rs:205).
THEOREM PoolSolvent == Spec => []Solvent
<1>1. IInv => Solvent
  BY DEF IInv
<1> QED BY InvHolds, <1>1, PTL

\* No instruction takes value from the other holders of LP tokens: the
\* roundings of deposit.rs, withdraw.rs and the swaps all favour the pool.
THEOREM SharesKept == Spec => ShareNeverFalls
<1>1. IInv /\ [Next]_vars => [ShareKept]_vars
  BY StepKept DEF Kept
<1> QED BY InvHolds, <1>1, PTL DEF Spec, ShareNeverFalls

-----------------------------------------------------------------------------
(* The claims of the referral program                                      *)

\* The NFTs in the pools of w, of whatever mint.
InPools(w) == SumFunction([m \in Mints |-> nft_pool[m][w]])

\* Pools of one mint more, or less, are that much more, or less, in all.
LEMMA PoolsChange ==
  ASSUME ReferralTypeOK, ReferralTypeOK', NEW u \in Wallets, NEW m \in Mints, NEW d \in Int,
         nft_pool' = [nft_pool EXCEPT ![m][u] = @ + d]
  PROVE  \A w \in Wallets : InPools(w)' = InPools(w) + (IF w = u THEN d ELSE 0)
<1> SUFFICES ASSUME NEW w \in Wallets
             PROVE  InPools(w)' = InPools(w) + (IF w = u THEN d ELSE 0)
  OBVIOUS
<1> DEFINE f == [n \in Mints |-> nft_pool[n][w]]
           g == [n \in Mints |-> nft_pool'[n][w]]
<1>1. IsFiniteSet(Mints) /\ DOMAIN f = Mints /\ DOMAIN g = Mints
  BY ReferralAssumption
<1>2. \A n \in Mints : f[n] \in Int /\ g[n] \in Int
  BY DEF ReferralTypeOK
<1>3. \A n \in Mints \ {m} : g[n] = f[n]
  BY DEF ReferralTypeOK
<1>4. g[m] - f[m] = IF w = u THEN d ELSE 0
  BY <1>2 DEF ReferralTypeOK
<1>5. InPools(w) = SumFunctionOnSet(f, Mints) /\ InPools(w)' = SumFunctionOnSet(g, Mints)
  BY <1>1 DEF InPools, SumFunction
<1> HIDE DEF f, g
<1>6. SumFunctionOnSet(g, Mints) = SumFunctionOnSet(f, Mints) + (g[m] - f[m])
  BY <1>1, <1>2, <1>3, SumChange
<1> QED
  BY <1>4, <1>5, <1>6

LEMMA PoolsTyped == ReferralTypeOK => \A w \in Wallets : InPools(w) \in Nat
<1> SUFFICES ASSUME ReferralTypeOK, NEW w \in Wallets PROVE InPools(w) \in Nat
  OBVIOUS
<1> DEFINE f == [n \in Mints |-> nft_pool[n][w]]
<1>1. IsFiniteSet(Mints) /\ DOMAIN f = Mints /\ \A n \in Mints : f[n] \in Nat
  BY ReferralAssumption DEF ReferralTypeOK
<1>2. InPools(w) = SumFunctionOnSet(f, Mints)
  BY <1>1 DEF InPools, SumFunction
<1> HIDE DEF f
<1> QED
  BY <1>1, <1>2, SumNatural

\* They can be claimed, or are stranded.
LEMMA PoolsSplit ==
  ASSUME ReferralTypeOK, NEW w \in Wallets
  PROVE  InPools(w) = Claimable(w) + Stranded(w)
<1> DEFINE f == [m \in Mints |-> nft_pool[m][w]]
           g == [m \in Mints |-> IF m = nft_mint THEN 0 ELSE nft_pool[m][w]]
<1>1. IsFiniteSet(Mints) /\ DOMAIN f = Mints /\ DOMAIN g = Mints /\ nft_mint \in Mints
  BY ReferralAssumption DEF ReferralTypeOK
<1>2. \A m \in Mints : f[m] \in Nat /\ g[m] \in Nat
  BY DEF ReferralTypeOK
<1>3. \A m \in Mints \ {nft_mint} : g[m] = f[m]
  OBVIOUS
<1>4. g[nft_mint] = 0 /\ f[nft_mint] = Claimable(w)
  BY <1>1 DEF Claimable
<1>5. InPools(w) = SumFunctionOnSet(f, Mints) /\ Stranded(w) = SumFunctionOnSet(g, Mints)
  BY <1>1 DEF InPools, Stranded, SumFunction
<1> HIDE DEF f, g
<1>6. \A m \in Mints : f[m] \in Int /\ g[m] \in Int
  BY <1>2
<1>7. SumFunctionOnSet(g, Mints) = SumFunctionOnSet(f, Mints) + (g[nft_mint] - f[nft_mint])
  BY <1>1, <1>3, <1>6, SumChange
<1>8. SumFunctionOnSet(f, Mints) \in Nat /\ f[nft_mint] \in Nat
  BY <1>1, <1>2, SumNatural
<1> QED
  BY <1>4, <1>5, <1>7, <1>8

\* So the accounts of the claims are about all that lies in the pools.
Accounted ==
  \A w \in Wallets :
    /\ counters[w].total_mint = counters[w].remain_mint + Cardinality(Lowers(w))
    /\ counters[w].remain_mint = InPools(w)

LEMMA ClaimsInPools == ReferralTypeOK => (ClaimsAccounted <=> Accounted)
BY PoolsSplit DEF ClaimsAccounted, Accounted

\* Whoever claims becomes one more lower of the wallet claimed from.
LEMMA OneMoreLower ==
  ASSUME ReferralTypeOK, NEW w \in Wallets, NEW u \in Wallets, upper[w] = None,
         upper' = [upper EXCEPT ![w] = u]
  PROVE  \A v \in Wallets :
           /\ Cardinality(Lowers(v)) \in Nat
           /\ Cardinality(Lowers(v))' = Cardinality(Lowers(v)) + (IF v = u THEN 1 ELSE 0)
<1> SUFFICES ASSUME NEW v \in Wallets
             PROVE  /\ Cardinality(Lowers(v)) \in Nat
                    /\ Cardinality(Lowers(v))' = Cardinality(Lowers(v)) + (IF v = u THEN 1 ELSE 0)
  OBVIOUS
<1>1. IsFiniteSet(Lowers(v))
  BY ReferralAssumption, FS_Subset DEF Lowers
<1>2. CASE v = u
  <2>1. Lowers(v)' = Lowers(v) \cup {w} /\ w \notin Lowers(v)
    BY <1>2, ReferralAssumption DEF Lowers, ReferralTypeOK
  <2> QED
    BY <1>1, <1>2, <2>1, FS_AddElement, FS_CardinalityType
<1>3. CASE v # u
  <2>1. Lowers(v)' = Lowers(v)
    BY <1>3, ReferralAssumption DEF Lowers, ReferralTypeOK
  <2> QED
    BY <1>1, <1>3, <2>1, FS_CardinalityType
<1> QED
  BY <1>2, <1>3

\* A mint adds as much to the counters as to a pool, and a claim takes from
\* both what it adds to the lowers.
LEMMA ClaimsStep ==
  ASSUME ReferralTypeOK, ReferralTypeOK', ClaimsAccounted, ReferralNext
  PROVE  ClaimsAccounted'
<1> DEFINE Same(w) == /\ counters[w].total_mint = counters[w].remain_mint + Cardinality(Lowers(w))
                      /\ counters[w].remain_mint = InPools(w)
<1>1. \A w \in Wallets : Same(w)
  BY ClaimsInPools DEF Accounted
<1>2. SUFFICES ASSUME NEW v \in Wallets PROVE Same(v)'
  <2>1. ASSUME \A v \in Wallets : Same(v)' PROVE ClaimsAccounted'
    <3>1. ReferralTypeOK' => (ClaimsAccounted' <=> Accounted')
      BY ClaimsInPools, PTL
    <3> QED
      BY <2>1, <3>1 DEF Accounted
  <2> QED
    BY <2>1
<1>3. /\ counters[v] \in [exists : BOOLEAN, total_mint : Nat, remain_mint : Nat]
      /\ InPools(v) \in Nat /\ Cardinality(Lowers(v)) \in Nat
  <2>1. IsFiniteSet(Lowers(v))
    BY ReferralAssumption, FS_Subset DEF Lowers
  <2> QED
    BY <2>1, PoolsTyped, FS_CardinalityType DEF ReferralTypeOK
<1>4. ASSUME NEW w \in Wallets, NEW amount \in 1..MaxMinted, MintNft(w, amount) PROVE Same(v)'
  <2>1. amount \in Int /\ nft_mint \in Mints
    BY ReferralAssumption DEF ReferralTypeOK
  <2>2. InPools(v)' = InPools(v) + (IF v = w THEN amount ELSE 0)
    BY <1>4, <2>1, PoolsChange DEF MintNft
  <2>3. /\ counters'[v].total_mint = counters[v].total_mint + (IF v = w THEN amount ELSE 0)
        /\ counters'[v].remain_mint = counters[v].remain_mint + (IF v = w THEN amount ELSE 0)
    BY <1>3, <1>4, <2>1 DEF MintNft, ReferralTypeOK
  <2>4. Lowers(v)' = Lowers(v)
    BY <1>4 DEF MintNft, Lowers
  <2> QED
    BY <1>1, <1>3, <2>1, <2>2, <2>3, <2>4
<1>5. ASSUME NEW w \in Wallets, NEW u \in Wallets, ClaimNft(w, u) PROVE Same(v)'
  <2>1. nft_mint \in Mints
    BY DEF ReferralTypeOK
  <2>2. nft_pool' = [nft_pool EXCEPT ![nft_mint][u] = @ + (-1)]
    BY <1>5, <2>1 DEF ClaimNft, ReferralTypeOK
  <2>3. InPools(v)' = InPools(v) + (IF v = u THEN -1 ELSE 0)
    <3>1. -1 \in Int
      OBVIOUS
    <3> QED
      BY <2>1, <2>2, <3>1, PoolsChange
  <2>4. /\ counters'[v].total_mint = counters[v].total_mint
        /\ counters'[v].remain_mint = counters[v].remain_mint + (IF v = u THEN -1 ELSE 0)
    BY <1>3, <1>5 DEF ClaimNft, ReferralTypeOK
  <2>5. Cardinality(Lowers(v))' = Cardinality(Lowers(v)) + (IF v = u THEN 1 ELSE 0)
    BY <1>5, OneMoreLower DEF ClaimNft
  <2> QED
    BY <1>1, <1>3, <2>3, <2>4, <2>5
<1>6. ASSUME NEW m \in Mints, UpdateNftMint(m) PROVE Same(v)'
  BY <1>1, <1>6 DEF UpdateNftMint, Lowers, InPools
<1> QED
  BY <1>4, <1>5, <1>6 DEF ReferralNext

\* What a wallet minted and has not given away lies in its pools, whichever
\* mint it was minted under; what a claim can reach of it is what is not
\* stranded under an earlier official mint (claim_nft takes one off the
\* counter and the pool of the mint of now, update_nft_mint none).
THEOREM ClaimsHold == Spec => []ClaimsAccounted
<1>1. Init => ClaimsAccounted
  <2> SUFFICES ASSUME Init, NEW w \in Wallets
               PROVE  /\ counters[w].total_mint = counters[w].remain_mint + Cardinality(Lowers(w))
                      /\ counters[w].remain_mint = InPools(w)
    <3>1. Init => ReferralTypeOK
      BY InitInv DEF IInv, TypeOK
    <3> QED BY <3>1, ClaimsInPools DEF Accounted
  <2> DEFINE f == [m \in Mints |-> nft_pool[m][w]]
  <2>1. counters[w].total_mint = 0 /\ counters[w].remain_mint = 0
    BY DEF Init, ReferralInit, NoCounter
  <2>2. Lowers(w) = {}
    BY ReferralAssumption DEF Init, ReferralInit, Lowers
  <2>3. InPools(w) = 0
    <3>1. IsFiniteSet(Mints) /\ DOMAIN f = Mints /\ \A m \in Mints : f[m] = 0
      BY ReferralAssumption DEF Init, ReferralInit
    <3>2. InPools(w) = SumFunctionOnSet(f, Mints)
      BY <3>1 DEF InPools, SumFunction
    <3> HIDE DEF f
    <3> QED
      BY <3>1, <3>2, SumZero
  <2> QED
    BY <2>1, <2>2, <2>3, FS_EmptySet
<1>2. IInv /\ IInv' /\ ClaimsAccounted /\ [Next]_vars => ClaimsAccounted'
  <2> SUFFICES ASSUME IInv, IInv', ClaimsAccounted, [Next]_vars PROVE ClaimsAccounted'
    OBVIOUS
  <2>1. ReferralTypeOK /\ ReferralTypeOK'
    BY DEF IInv, TypeOK
  <2>2. CASE ReferralNext
    BY <2>1, <2>2, ClaimsStep
  <2>3. CASE UNCHANGED referralVars
    BY <2>3 DEF referralVars, ClaimsAccounted, Lowers, Claimable, Stranded
  <2>4. ReferralNext \/ UNCHANGED referralVars
    BY DEF Next, vars, Initialize, InitializeWithPermission, CreatePool, Open, Deposit, Withdraw,
           SwapBaseInput, SwapBaseOutput, CollectFee, CollectCreatorFee, UpdatePoolStatus,
           UpdateAmmConfig, ReferralStep
  <2> QED
    BY <2>2, <2>3, <2>4
<1> QED
  BY InvHolds, <1>1, <1>2, PTL DEF Spec

-----------------------------------------------------------------------------
(* The fourth root                                                         *)

\* The two searches of Root4 for the root of v, as equations.
IsHigh(v, high) == high = [h \in Nat |-> IF Pow4(h) > v THEN h ELSE high[2 * h]]

Searched(v, search, lo, hi) ==
  LET mid == lo + ((hi - lo) \div 2)
  IN  IF lo >= hi THEN lo
      ELSE IF Pow4(mid) >= v THEN search[<<lo, mid>>] ELSE search[<<mid + 1, hi>>]

IsSearch(v, search) ==
  search = [b \in Nat \X Nat |-> Searched(v, search, b[1], b[2])]

\* The numbers n comes to by doubling.
Doubled(n) ==
  {m \in Nat : \A S \in SUBSET Nat : n \in S /\ (\A x \in S : 2 * x \in S) => m \in S}

LEMMA DoubledIs ==
  ASSUME NEW n \in Nat
  PROVE  Doubled(n) = {n} \cup Doubled(2 * n) /\ \A m \in Doubled(n) : n <= m
<1>1. n \in Doubled(n)
  BY DEF Doubled
<1>2. ASSUME NEW m \in Doubled(2 * n) PROVE m \in Doubled(n)
  BY <1>2 DEF Doubled
<1>3. ASSUME NEW m \in Doubled(n), m # n PROVE m \in Doubled(2 * n)
  <2> SUFFICES ASSUME NEW S \in SUBSET Nat, 2 * n \in S, \A x \in S : 2 * x \in S
               PROVE  m \in S
    BY DEF Doubled
  <2> DEFINE U == {n} \cup S
  <2>1. U \in SUBSET Nat /\ n \in U /\ \A x \in U : 2 * x \in U
    OBVIOUS
  <2>2. m \in U
    BY <2>1 DEF Doubled
  <2> QED
    BY <1>3, <2>2
<1>4. ASSUME NEW m \in Doubled(n) PROVE n <= m
  <2> DEFINE U == {x \in Nat : n <= x}
  <2>1. U \in SUBSET Nat /\ n \in U /\ \A x \in U : 2 * x \in U
    OBVIOUS
  <2>2. m \in U
    BY <2>1 DEF Doubled
  <2> QED
    BY <2>2
<1> QED
  BY <1>1, <1>2, <1>3, <1>4

LEMMA HighExists ==
  ASSUME NEW v \in Nat
  PROVE  \E high : IsHigh(v, high)
<1> DEFINE A(n) == {m \in Doubled(n) : Pow4(m) > v}
           g == [n \in Nat |-> Min(A(n))]
<1>1. ASSUME NEW n \in Nat PROVE g[n] = IF Pow4(n) > v THEN n ELSE g[2 * n]
  <2>1. 2 * n \in Nat /\ A(n) \in SUBSET Nat
    BY DEF Doubled
  <2>2. CASE Pow4(n) > v
    <3>1. n \in A(n) /\ \A m \in A(n) : n <= m
      BY <2>2, DoubledIs
    <3>2. Min(A(n)) = n
      BY <2>1, <3>1, LeastIs
    <3> QED
      BY <2>2, <3>2
  <2>3. CASE ~(Pow4(n) > v)
    <3>1. A(n) = A(2 * n)
      BY <2>3, DoubledIs
    <3> QED
      BY <2>1, <2>3, <3>1
  <2> QED
    BY <2>2, <2>3
<1>2. IsHigh(v, g)
  <2> HIDE DEF g
  <2>1. g = [n \in Nat |-> g[n]]
    BY DEF g
  <2> QED
    BY <1>1, <2>1 DEF IsHigh
<1> QED
  BY <1>2

\* The middle of two bounds.
LEMMA Middle ==
  ASSUME NEW lo \in Nat, NEW hi \in Nat, lo < hi
  PROVE  LET mid == lo + ((hi - lo) \div 2)
         IN  mid \in Nat /\ lo <= mid /\ mid < hi
OBVIOUS

LEMMA SearchExists ==
  ASSUME NEW v \in Nat
  PROVE  \E search : IsSearch(v, search)
<1> DEFINE A(lo, hi) == {r \in Nat : r >= lo /\ (r >= hi \/ Pow4(r) >= v)}
           g == [b \in Nat \X Nat |-> Min(A(b[1], b[2]))]
<1>1. ASSUME NEW lo \in Nat, NEW hi \in Nat
      PROVE  g[<<lo, hi>>] = Searched(v, g, lo, hi)
  <2> DEFINE mid == lo + ((hi - lo) \div 2)
  <2>1. \A i, j \in Nat : g[<<i, j>>] = Min(A(i, j)) /\ A(i, j) \in SUBSET Nat
    OBVIOUS
  <2> HIDE DEF g
  <2>2. CASE lo >= hi
    <3>1. lo \in A(lo, hi) /\ \A r \in A(lo, hi) : lo <= r
      BY <2>2
    <3>2. Min(A(lo, hi)) = lo
      BY <2>1, <3>1, LeastIs
    <3> QED
      BY <2>1, <2>2, <3>2 DEF Searched
  <2>3. CASE lo < hi
    <3>1. mid \in Nat /\ lo <= mid /\ mid < hi /\ mid + 1 \in Nat
      BY <2>3, Middle
    <3>0. ~(lo >= hi)
      BY <2>3
    <3> HIDE DEF mid
    <3>2. CASE Pow4(mid) >= v
      <4>1. mid \in A(lo, mid) /\ mid \in A(lo, hi)
        BY <3>1, <3>2
      <4>2. PICK x \in A(lo, mid) : \A r \in A(lo, mid) : x <= r
        BY <2>1, <3>1, <4>1, LeastExists
      <4>3. x \in A(lo, hi)
        <5>1. x \in Nat /\ x <= mid /\ x >= lo /\ (x >= mid \/ Pow4(x) >= v)
          BY <4>1, <4>2
        <5>2. x = mid \/ Pow4(x) >= v
          BY <3>1, <5>1
        <5> QED
          BY <3>2, <5>1, <5>2
      <4>4. ASSUME NEW r \in A(lo, hi) PROVE x <= r
        <5>1. CASE r <= mid
          <6>1. r \in A(lo, mid)
            BY <3>1, <5>1
          <6> QED
            BY <4>2, <6>1
        <5>2. CASE r > mid
          <6>1. x <= mid
            BY <4>1, <4>2
          <6> QED
            BY <3>1, <5>2, <6>1
        <5> QED
          BY <3>1, <5>1, <5>2
      <4>5. Min(A(lo, mid)) = x
        BY <2>1, <3>1, <4>2, LeastIs
      <4>6. Min(A(lo, hi)) = x
        BY <2>1, <4>3, <4>4, LeastIs
      <4>7. Searched(v, g, lo, hi) = g[<<lo, mid>>]
        BY <3>0, <3>2 DEF Searched, mid
      <4> QED
        BY <2>1, <3>1, <4>5, <4>6, <4>7
    <3>3. CASE ~(Pow4(mid) >= v)
      <4>1. ASSUME NEW r \in Nat, r <= mid PROVE ~(Pow4(r) >= v)
        <5>1. Pow4(r) \in Nat /\ Pow4(mid) \in Nat /\ Pow4(r) <= Pow4(mid)
          BY <3>1, <4>1, Pow4Monotone
        <5> QED
          BY <3>3, <5>1
      <4>2. A(lo, hi) = A(mid + 1, hi)
        <5>1. ASSUME NEW r \in A(lo, hi) PROVE r \in A(mid + 1, hi)
          <6>1. ~(r <= mid)
            BY <3>1, <4>1
          <6> QED
            BY <3>1, <6>1
        <5>2. ASSUME NEW r \in A(mid + 1, hi) PROVE r \in A(lo, hi)
          BY <3>1
        <5> QED
          BY <5>1, <5>2
      <4>3. Searched(v, g, lo, hi) = g[<<mid + 1, hi>>]
        BY <3>0, <3>3 DEF Searched, mid
      <4> QED
        BY <2>1, <3>1, <4>2, <4>3
    <3> QED
      BY <3>2, <3>3
  <2> QED
    BY <2>2, <2>3
<1>2. IsSearch(v, g)
  <2>1. g = [b \in Nat \X Nat |-> g[b]]
    OBVIOUS
  <2> HIDE DEF g
  <2>2. ASSUME NEW b \in Nat \X Nat PROVE g[b] = Searched(v, g, b[1], b[2])
    <3>1. b = <<b[1], b[2]>> /\ b[1] \in Nat /\ b[2] \in Nat
      OBVIOUS
    <3>2. g[<<b[1], b[2]>>] = Searched(v, g, b[1], b[2])
      BY <1>1, <3>1
    <3> QED
      BY <3>1, <3>2
  <2> QED
    BY <2>1, <2>2 DEF IsSearch
<1> QED
  BY <1>2

\* Doubling stops at a power above v.
LEMMA HighIs ==
  ASSUME NEW v \in Nat, NEW high, IsHigh(v, high)
  PROVE  \A n \in Nat \ {0} : high[n] \in Nat \ {0} /\ Pow4(high[n]) > v
<1> DEFINE Good(n) == high[n] \in Nat \ {0} /\ Pow4(high[n]) > v
           Bad == {n \in 1..v : ~Good(n)}
<1>0. ASSUME NEW n \in Nat PROVE high[n] = IF Pow4(n) > v THEN n ELSE high[2 * n]
  BY DEF IsHigh
<1>1. ASSUME NEW n \in Nat, n > v PROVE Good(n)
  <2>1. Pow4(n) >= n
    <3>1. n * n >= n /\ n * n \in Nat
      BY <1>1
    <3>2. (n * n) * (n * n) >= n * n
      BY <3>1
    <3> QED
      BY <3>1, <3>2 DEF Pow4
  <2>2. Pow4(n) \in Nat
    BY Pow4Monotone
  <2>3. Pow4(n) > v
    BY <1>1, <2>1, <2>2
  <2> QED
    BY <1>0, <1>1, <2>3
<1>2. Bad = {}
  <2> SUFFICES ASSUME Bad # {} PROVE FALSE
    OBVIOUS
  <2>1. IsFiniteSet(Bad) /\ Bad \subseteq Int
    BY FS_Interval, FS_Subset
  <2>2. Max(Bad) \in Bad /\ \A y \in Bad : y <= Max(Bad)
    BY <2>1, MaxIn
  <2> DEFINE n == Max(Bad)
  <2>3. n \in 1..v /\ ~Good(n) /\ \A y \in Bad : y <= n
    BY <2>2
  <2> HIDE DEF n
  <2>4. 2 * n \notin Bad /\ 2 * n \in Nat /\ 2 * n > 0
    BY <2>3
  <2> HIDE DEF Good
  <2>5. Good(2 * n)
    BY <1>1, <2>4
  <2>6. CASE Pow4(n) > v
    BY <1>0, <2>3, <2>6 DEF Good
  <2>7. CASE ~(Pow4(n) > v)
    <3>1. high[n] = high[2 * n]
      BY <1>0, <2>3, <2>7
    <3> QED
      BY <2>3, <2>5, <3>1 DEF Good
  <2> QED
    BY <2>6, <2>7
<1> SUFFICES ASSUME NEW n \in Nat \ {0} PROVE Good(n)
  OBVIOUS
<1> QED
  BY <1>1, <1>2

\* Halving keeps the fourth power of the upper bound at v or above.
LEMMA SearchIs ==
  ASSUME NEW v \in Nat, NEW search, IsSearch(v, search)
  PROVE  \A lo, hi \in Nat : lo <= hi /\ Pow4(hi) >= v =>
           search[<<lo, hi>>] \in Nat /\ Pow4(search[<<lo, hi>>]) >= v
<1> DEFINE Good(lo, hi) == search[<<lo, hi>>] \in Nat /\ Pow4(search[<<lo, hi>>]) >= v
           Bad == {d \in Nat : \E lo \in Nat : Pow4(lo + d) >= v /\ ~Good(lo, lo + d)}
<1>1. Bad = {}
  <2> SUFFICES ASSUME Bad # {} PROVE FALSE
    OBVIOUS
  <2>1. PICK d \in Bad : \A e \in Bad : d <= e
    BY LeastExists
  <2>2. PICK lo \in Nat : Pow4(lo + d) >= v /\ ~Good(lo, lo + d)
    OBVIOUS
  <2> DEFINE hi == lo + d
             mid == lo + ((hi - lo) \div 2)
  <2>3. hi \in Nat /\ lo <= hi /\ d = hi - lo /\ d \in Nat
    OBVIOUS
  <2>4. search[<<lo, hi>>] = Searched(v, search, lo, hi)
    BY <2>3 DEF IsSearch
  <2>5. Pow4(hi) >= v /\ ~Good(lo, hi)
    BY <2>2
  <2>0. \A e \in Bad : d <= e
    BY <2>1
  <2>6. ASSUME NEW i \in Nat, NEW j \in Nat, i <= j, j - i < d, Pow4(j) >= v PROVE Good(i, j)
    <3>1. j - i \in Nat /\ i + (j - i) = j
      BY <2>6
    <3> DEFINE e == j - i
    <3> HIDE DEF e
    <3>2. e \in Nat /\ j = i + e /\ e < d
      BY <2>6, <3>1 DEF e
    <3>3. e \notin Bad
      <4> HIDE DEF Bad
      <4> QED
        BY <2>0, <2>3, <3>2
    <3>4. ~(Pow4(i + e) >= v /\ ~Good(i, i + e))
      BY <3>2, <3>3
    <3> QED
      BY <2>6, <3>2, <3>4
  <2> HIDE DEF hi, Bad
  <2>7. CASE lo >= hi
    <3>1. lo = hi /\ search[<<lo, hi>>] = lo
      BY <2>3, <2>4, <2>7 DEF Searched
    <3> QED
      BY <2>3, <2>5, <3>1
  <2>8. CASE lo < hi
    <3>1. mid \in Nat /\ lo <= mid /\ mid < hi /\ mid + 1 \in Nat
      BY <2>3, <2>8, Middle
    <3>0. ~(lo >= hi)
      BY <2>3, <2>8
    <3> HIDE DEF mid
    <3>2. CASE Pow4(mid) >= v
      <4>1. search[<<lo, hi>>] = search[<<lo, mid>>]
        BY <2>4, <3>0, <3>2 DEF Searched, mid
      <4>2. mid - lo < d
        BY <2>3, <3>1
      <4>3. Good(lo, mid)
        BY <2>6, <3>1, <3>2, <4>2
      <4> QED
        BY <2>5, <4>1, <4>3
    <3>3. CASE ~(Pow4(mid) >= v)
      <4>1. search[<<lo, hi>>] = search[<<mid + 1, hi>>]
        BY <2>4, <3>0, <3>3 DEF Searched, mid
      <4>2. mid + 1 <= hi /\ hi - (mid + 1) < d
        BY <2>3, <3>1
      <4>3. Good(mid + 1, hi)
        BY <2>3, <2>5, <2>6, <3>1, <4>2
      <4> QED
        BY <2>5, <4>1, <4>3
    <3> QED
      BY <3>2, <3>3
  <2> QED
    BY <2>3, <2>7, <2>8
<1> SUFFICES ASSUME NEW lo \in Nat, NEW hi \in Nat, lo <= hi, Pow4(hi) >= v PROVE Good(lo, hi)
  OBVIOUS
<1>2. hi - lo \in Nat /\ lo + (hi - lo) = hi
  OBVIOUS
<1> DEFINE d == hi - lo
<1> HIDE DEF d
<1>3. d \in Nat /\ lo + d = hi /\ d \notin Bad
  BY <1>1, <1>2 DEF d
<1>4. ~(Pow4(lo + d) >= v /\ ~Good(lo, lo + d))
  BY <1>3
<1> QED
  BY <1>3, <1>4

\* nth_root_4 rounds up, if at all: no root is below what it stands for.
LEMMA RootAbove ==
  ASSUME NEW v \in Nat
  PROVE  Root4(v) \in Nat /\ Pow4(Root4(v)) >= v
<1> DEFINE high   == CHOOSE h : IsHigh(v, h)
           search == CHOOSE s : IsSearch(v, s)
<1>1. Root4(v) = IF v <= 1 THEN v ELSE search[<<1, high[1]>>]
  BY DEF Root4, IsHigh, IsSearch, Searched
<1>2. IsHigh(v, high)
  BY HighExists
<1>3. IsSearch(v, search)
  BY SearchExists
<1> HIDE DEF high, search
<1>4. CASE v <= 1
  BY <1>1, <1>4 DEF Pow4
<1>5. CASE v > 1
  <2> DEFINE h == high[1]
  <2>1. h \in Nat \ {0} /\ Pow4(h) > v
    BY <1>2, HighIs
  <2> HIDE DEF h
  <2>2. Pow4(h) \in Nat
    BY <2>1, Pow4Monotone
  <2>3. 1 <= h /\ Pow4(h) >= v
    BY <2>1, <2>2
  <2>4. search[<<1, h>>] \in Nat /\ Pow4(search[<<1, h>>]) >= v
    BY <1>3, <2>1, <2>3, SearchIs
  <2>5. Root4(v) = search[<<1, h>>]
    BY <1>1, <1>5 DEF h
  <2> QED
    BY <2>4, <2>5
<1> QED
  BY <1>4, <1>5
-----------------------------------------------------------------------------
(* The curve keeps its constant                                            *)

\* A number is so many times the divisor, and a rest.
LEMMA Divided ==
  ASSUME NEW k \in Nat, NEW d \in Nat \ {0}
  PROVE  /\ k \div d \in Nat /\ (k % d) \in 0..(d - 1)
         /\ k = d * (k \div d) + (k % d)
OBVIOUS

\* Token 0 for token 1: a rest costs the wallet a unit, and then the product
\* is one divisor above the quotient.
LEMMA OutOneKeeps ==
  ASSUME NEW dx \in Nat \ {0}, NEW x \in Nat, NEW y \in Nat
  PROVE  Constant(x + dx, y - OutZeroForOne(dx, x, y)) >= Constant(x, y)
<1> DEFINE k == Constant(x, y)
           d == Pow4(x + dx)
           q == k \div d
           r == k % d
<1>1. x + dx \in Nat /\ x <= x + dx /\ x + dx > 0
  OBVIOUS
<1>2. /\ Pow4(x) \in Nat /\ d \in Nat /\ Pow4(x) <= d
  BY <1>1, Pow4Monotone
<1>3. d # 0
  <2> DEFINE u == x + dx
  <2> HIDE DEF u
  <2>1. u \in Nat \ {0}
    BY <1>1 DEF u
  <2>2. u * u \in Nat \ {0}
    BY <2>1
  <2>3. (u * u) * (u * u) # 0
    BY <2>2
  <2> QED
    BY <2>3 DEF Pow4, u
<1>4. k \in Nat /\ k = Pow4(x) * y
  BY ConstantMonotone DEF Constant
<1>5. q \in Nat /\ r \in 0..(d - 1) /\ k = d * q + r
  BY <1>2, <1>3, <1>4, Divided
<1>6. OutZeroForOne(dx, x, y) = IF r > 0 /\ y - q > 0 THEN (y - q) - 1 ELSE y - q
  BY DEF OutZeroForOne
<1> DEFINE out == OutZeroForOne(dx, x, y)
<1>7. Constant(x + dx, y - out) = d * (y - out)
  BY DEF Constant
<1> HIDE DEF k, d, q, r, out
<1>8. d * (q + 1) = d * q + d
  BY <1>2, <1>5, Distribute
<1>9. d * q \in Nat
  BY <1>2, <1>5
<1>10. CASE r > 0 /\ y - q > 0
  <2>1. y - out = q + 1
    BY <1>5, <1>6, <1>10 DEF out
  <2>2. d * (y - out) = d * q + d
    BY <2>1, <1>8
  <2> QED
    BY <1>2, <1>5, <1>7, <1>9, <2>2 DEF k, out
<1>11. CASE ~(r > 0)
  <2>1. y - out = q
    BY <1>5, <1>6, <1>11 DEF out
  <2>2. k = d * q
    BY <1>5, <1>9, <1>11, <1>2
  <2> QED
    BY <1>4, <1>7, <2>1, <2>2 DEF k, out
<1>12. CASE r > 0 /\ ~(y - q > 0)
  <2>1. y <= q
    BY <1>5, <1>12
  <2>2. Pow4(x) * y <= d * q
    BY <1>2, <1>5, <2>1, TimesMonotone
  <2> QED
    BY <1>4, <1>5, <1>9, <1>12, <2>2
<1> QED
  BY <1>10, <1>11, <1>12, <1>5

\* Token 1 asked for: the root rounded up, and one more, if u128 holds what
\* the root is taken of.
LEMMA InZeroKeeps ==
  ASSUME NEW dy \in Nat, NEW x \in Nat, NEW y \in Nat, dy < y,
         Constant(x, y) \div (y - dy) <= WideMax
  PROVE  Constant(x + InZeroForOne(dy, x, y), y - dy) >= Constant(x, y)
<1> DEFINE k == Constant(x, y)
           d == y - dy
           q == k \div d
           r == k % d
           s == Root4(q)
<1>1. d \in Nat \ {0} /\ k \in Nat
  BY ConstantMonotone
<1> HIDE DEF k
<1>2. q \in Nat /\ r \in 0..(d - 1) /\ k = d * q + r
  BY <1>1, Divided
<1>3. s \in Nat /\ Pow4(s) >= q
  BY <1>2, RootAbove
<1>4. InZeroForOne(dy, x, y) = (s - x) + 1
  BY DEF InZeroForOne, Wide, Lesser, k
<1> HIDE DEF d, q, r, s
<1>5. x + InZeroForOne(dy, x, y) = s + 1
  BY <1>3, <1>4
<1>6. Pow4(s + 1) >= q + 1 /\ Pow4(s + 1) \in Nat
  <2>1. s + 1 \in Nat /\ s * s \in Nat /\ (s + 1) * (s + 1) \in Nat
        /\ (s + 1) * (s + 1) >= s * s + 1
    BY <1>3
  <2> DEFINE u == s * s
             v == (s + 1) * (s + 1)
  <2>2. u \in Nat /\ v \in Nat /\ v >= u + 1 /\ Pow4(s) = u * u /\ Pow4(s + 1) = v * v
    BY <2>1 DEF Pow4
  <2> HIDE DEF u, v
  <2>3. v * v >= (u + 1) * (u + 1) /\ (u + 1) * (u + 1) >= u * u + 1
        /\ v * v \in Nat /\ u * u \in Nat
    <3>1. u + 1 \in Nat
      BY <2>2
    <3>2. (u + 1) * (u + 1) <= v * v
      BY <2>2, <3>1, TimesMonotone
    <3>3. (u + 1) * (u + 1) >= u * u + 1
      BY <2>2
    <3> QED
      BY <2>2, <3>2, <3>3
  <2> QED
    BY <1>2, <1>3, <2>2, <2>3
<1>7. (q + 1) * d <= Pow4(s + 1) * d
  BY <1>1, <1>2, <1>6, TimesMonotone
<1>8. (q + 1) * d = d * q + d /\ d * q \in Nat
  BY <1>1, <1>2, Distribute
<1>9. Pow4(s + 1) * d \in Nat
  BY <1>1, <1>6
<1>10. k <= Pow4(s + 1) * d
  BY <1>1, <1>2, <1>7, <1>8, <1>9
<1> QED
  BY <1>5, <1>10 DEF Constant, d, k

\* Token 1 for token 0: the root is rounded up, which makes good the rest of
\* the division unless the quotient was a fourth power.
LEMMA OutZeroKeeps ==
  ASSUME NEW dy \in Nat \ {0}, NEW x \in Nat, NEW y \in Nat
  PROVE  LET k == Constant(x, y)
             v == k \div (y + dy)
         IN  \/ Constant(x - OutOneForZero(dy, x, y, 0), y + dy) >= k
             \/ k % (y + dy) > 0 /\ Pow4(Root4(v)) = v
<1> DEFINE k == Constant(x, y)
           d == y + dy
           q == k \div d
           r == k % d
           s == Root4(q)
<1>1. d \in Nat \ {0} /\ k \in Nat
  BY ConstantMonotone
<1> HIDE DEF k
<1>2. q \in Nat /\ r \in 0..(d - 1) /\ k = d * q + r
  BY <1>1, Divided
<1>3. s \in Nat /\ Pow4(s) >= q
  BY <1>2, RootAbove
<1>4. OutOneForZero(dy, x, y, 0) = x - (s + 0)
  BY DEF OutOneForZero, k
<1> HIDE DEF d, q, r, s
<1>5. x - OutOneForZero(dy, x, y, 0) = s
  BY <1>3, <1>4
<1>6. Pow4(s) \in Nat /\ d * q \in Nat
  BY <1>1, <1>2, <1>3, Pow4Monotone
<1>7. CASE ~(r > 0)
  <2>1. q * d <= Pow4(s) * d /\ q * d = d * q /\ Pow4(s) * d \in Nat
    BY <1>1, <1>2, <1>3, <1>6, TimesMonotone
  <2>2. k <= Pow4(s) * d
    BY <1>1, <1>2, <1>6, <1>7, <2>1
  <2> QED
    BY <1>5, <2>2 DEF Constant, d, k
<1>8. CASE Pow4(s) # q
  <2>1. q + 1 \in Nat /\ q + 1 <= Pow4(s)
    BY <1>2, <1>3, <1>6, <1>8
  <2>2. (q + 1) * d <= Pow4(s) * d
    BY <1>1, <1>6, <2>1, TimesMonotone
  <2>3. (q + 1) * d = d * q + d /\ Pow4(s) * d \in Nat
    BY <1>1, <1>2, <1>6, Distribute
  <2>4. k <= Pow4(s) * d
    BY <1>1, <1>2, <1>6, <2>2, <2>3
  <2> QED
    BY <1>5, <2>4 DEF Constant, d, k
<1> QED
  BY <1>7, <1>8 DEF k, d, q, r, s

\* The fourth power of a positive number is one.
LEMMA Pow4Positive == \A u \in Nat \ {0} : Pow4(u) \in Nat \ {0}
<1> SUFFICES ASSUME NEW u \in Nat \ {0} PROVE Pow4(u) \in Nat \ {0}
  OBVIOUS
<1>1. u * u \in Nat \ {0}
  OBVIOUS
<1>2. (u * u) * (u * u) \in Nat \ {0}
  BY <1>1
<1> QED BY <1>2 DEF Pow4

\* Token 0 asked for: the quotient, and one more, if u128 holds it.
LEMMA InOneKeeps ==
  ASSUME NEW dx \in Nat, NEW x \in Nat, NEW y \in Nat, dx < x,
         Constant(x, y) \div Pow4(x - dx) <= WideMax
  PROVE  Constant(x - dx, y + InOneForZero(dx, x, y)) >= Constant(x, y)
<1> DEFINE k == Constant(x, y)
           d == Pow4(x - dx)
           q == k \div d
           r == k % d
<1>1. x - dx \in Nat \ {0}
  OBVIOUS
<1>2. d \in Nat \ {0}
  <2> DEFINE u == x - dx
  <2> HIDE DEF u
  <2>1. u \in Nat \ {0}
    BY <1>1 DEF u
  <2>2. u * u \in Nat \ {0}
    BY <2>1
  <2>3. (u * u) * (u * u) \in Nat \ {0}
    BY <2>2
  <2> QED
    BY <2>3 DEF Pow4, u
<1>3. k \in Nat
  BY ConstantMonotone
<1> HIDE DEF k, d
<1>4. q \in Nat /\ r \in 0..(d - 1) /\ k = d * q + r
  BY <1>2, <1>3, Divided
<1>5. InOneForZero(dx, x, y) = (q - y) + 1
  BY DEF InOneForZero, Wide, Lesser, k, d
<1> HIDE DEF q, r
<1>6. y + InOneForZero(dx, x, y) = q + 1
  BY <1>4, <1>5
<1>7. d * (q + 1) = d * q + d /\ d * q \in Nat
  BY <1>2, <1>4, Distribute
<1>8. k <= d * (q + 1)
  BY <1>2, <1>4, <1>7
<1> QED
  BY <1>6, <1>8 DEF Constant, d, k

\* For any reserves and amounts the curve gives no more and asks no less than
\* keeps x^4 * y, but where it rounds a fourth power's root
\* (constant_product.rs:635) and where u128 cuts off what an exact output is
\* worked out from (constant_product.rs:55).
THEOREM CurveKeepsConstant == Spec => []QuotesKeepConstant
<1>1. IInv => QuotesKeepConstant
  <2> SUFFICES ASSUME IInv, NEW amount \in Amounts, NEW i \in Sides
               PROVE  LET given == CurveOut(i, amount, Reserves, 0)
                      IN  /\ \/ KeepsConstant(i, Quote(amount, given, 0, 0, amount, given))
                             \/ i = 1 /\ CutToFourthPower(amount)
                          /\ amount < Reserve(1 - i) =>
                               LET asked == CurveIn(i, amount, Reserves)
                               IN  \/ KeepsConstant(i, Quote(asked, amount, 0, 0, asked, amount))
                                   \/ Saturates(i, amount)
    BY DEF QuotesKeepConstant
  <2> DEFINE x == Reserve(0)
             y == Reserve(1)
  <2>1. x \in Nat /\ y \in Nat /\ Reserves[0] = x /\ Reserves[1] = y
        /\ DOMAIN Reserves = {0, 1} /\ Reserves = [j \in {0, 1} |-> Reserves[j]]
    BY ReserveNat DEF IInv, Reserves, Sides
  <2>2. amount \in Nat \ {0}
    BY CpmmAssumption
  <2> HIDE DEF x, y
  <2>3. \A net, swapped, trade, paid :
          /\ KeepsConstant(0, Quote(net, swapped, trade, 0, paid, swapped))
               <=> Constant(x + net, y - swapped) >= Constant(x, y)
          /\ KeepsConstant(1, Quote(net, swapped, trade, 0, paid, swapped))
               <=> Constant(x - swapped, y + net) >= Constant(x, y)
    BY <2>1 DEF KeepsConstant, After, Quote, x, y
  <2>4. CASE i = 0
    <3>1. CurveOut(i, amount, Reserves, 0) = OutZeroForOne(amount, x, y)
          /\ CurveIn(i, amount, Reserves) = InZeroForOne(amount, x, y)
      BY <2>1, <2>4 DEF CurveOut, CurveIn
    <3>2. amount < Reserve(1 - i) => amount < y
      BY <2>4 DEF y
    <3>3. amount < y => Saturates(i, amount) \/ Constant(x, y) \div (y - amount) <= WideMax
      <4> SUFFICES ASSUME amount < y, ~Saturates(i, amount)
                   PROVE  Constant(x, y) \div (y - amount) <= WideMax
        OBVIOUS
      <4> DEFINE q == Constant(x, y) \div (y - amount)
      <4>1. ~(q > WideMax)
        BY <2>4 DEF Saturates, x, y
      <4>2. q \in Nat
        BY <2>1, <2>2, ConstantMonotone, Divided
      <4> HIDE DEF q
      <4>3. q <= WideMax
        BY <4>1, <4>2, CpmmAssumption
      <4> QED BY <4>3 DEF q
    <3> QED
      BY <2>1, <2>2, <2>3, <2>4, <3>1, <3>2, <3>3, OutOneKeeps, InZeroKeeps
  <2>5. CASE i = 1
    <3>1. CurveOut(i, amount, Reserves, 0) = OutOneForZero(amount, x, y, 0)
          /\ CurveIn(i, amount, Reserves) = InOneForZero(amount, x, y)
      BY <2>1, <2>5 DEF CurveOut, CurveIn
    <3>2. amount < Reserve(1 - i) => amount < x
      BY <2>5 DEF x
    <3>3. \/ Constant(x - OutOneForZero(amount, x, y, 0), y + amount) >= Constant(x, y)
          \/ CutToFourthPower(amount)
      BY <2>1, <2>2, OutZeroKeeps DEF CutToFourthPower, x, y
    <3>4. amount < x => Saturates(i, amount) \/ Constant(x, y) \div Pow4(x - amount) <= WideMax
      <4> SUFFICES ASSUME amount < x, ~Saturates(i, amount)
                   PROVE  Constant(x, y) \div Pow4(x - amount) <= WideMax
        OBVIOUS
      <4> DEFINE q == Constant(x, y) \div Pow4(x - amount)
      <4>1. ~(q > WideMax)
        BY <2>5 DEF Saturates, x, y
      <4>2. q \in Nat
        <5>1. x - amount \in Nat \ {0}
          BY <2>1, <2>2
        <5> QED BY <2>1, <5>1, Pow4Positive, ConstantMonotone, Divided
      <4> HIDE DEF q
      <4>3. q <= WideMax
        BY <4>1, <4>2, CpmmAssumption
      <4> QED BY <4>3 DEF q
    <3> QED
      BY <2>1, <2>2, <2>3, <2>5, <3>1, <3>2, <3>3, <3>4, InOneKeeps
  <2> QED
    BY <2>4, <2>5 DEF Sides
<1> QED
  BY InvHolds, <1>1, PTL

-----------------------------------------------------------------------------
(* Doubles                                                                 *)

\* What is nearest is on no other side of a whole number than the quotient.
LEMMA NearestIs ==
  ASSUME NEW n \in Nat, NEW d \in Nat \ {0}
  PROVE  /\ Nearest(n, d) \in Nat
         /\ \A m \in Nat : /\ n <= d * m => Nearest(n, d) <= m
                           /\ d * m <= n => m <= Nearest(n, d)
<1> DEFINE q == n \div d
           r == n % d
<1>1. q \in Nat /\ r \in 0..(d - 1) /\ n = d * q + r
  BY Divided
<1>2. \/ Nearest(n, d) = q
      \/ Nearest(n, d) = q + 1 /\ r > 0
  <2>1. Nearest(n, d) = IF 2 * r > d \/ (2 * r = d /\ q % 2 = 1) THEN q + 1 ELSE q
    BY DEF Nearest
  <2> HIDE DEF q, r
  <2> QED BY <1>1, <2>1
<1> HIDE DEF q, r
<1>3. d * q \in Nat /\ d * (q + 1) = d * q + d
  BY <1>1
<1>4. ASSUME NEW m \in Nat, n <= d * m, m < q PROVE FALSE
  <2>1. d * (m + 1) <= d * q
    BY <1>1, <1>4, TimesMonotone
  <2>2. d * (m + 1) = d * m + d /\ d * m \in Nat
    OBVIOUS
  <2> QED BY <1>1, <1>3, <1>4, <2>1, <2>2
<1>5. ASSUME NEW m \in Nat, d * m <= n, q < m PROVE FALSE
  <2>1. d * (q + 1) <= d * m
    BY <1>1, <1>5, TimesMonotone
  <2>2. d * m \in Nat
    OBVIOUS
  <2> QED BY <1>1, <1>3, <1>5, <2>1, <2>2
<1>6. ASSUME NEW m \in Nat, n <= d * m, r > 0, m = q PROVE FALSE
  BY <1>1, <1>3, <1>6
<1>7. ASSUME NEW m \in Nat
      PROVE  /\ n <= d * m => Nearest(n, d) <= m
             /\ d * m <= n => m <= Nearest(n, d)
  <2>1. n <= d * m => q <= m /\ (r > 0 => q + 1 <= m)
    BY <1>1, <1>4, <1>6
  <2>2. d * m <= n => m <= q
    BY <1>1, <1>5
  <2> QED BY <1>1, <1>2, <2>1, <2>2
<1> QED BY <1>1, <1>2, <1>7

\* The spacing below Exact is the finest that fits.
LEMMA FinerIs ==
  ASSUME NEW n \in Nat, NEW d \in Nat \ {0}, n < Exact * d
  PROVE  /\ Finer(n, d) \in Nat \ {0} /\ Finer(n, d) \in Scales
         /\ \A s \in Scales : n * s < Exact * d => s <= Finer(n, d)
<1> DEFINE S == {s \in Scales : n * s < Exact * d}
<1>1. S \subseteq Int /\ IsFiniteSet(S)
  <2>1. S \subseteq Scales /\ Scales \subseteq Int /\ IsFiniteSet(Scales)
    BY ServiceAssumption
  <2> HIDE DEF S
  <2> QED BY <2>1, FS_Subset
<1>2. 1 \in S
  BY ServiceAssumption
<1>3. Max(S) \in S /\ \A y \in S : y <= Max(S)
  BY <1>1, <1>2, MaxIn
<1>4. Finer(n, d) = Max(S)
  BY DEF Finer
<1> QED BY <1>3, <1>4, ServiceAssumption

\* The spacing just above Exact is two.
LEMMA CoarserIs ==
  ASSUME NEW n \in Nat, NEW d \in Nat \ {0}, Exact * d <= n, n < (Exact * d) * 2
  PROVE  Coarser(n, d) = 2
<1> DEFINE S == {s \in Scales : n < (Exact * d) * s}
<1>1. S \subseteq Int /\ IsFiniteSet(S)
  <2>1. S \subseteq Scales /\ Scales \subseteq Int /\ IsFiniteSet(Scales)
    BY ServiceAssumption
  <2> HIDE DEF S
  <2> QED BY <2>1, FS_Subset
<1>2. 2 \in S
  BY ServiceAssumption
<1>3. 1 \notin S
  BY ServiceAssumption
<1>4. Min(S) \in S /\ \A y \in S : Min(S) <= y
  BY <1>1, <1>2, MinIn
<1>5. S \subseteq Nat \ {0}
  BY ServiceAssumption
<1>6. Coarser(n, d) = Min(S)
  BY DEF Coarser
<1> HIDE DEF S
<1>7. Min(S) \in Nat \ {0} /\ Min(S) # 1 /\ Min(S) <= 2
  BY <1>2, <1>3, <1>4, <1>5
<1> QED BY <1>6, <1>7

\* A double of no more than a whole number is, rounded down, no more either.
LEMMA FloorBelow ==
  ASSUME NEW n \in Nat, NEW d \in Nat \ {0}, NEW a \in Nat, a < Exact, n <= d * a
  PROVE  FloorDouble(n, d) \in Nat /\ FloorDouble(n, d) <= a
<1> DEFINE f == Finer(n, d)
           m == Nearest(n * f, d)
<1>1. n < Exact * d
  <2>1. d * (a + 1) <= d * Exact
    BY ServiceAssumption, TimesMonotone
  <2>2. d * (a + 1) = d * a + d /\ d * Exact = Exact * d /\ Exact * d \in Nat /\ d * a \in Nat
    BY ServiceAssumption
  <2> QED BY <2>1, <2>2
<1>2. f \in Nat \ {0}
  BY <1>1, FinerIs
<1>3. FloorDouble(n, d) = m \div f
  BY <1>1 DEF FloorDouble
<1> HIDE DEF f
<1>4. n * f \in Nat /\ a * f \in Nat /\ n * f <= d * (a * f)
  <2>1. n * f <= (d * a) * f /\ n * f \in Nat
    BY <1>2, TimesMonotone
  <2>2. (d * a) * f = d * (a * f)
    BY <1>2
  <2> QED BY <1>2, <2>1, <2>2
<1>5. m \in Nat /\ m <= a * f
  BY <1>4, NearestIs
<1> HIDE DEF m
<1>6. m \div f \in Nat /\ f * (m \div f) <= m
  BY <1>2, <1>5, DivBelow
<1> DEFINE q == m \div f
<1> HIDE DEF q
<1>7. ASSUME a < q PROVE FALSE
  <2>1. f * (a + 1) <= f * q
    BY <1>2, <1>6, <1>7, TimesMonotone DEF q
  <2>2. f * (a + 1) = a * f + f /\ f * q \in Nat
    BY <1>2, <1>6 DEF q
  <2> QED BY <1>2, <1>4, <1>5, <1>6, <2>1, <2>2 DEF q
<1>8. q <= a
  BY <1>6, <1>7 DEF q
<1> QED BY <1>3, <1>6, <1>8 DEF q

\* A double of no less, rounded up, no less.
LEMMA CeilAboveDouble ==
  ASSUME NEW n \in Nat, NEW d \in Nat \ {0}, NEW a \in Nat, a < Exact, d * a <= n,
         n < (Exact * d) * 2
  PROVE  a <= CeilDouble(n, d)
<1>1. Exact \in Nat \ {0} /\ Exact * d \in Nat
  BY ServiceAssumption
<1>2. CASE n < Exact * d
  <2> DEFINE f == Finer(n, d)
             m == Nearest(n * f, d)
             c == CeilDiv(m, f)
  <2>1. f \in Nat \ {0}
    BY <1>2, FinerIs
  <2>2. CeilDouble(n, d) = c
    BY <1>2 DEF CeilDouble
  <2> HIDE DEF f
  <2>3. n * f \in Nat /\ a * f \in Nat /\ d * (a * f) <= n * f
    <3>1. (d * a) * f <= n * f
      BY <2>1, TimesMonotone
    <3>2. (d * a) * f = d * (a * f) /\ n * f \in Nat /\ a * f \in Nat
      BY <2>1
    <3> QED BY <3>1, <3>2
  <2>4. m \in Nat /\ a * f <= m
    BY <2>3, NearestIs
  <2> HIDE DEF m
  <2>5. c \in Nat /\ f * c >= m
    BY <2>1, <2>4, CeilAbove
  <2> HIDE DEF c
  <2>6. ASSUME c < a PROVE FALSE
    <3>1. f * (c + 1) <= f * a
      BY <2>1, <2>5, <2>6, TimesMonotone
    <3>2. f * (c + 1) = f * c + f /\ f * a = a * f /\ f * c \in Nat
      BY <2>1, <2>5
    <3> QED BY <2>1, <2>3, <2>4, <2>5, <3>1, <3>2
  <2> QED BY <2>2, <2>5, <2>6
<1>3. CASE ~(n < Exact * d)
  <2> DEFINE h == Exact \div 2
             m == Nearest(n, d * 2)
  <2>1. Coarser(n, d) = 2
    BY <1>1, <1>3, CoarserIs
  <2>2. CeilDouble(n, d) = 2 * m
    BY <1>3, <2>1 DEF CeilDouble, Coarse
  <2>3. h \in Nat /\ Exact = 2 * h
    BY ServiceAssumption
  <2> HIDE DEF h
  <2>4. (d * 2) * h = Exact * d
    BY <2>3
  <2>5. m \in Nat /\ h <= m
    BY <1>1, <1>3, <2>3, <2>4, NearestIs
  <2> HIDE DEF m
  <2> QED BY <2>2, <2>3, <2>5
<1> QED BY <1>2, <1>3

\* An amount below Exact is a double as it is.
LEMMA CastExact ==
  ASSUME NEW a \in Nat, a < Exact
  PROVE  FloorDouble(a, 1) = a
<1> DEFINE f == Finer(a, 1)
<1>1. a < Exact * 1 /\ Exact \in Nat
  BY ServiceAssumption
<1>2. f \in Nat \ {0}
  BY <1>1, FinerIs
<1>3. FloorDouble(a, 1) = Nearest(a * f, 1) \div f
  BY <1>1 DEF FloorDouble
<1> HIDE DEF f
<1>4. a * f \in Nat /\ 1 * (a * f) = a * f
  BY <1>2
<1>5. Nearest(a * f, 1) = a * f
  <2> DEFINE p == a * f
  <2> HIDE DEF p
  <2>1. p \in Nat /\ 1 * p = p
    BY <1>4 DEF p
  <2>2. Nearest(p, 1) \in Nat /\ Nearest(p, 1) <= p /\ p <= Nearest(p, 1)
    BY <2>1, NearestIs
  <2> QED BY <2>1, <2>2 DEF p
<1>6. (a * f) \div f = a
  BY <1>2
<1> QED BY <1>3, <1>5, <1>6

-----------------------------------------------------------------------------
(* The services' quotes                                                    *)

LEMMA SlippageDown ==
  ASSUME NEW amount \in Nat, amount < Exact, NEW slippage \in 0..Exact
  PROVE  /\ AmountWithSlippage(amount, slippage, FALSE) \in Nat
         /\ AmountWithSlippage(amount, slippage, FALSE) <= amount
<1> DEFINE n == amount * (Exact - slippage)
<1>1. Exact \in Nat \ {0} /\ Exact - slippage \in Nat /\ Exact - slippage <= Exact
  BY ServiceAssumption
<1>2. AmountWithSlippage(amount, slippage, FALSE) = FloorDouble(n, Exact)
  BY CastExact DEF AmountWithSlippage
<1>3. n \in Nat /\ n <= Exact * amount
  <2>1. amount * (Exact - slippage) <= amount * Exact
    BY <1>1, TimesMonotone
  <2>2. n \in Nat /\ amount * Exact = Exact * amount
    BY <1>1
  <2> QED BY <2>1, <2>2
<1> HIDE DEF n
<1> QED BY <1>1, <1>2, <1>3, FloorBelow

\* With a slippage the limit is at least one unit away: the double nearest to
\* the product is less than the amount, the spacing being that fine.
LEMMA SlippageBites ==
  ASSUME NEW amount \in Nat \ {0}, amount < Exact,
         NEW slippage \in 0..Exact, slippage > 0, slippage % 2 = 0
  PROVE  AmountWithSlippage(amount, slippage, FALSE) < amount
<1> DEFINE less == Exact - slippage
           n == amount * less
           f == Finer(n, Exact)
           p == amount * f
           m == Nearest(n * f, Exact)
<1>1. Exact \in Nat \ {0} /\ less \in Nat /\ less <= Exact /\ slippage >= 2 /\ slippage \in Nat
      /\ Exact = less + slippage
  BY ServiceAssumption
<1> HIDE DEF less
<1>2. n \in Nat /\ n <= Exact * amount /\ n < Exact * Exact
  <2>1. n <= amount * Exact /\ n \in Nat
    BY <1>1, TimesMonotone
  <2>2. (amount + 1) * Exact <= Exact * Exact
    BY <1>1, TimesMonotone
  <2>3. (amount + 1) * Exact = amount * Exact + Exact /\ amount * Exact = Exact * amount
        /\ amount * Exact \in Nat /\ Exact * Exact \in Nat
    BY <1>1
  <2> QED BY <1>1, <2>1, <2>2, <2>3
<1>3. f \in Nat \ {0} /\ f \in Scales
      /\ \A s \in Scales : n * s < Exact * Exact => s <= f
  BY <1>1, <1>2, FinerIs
<1>4. AmountWithSlippage(amount, slippage, FALSE) = m \div f
  <2>1. AmountWithSlippage(amount, slippage, FALSE) = FloorDouble(n, Exact)
    BY CastExact DEF AmountWithSlippage, less
  <2> QED BY <2>1, <1>2 DEF FloorDouble
<1> HIDE DEF f
<1>5. p \in Nat \ {0} /\ n * f = p * less /\ n * f \in Nat
  <2>1. n * f = p * less
    BY <1>1, <1>3
  <2>2. p \in Nat \ {0}
    BY <1>3
  <2> QED BY <1>2, <1>3, <2>1, <2>2
<1>6. p * slippage >= Exact
  <2>1. CASE 2 * f \in Scales
    <3>1. ~(n * (2 * f) < Exact * Exact)
      BY <1>3, <2>1
    <3>2. n * (2 * f) = 2 * (p * less)
      <4>1. n * (2 * f) = 2 * (n * f)
        BY <1>2, <1>3
      <4> QED BY <1>5, <4>1
    <3>3. p * less <= p * Exact /\ p * less \in Nat /\ p * Exact \in Nat
      BY <1>1, <1>5, TimesMonotone
    <3>4. Exact * Exact <= 2 * (p * Exact)
      BY <1>1, <3>1, <3>2, <3>3
    <3>5. 2 * (p * Exact) = Exact * (2 * p)
      BY <1>1, <1>5
    <3>6. ~(2 * p < Exact)
      <4> SUFFICES ASSUME 2 * p < Exact PROVE FALSE
        OBVIOUS
      <4>1. Exact * (2 * p + 1) <= Exact * Exact
        BY <1>1, <1>5, TimesMonotone
      <4>2. Exact * (2 * p + 1) = Exact * (2 * p) + Exact /\ Exact * (2 * p) \in Nat
        BY <1>1, <1>5
      <4> QED BY <1>1, <3>4, <3>5, <4>1, <4>2
    <3>7. p * 2 <= p * slippage /\ p * slippage \in Nat /\ p * 2 = 2 * p
      BY <1>1, <1>5, TimesMonotone
    <3> QED BY <1>1, <1>5, <3>6, <3>7
  <2>2. CASE \A t \in Scales : t <= f
    <3>1. Exact <= f
      BY <2>2, ServiceAssumption
    <3>2. 1 * f <= amount * f /\ 1 * f = f
      BY <1>3, TimesMonotone
    <3>3. p * 1 <= p * slippage /\ p * 1 = p /\ p * slippage \in Nat
      BY <1>1, <1>5, TimesMonotone
    <3> QED BY <1>1, <1>3, <1>5, <3>1, <3>2, <3>3
  <2> QED BY <1>3, <2>1, <2>2, ServiceAssumption
<1> HIDE DEF n
<1>7. n * f <= Exact * (p - 1) /\ p - 1 \in Nat
  <2> DEFINE u == p
  <2> HIDE DEF p
  <2>1. Exact * (p - 1) = Exact * p - Exact
    BY <1>1, <1>5
  <2>2. Exact * p = p * less + p * slippage /\ p * less \in Nat /\ p * slippage \in Nat
    <3>1. (less + slippage) * p = less * p + slippage * p
      BY <1>1, <1>5, Distribute
    <3>2. less * p = p * less /\ slippage * p = p * slippage
          /\ p * less \in Nat /\ p * slippage \in Nat
      BY <1>1, <1>5
    <3> QED BY <1>1, <3>1, <3>2
  <2> QED BY <1>1, <1>5, <1>6, <2>1, <2>2
<1>8. m \in Nat /\ m <= p - 1
  BY <1>1, <1>5, <1>7, NearestIs
<1> HIDE DEF m
<1>9. m \div f \in Nat /\ f * (m \div f) <= m
  BY <1>3, <1>8, DivBelow
<1> DEFINE q == m \div f
<1> HIDE DEF q
<1>10. ASSUME amount <= q PROVE FALSE
  <2>1. f * amount <= f * q
    BY <1>3, <1>9, <1>10, TimesMonotone DEF q
  <2>2. f * amount = p /\ f * q \in Nat
    BY <1>3, <1>9 DEF q
  <2> QED BY <1>5, <1>8, <1>9, <2>1, <2>2 DEF q
<1>11. q < amount
  BY <1>9, <1>10 DEF q
<1> QED BY <1>4, <1>11 DEF q

LEMMA SlippageUp ==
  ASSUME NEW amount \in Nat, amount < Exact, NEW slippage \in 0..Exact
  PROVE  amount <= AmountWithSlippage(amount, slippage, TRUE)
<1> DEFINE n == amount * (Exact + slippage)
<1>1. Exact \in Nat \ {0} /\ Exact + slippage \in Nat /\ Exact <= Exact + slippage
      /\ Exact + slippage <= 2 * Exact
  BY ServiceAssumption
<1>2. AmountWithSlippage(amount, slippage, TRUE) = CeilDouble(n, Exact)
  BY CastExact DEF AmountWithSlippage
<1>3. n \in Nat /\ Exact * amount <= n
  <2>1. amount * Exact <= amount * (Exact + slippage)
    BY <1>1, TimesMonotone
  <2>2. n \in Nat /\ amount * Exact = Exact * amount
    BY <1>1
  <2> QED BY <2>1, <2>2
<1>4. n < (Exact * Exact) * 2
  <2>1. n <= amount * (2 * Exact)
    BY <1>1, TimesMonotone
  <2>2. (amount + 1) * (2 * Exact) <= Exact * (2 * Exact)
    BY <1>1, TimesMonotone
  <2>3. (amount + 1) * (2 * Exact) = amount * (2 * Exact) + 2 * Exact
        /\ Exact * (2 * Exact) = (Exact * Exact) * 2
        /\ amount * (2 * Exact) \in Nat /\ (Exact * Exact) * 2 \in Nat
    BY <1>1
  <2> QED BY <1>1, <1>3, <2>1, <2>2, <2>3
<1> HIDE DEF n
<1> QED BY <1>1, <1>2, <1>3, <1>4, CeilAboveDouble

\* Rounding up costs at most one unit.
LEMMA CeilBelow ==
  ASSUME NEW a \in Nat, NEW b \in Nat \ {0}
  PROVE  CeilDiv(a, b) <= (a \div b) + 1
<1> DEFINE q == a \div b
           c == (a + b - 1) \div b
<1>1. q \in Nat /\ a < b * (q + 1)
  BY DivBelow
<1>2. a + b - 1 \in Nat
  OBVIOUS
<1>3. c \in Nat /\ b * c <= a + b - 1
  BY <1>2, DivBelow
<1> HIDE DEF q, c
<1>4. ASSUME c > q + 1 PROVE FALSE
  <2>1. q + 2 \in Nat /\ q + 2 <= c
    BY <1>1, <1>3, <1>4
  <2>2. b * (q + 2) <= b * c
    BY <1>3, <2>1, TimesMonotone
  <2>3. b * (q + 2) = b * (q + 1) + b
    BY <1>1
  <2>4. b * (q + 1) \in Nat /\ b * c \in Nat
    BY <1>1, <1>3
  <2> QED BY <1>1, <1>3, <2>2, <2>3, <2>4
<1>5. c <= q + 1
  BY <1>1, <1>3, <1>4
<1> QED BY <1>5 DEF CeilDiv, q, c

\* What the curve asks for is a whole number.
LEMMA CurveInInt ==
  ASSUME TypeOK, Solvent, NEW i \in Sides, NEW amount \in Nat, amount < Reserve(1 - i)
  PROVE  CurveIn(i, amount, Reserves) \in Int
<1> DEFINE x == Reserve(0)
           y == Reserve(1)
<1>1. x \in Nat /\ y \in Nat /\ Reserves[0] = x /\ Reserves[1] = y
  BY ReserveNat DEF Reserves, Sides
<1>2. Constant(x, y) \in Nat
  BY <1>1, ConstantMonotone
<1>3. \A v \in Nat : Wide(v) \in Nat
  BY CpmmAssumption DEF Wide, Lesser
<1> HIDE DEF x, y
<1>4. CASE i = 0
  <2> DEFINE q == Constant(x, y) \div (y - amount)
  <2>1. y - amount \in Nat \ {0}
    BY <1>1, <1>4 DEF y
  <2>2. q \in Nat
    BY <1>2, <2>1, Divided
  <2>3. CurveIn(i, amount, Reserves) = Root4(Wide(q)) - x + 1
    BY <1>1, <1>4 DEF CurveIn, InZeroForOne
  <2> HIDE DEF q
  <2>4. Root4(Wide(q)) \in Nat
    BY <1>3, <2>2, RootAbove
  <2> QED BY <1>1, <2>3, <2>4
<1>5. CASE i = 1
  <2> DEFINE q == Constant(x, y) \div Pow4(x - amount)
  <2>1. x - amount \in Nat \ {0}
    BY <1>1, <1>5 DEF x
  <2>2. q \in Nat
    BY <1>2, <2>1, Pow4Positive, Divided
  <2>3. CurveIn(i, amount, Reserves) = Wide(q) - y + 1
    BY <1>1, <1>5 DEF CurveIn, InOneForZero
  <2> HIDE DEF q
  <2> QED BY <1>1, <1>3, <2>2, <2>3
<1> QED BY <1>4, <1>5 DEF Sides

\* So what can be quoted for an exact output is a positive amount.
LEMMA AskedNat ==
  ASSUME TypeOK, Solvent, NEW i \in Sides, NEW amount \in Nat,
         CanQuoteOutput(i, amount, CreatorRate)
  PROVE  QuoteOutput(i, amount, CreatorRate).net \in Nat
<1> DEFINE swapped == SwappedOutput(i, amount, CreatorRate)
<1>1. /\ amm_config.trade + CreatorRate < Denominator
      /\ swapped < Reserve(1 - i)
      /\ CurveIn(i, swapped, Reserves) > 0
  BY DEF CanQuoteOutput
<1>2. CreatorRate \in Nat /\ CreatorRate < Denominator
  BY <1>1, RateNat, CpmmAssumption
<1>3. swapped \in Nat
  BY <1>2, PreFeeAbove DEF SwappedOutput
<1>4. QuoteOutput(i, amount, CreatorRate).net = CurveIn(i, swapped, Reserves)
  BY DEF QuoteOutput, Quote
<1> HIDE DEF swapped
<1> QED BY <1>1, <1>3, <1>4, CurveInInt

LEMMA SwapQuotes ==
  ASSUME TypeOK, Solvent
  PROVE  SwapQuotesHonoured
<1>0. \A i \in Sides, w \in Wallets : Uppers(w) \in 0..2 /\ 1 - i # i
  BY DEF Uppers, Sides
<1>1. ASSUME NEW i \in Sides, NEW amount \in Amounts, NEW slippage \in Slippages,
             NEW slack \in RootSlack,
             QuoteInput(i, amount, CreatorRate, slack).out \in Nat \ {0}
      PROVE  LET given == QuoteInput(i, amount, CreatorRate, slack)
                 built == ComputeSwapBaseIn(i, amount, slippage, slack)
             IN  /\ built.received = given.out
                 /\ given.out < Exact => built.minimum <= given.out
                 /\ \A w \in Wallets :
                      RewardPayable(i, built.reward_mint, Reward(Uppers(w), given.trade))
  <2>1. slippage \in 0..Exact
    BY ServiceAssumption
  <2>2. ServiceRate = CreatorRate
    BY DEF ServiceRate, CreatorRate
  <2> DEFINE out == QuoteInput(i, amount, CreatorRate, slack).out
             built == ComputeSwapBaseIn(i, amount, slippage, slack)
  <2>3. /\ built.received = out /\ built.reward_mint = i
        /\ built.minimum = AmountWithSlippage(out, slippage, FALSE)
    BY <2>2 DEF ComputeSwapBaseIn
  <2> HIDE DEF built
  <2>4. out < Exact => AmountWithSlippage(out, slippage, FALSE) <= out
    BY <1>1, <2>1, SlippageDown
  <2> QED BY <2>3, <2>4 DEF RewardPayable, built
<1>2. ASSUME NEW i \in Sides, NEW amount \in Amounts, NEW slippage \in Slippages,
             CanQuoteOutput(i, amount, CreatorRate)
      PROVE  LET asked  == QuoteOutput(i, amount, CreatorRate)
                 built  == ComputeSwapBaseOut(i, amount, slippage)
                 due(w) == Reward(Uppers(w), asked.trade)
             IN  /\ built.paid = asked.paid
                 /\ asked.paid < Exact => asked.paid <= built.maximum
                 /\ \A w \in Wallets : RewardPayable(i, built.reward_mint, due(w)) <=> due(w) = 0
  <2>1. slippage \in 0..Exact /\ amount \in Nat
    BY ServiceAssumption, CpmmAssumption
  <2>2. ServiceRate = CreatorRate
    BY DEF ServiceRate, CreatorRate
  <2> DEFINE asked == QuoteOutput(i, amount, CreatorRate)
             built == ComputeSwapBaseOut(i, amount, slippage)
             due(w) == Reward(Uppers(w), asked.trade)
  <2>3. asked.net \in Nat
    BY <1>2, <2>1, AskedNat
  <2>4. asked.paid \in Nat /\ asked.trade \in Nat
    BY <1>2, <2>1, <2>3, QuoteOutputOK DEF QuoteOK
  <2>5. /\ built.paid = asked.paid /\ built.reward_mint = 1 - i
        /\ built.maximum = AmountWithSlippage(asked.paid, slippage, TRUE)
    BY <2>2 DEF ComputeSwapBaseOut
  <2> HIDE DEF built, asked
  <2>6. \A w \in Wallets : due(w) \in Nat
    BY <2>4, <1>0, TradeFeeSplit
  <2>7. asked.paid < Exact => asked.paid <= AmountWithSlippage(asked.paid, slippage, TRUE)
    BY <2>1, <2>4, SlippageUp
  <2> HIDE DEF due
  <2>8. \A w \in Wallets : RewardPayable(i, 1 - i, due(w)) <=> due(w) = 0
    BY <1>0, <2>6 DEF RewardPayable
  <2> QED BY <2>5, <2>7, <2>8 DEF built, asked, due
<1> QED BY <1>1, <1>2 DEF SwapQuotesHonoured

LEMMA LiquidityQuotes ==
  ASSUME TypeOK, pool.lp_supply > 0, \A i \in Sides : Reserve(i) > 0, Solvent
  PROVE  LiquidityQuotesHonoured
<1> SUFFICES ASSUME NEW i \in Sides, NEW amount \in Amounts, NEW slippage \in Slippages,
                    DepositAmount(amount, Reserve(i)) < Exact
             PROVE  /\ DepositAmount(amount, Reserve(i)) <= ComputeDepositMax(i, amount, slippage)
                    /\ slippage > 0 /\ WithdrawAmount(amount, Reserve(i)) > 0 =>
                         ComputeWithdrawMin(i, amount, slippage) <= WithdrawAmount(amount, Reserve(i))
  BY DEF LiquidityQuotesHonoured
<1> DEFINE share == amount * Reserve(i)
           supply == pool.lp_supply
           up == DepositAmount(amount, Reserve(i))
           down == share \div supply
<1>1. amount \in Nat \ {0} /\ slippage \in 0..Exact /\ slippage % 2 = 0
  BY CpmmAssumption, ServiceAssumption
<1>2. Reserve(i) \in Nat /\ supply \in Nat \ {0}
  BY ReserveNat DEF TypeOK
<1>3. share \in Nat
  BY <1>1, <1>2
<1>4. down \in Nat /\ CeilDiv(share, supply) \in Nat /\ CeilDiv(share, supply) <= down + 1
  BY <1>2, <1>3, DivBelow, CeilAbove, CeilBelow
<1>5. up \in Nat /\ up <= down + 1 /\ up < Exact
  BY <1>4 DEF DepositAmount
<1> HIDE DEF up
<1>6. up <= AmountWithSlippage(up, slippage, TRUE)
  BY <1>1, <1>5, SlippageUp
<1>7. /\ AmountWithSlippage(up, slippage, FALSE) \in Nat
      /\ AmountWithSlippage(up, slippage, FALSE) <= up
      /\ slippage > 0 /\ up > 0 => AmountWithSlippage(up, slippage, FALSE) < up
  <2>1. /\ AmountWithSlippage(up, slippage, FALSE) \in Nat
        /\ AmountWithSlippage(up, slippage, FALSE) <= up
    BY <1>1, <1>5, SlippageDown
  <2>2. ASSUME slippage > 0, up > 0 PROVE AmountWithSlippage(up, slippage, FALSE) < up
    <3>1. up \in Nat \ {0}
      BY <1>5, <2>2
    <3> QED BY <1>1, <1>5, <2>2, <3>1, SlippageBites
  <2> QED BY <2>1, <2>2
<1>8. WithdrawAmount(amount, Reserve(i)) = down
  BY DEF WithdrawAmount
<1> HIDE DEF down, share, supply
<1>9. slippage > 0 /\ down > 0 => AmountWithSlippage(up, slippage, FALSE) <= down
  <2> DEFINE least == AmountWithSlippage(up, slippage, FALSE)
  <2>1. least \in Nat /\ least <= up /\ (slippage > 0 /\ up > 0 => least < up)
    BY <1>7
  <2> HIDE DEF least
  <2>2. slippage > 0 /\ down > 0 => least <= down
    BY <1>4, <1>5, <2>1
  <2> QED BY <2>2 DEF least
<1> QED BY <1>6, <1>8, <1>9 DEF ComputeDepositMax, ComputeWithdrawMin, up

\* As long as the pool stays as it was, nothing the services put in a
\* transaction makes the program refuse it (swap_service.rs:1162,
\* withdraw_service.rs:347), for any rates, amounts and slippages, but for
\* amounts no double holds and for exact output when a reward is due.
THEOREM QuotesAlwaysHonoured == Spec => []QuotesHonoured
<1>1. IInv => QuotesHonoured
  BY SwapQuotes, LiquidityQuotes DEF IInv, QuotesHonoured
<1> QED BY InvHolds, <1>1, PTL

=============================================================================
