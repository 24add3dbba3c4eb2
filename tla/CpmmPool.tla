------------------------------ MODULE CpmmPool ------------------------------
(***************************************************************************)
(* One pool of the CPMM program (crates/solana/cpmm), beside the referral  *)
(* program that says which uppers a wallet names in its swaps.             *)
(*                                                                         *)
(* The curve is x^4 * y = k, x the reserve of token 0 and y that of        *)
(* token 1.  One action is one instruction; it does all of its changes or  *)
(* is refused (an error, a failed `checked_' operation, a panic).  Amounts *)
(* are those that reach or leave a vault: fees a mint itself takes on      *)
(* transfers are the wallet's affair.  Of the widths only u128 is modelled *)
(* (WideMax), where the curve saturates; u64 and U512 are not.             *)
(***************************************************************************)
EXTENDS Referral

CONSTANTS
  LockedLp,     \* lock_lp_amount, 100 in the code
  Denominator,  \* FEE_RATE_DENOMINATOR_VALUE, 1_000_000 in the code
  Configs,      \* the fee rates create_amm_config and update_amm_config set
  Permitted,    \* the wallets that hold a permission PDA
  InitAmounts,  \* the amounts pools are created with: <<token 0, token 1>>
  Amounts,      \* the amounts of swaps, of LP changes and of collections
  Minimums,     \* the least wallets take: minimum_amount_out, minimum_token_i_amount
  Maximums,     \* the most wallets pay: max_amount_in, maximum_token_i_amount
  WideMax,      \* u128::MAX in the code
  RootSlack,    \* how far nth_root_4_u512 may stop above the root
  Statuses,     \* the values of the status byte: sets of disabled operations
  MaxSteps      \* bound: instructions on the pool

Sides    == {0, 1}               \* token 0 and token 1
FeeKinds == {"protocol", "fund", "creator"}
FeeOns   == {"BothToken", "OnlyToken0", "OnlyToken1"}
Config   == [trade : Nat, creator : Nat]

ASSUME CpmmAssumption ==
  /\ LockedLp \in Nat \ {0}
  /\ Denominator \in Nat \ {0}
  /\ Configs \subseteq Config
  /\ Permitted \subseteq Wallets
  /\ InitAmounts \subseteq Nat \X Nat
  /\ Amounts \subseteq Nat \ {0}
  /\ Minimums \subseteq Nat /\ Maximums \subseteq Nat
  /\ WideMax \in Nat
  /\ RootSlack \subseteq Nat
  /\ Statuses \subseteq SUBSET {"deposit", "withdraw", "swap"}
  /\ MaxSteps \in Nat

VARIABLES
  amm_config,   \* AmmConfig: the trade and creator fee rates
  pool,         \* PoolState: created, lp_supply, creator_fee_on,
                \* enable_creator_fee, status
  fees,         \* PoolState's {protocol,fund,creator}_fees_token_{0,1}
  vault,        \* vault[i]: what the vault of token i holds
  lp,           \* lp[w]: LP tokens of w
  open,         \* the clock has passed open_time
  steps         \* instructions so far (bound)

poolVars == <<amm_config, pool, fees, vault, lp, open, steps>>
vars     == <<poolVars, referralVars>>

NoPool == [created |-> FALSE, lp_supply |-> 0, creator_fee_on |-> "BothToken",
           enable_creator_fee |-> FALSE, status |-> {}]

Init ==
  /\ ReferralInit
  /\ amm_config \in Configs
  /\ pool = NoPool
  /\ fees = [kind \in FeeKinds |-> [i \in Sides |-> 0]]
  /\ vault = [i \in Sides |-> 0]
  /\ lp = [w \in Wallets |-> 0]
  /\ open = FALSE
  /\ steps = 0

----------------------------------------------------------------------------
(* Arithmetic.                                                             *)
CeilDiv(a, b) == (a + b - 1) \div b

(* trading_fee and creator_fee: the share rate/Denominator, rounded up.    *)
Fee(amount, rate) == CeilDiv(amount * rate, Denominator)

(* calculate_pre_fee_amount: what to ask for so that `post' is left.       *)
PreFee(post, rate) ==
  IF rate = 0 THEN post ELSE CeilDiv(post * Denominator, Denominator - rate)

Pow4(x) == (x * x) * (x * x)
Constant(x, y) == Pow4(x) * y

Lesser(a, b) == IF a <= b THEN a ELSE b

(* u128::try_from(value).unwrap_or(u128::MAX) *)
Wide(value) == Lesser(value, WideMax)

(* nth_root_4: the search between 1 and the first power of two whose       *)
(* fourth power is above value, for the least r with r^4 >= value.         *)
Root4(value) ==
  LET high[h \in Nat] == IF Pow4(h) > value THEN h ELSE high[2 * h]
      search[b \in Nat \X Nat] ==
        LET lo  == b[1]
            hi  == b[2]
            mid == lo + ((hi - lo) \div 2)
        IN  IF lo >= hi THEN lo
            ELSE IF Pow4(mid) >= value THEN search[<<lo, mid>>] ELSE search[<<mid + 1, hi>>]
  IN  IF value <= 1 THEN value ELSE search[<<1, high[1]>>]

----------------------------------------------------------------------------
(* The curve without fees: x and y are the reserves of token 0 and 1.      *)

(* Variant for mutation: a remainder does not cost the wallet a unit.      *)
OutZeroForOneNoRemainder(dx, x, y) == y - (Constant(x, y) \div Pow4(x + dx))

(* swap_base_input_without_fees_zero_to_one                                *)
OutZeroForOne(dx, x, y) ==
  LET k   == Constant(x, y)
      out == y - (k \div Pow4(x + dx))
  IN  IF k % Pow4(x + dx) > 0 /\ out > 0 THEN out - 1 ELSE out

(* swap_base_output_without_fees_zero_to_one: the root is that of a u128,  *)
(* so no more than 2^32.                                                   *)
InZeroForOne(dy, x, y) == Root4(Wide(Constant(x, y) \div (y - dy))) - x + 1

(* swap_base_input_without_fees_one_to_zero: above u128 the search for the *)
(* root may stop `slack' above it.                                         *)
OutOneForZero(dy, x, y, slack) ==
  LET x4 == Constant(x, y) \div (y + dy)
  IN  x - (Root4(x4) + (IF x4 > WideMax THEN slack ELSE 0))

(* swap_base_output_without_fees_one_to_zero                               *)
InOneForZero(dx, x, y) == Wide(Constant(x, y) \div Pow4(x - dx)) - y + 1

(* The two directions behind one name: i is the side paid in.  CurveIn     *)
(* wants less than the whole reserve (an assert or a division by zero).    *)
CurveOut(i, amount, r, slack) ==
  IF i = 0 THEN OutZeroForOne(amount, r[0], r[1])
           ELSE OutOneForZero(amount, r[0], r[1], slack)

CurveIn(i, amount, r) ==
  IF i = 0 THEN InZeroForOne(amount, r[0], r[1])
           ELSE InOneForZero(amount, r[0], r[1])

----------------------------------------------------------------------------
(* The pool.                                                               *)
FeesOf(i) == fees["protocol"][i] + fees["fund"][i] + fees["creator"][i]

(* Variant for mutation: the fees are not set apart.                       *)
ReserveWithFees(i) == vault[i]

(* vault_amount_without_fee *)
Reserve(i) == vault[i] - FeesOf(i)
Reserves   == [i \in Sides |-> Reserve(i)]

(* is_creator_fee_on_input, i the side paid in *)
CreatorFeeOnInput(i) ==
  \/ pool.creator_fee_on = "BothToken"
  \/ pool.creator_fee_on = "OnlyToken0" /\ i = 0
  \/ pool.creator_fee_on = "OnlyToken1" /\ i = 1

CreatorRate == IF pool.enable_creator_fee THEN amm_config.creator ELSE 0

Allowed(op) == pool.created /\ op \notin pool.status

Step == steps < MaxSteps /\ steps' = steps + 1

ISqrt(n) == CHOOSE r \in 0..n : r * r <= n /\ (r + 1) * (r + 1) > n

(* What the creator gets of the LP tokens.                                 *)
Minted(liquidity) == liquidity - LockedLp

(* The part initialize and initialize_with_permission share: the vaults    *)
(* are filled, the creator is minted the square root of their product less *)
(* what is locked, lp_supply counts the locked part too.                   *)
CreatePool(w, amounts, fee_on, enable) ==
  LET liquidity == ISqrt(amounts[1] * amounts[2])
  IN  /\ Step
      /\ ~pool.created
      /\ amounts[1] > 0 /\ amounts[2] > 0
      /\ liquidity \in Nat /\ liquidity >= LockedLp
      /\ pool' = [created |-> TRUE, lp_supply |-> liquidity,
                  creator_fee_on |-> fee_on, enable_creator_fee |-> enable,
                  status |-> {}]
      /\ vault' = [i \in Sides |-> amounts[i + 1]]
      /\ lp' = [lp EXCEPT ![w] = @ + Minted(liquidity)]
      /\ UNCHANGED <<amm_config, fees, open, referralVars>>

Initialize(w, amounts) == CreatePool(w, amounts, "BothToken", FALSE)

InitializeWithPermission(w, amounts, fee_on) ==
  w \in Permitted /\ CreatePool(w, amounts, fee_on, TRUE)

(* The clock reaches open_time. *)
Open == pool.created /\ ~open /\ open' = TRUE
        /\ UNCHANGED <<amm_config, pool, fees, vault, lp, steps, referralVars>>

(* Variant for mutation: a depositor pays the amount rounded down.         *)
DepositAmountFloor(amount, reserve) == (amount * reserve) \div pool.lp_supply

(* lp_tokens_to_trading_tokens, Ceiling: nothing is rounded up to one.     *)
DepositAmount(amount, reserve) ==
  LET floor == (amount * reserve) \div pool.lp_supply
  IN  IF floor > 0 THEN CeilDiv(amount * reserve, pool.lp_supply) ELSE 0

WithdrawAmount(amount, reserve) == (amount * reserve) \div pool.lp_supply

(* deposit: max[i] is maximum_token_i_amount, here one limit for both.     *)
Deposit(w, amount, maximum) ==
  LET paid == [i \in Sides |-> DepositAmount(amount, Reserve(i))]
  IN  /\ Step
      /\ Allowed("deposit")
      /\ pool.lp_supply > 0
      /\ \A i \in Sides : Reserve(i) >= 0 /\ paid[i] > 0 /\ paid[i] <= maximum
      /\ vault' = [i \in Sides |-> vault[i] + paid[i]]
      /\ pool' = [pool EXCEPT !.lp_supply = @ + amount]
      /\ lp' = [lp EXCEPT ![w] = @ + amount]
      /\ UNCHANGED <<amm_config, fees, open, referralVars>>

Withdraw(w, amount, minimum) ==
  LET taken == [i \in Sides |-> WithdrawAmount(amount, Reserve(i))]
  IN  /\ Step
      /\ lp[w] >= amount
      /\ Allowed("withdraw")
      /\ pool.lp_supply >= amount
      /\ \A i \in Sides : Reserve(i) >= 0 /\ taken[i] > 0 /\ taken[i] >= minimum
      /\ vault' = [i \in Sides |-> vault[i] - taken[i]]
      /\ pool' = [pool EXCEPT !.lp_supply = @ - amount]
      /\ lp' = [lp EXCEPT ![w] = @ - amount]
      /\ UNCHANGED <<amm_config, fees, open, referralVars>>

----------------------------------------------------------------------------
(* Swaps.  A quote says what the calculator worked out: net goes into the  *)
(* curve and swapped comes out, the wallet pays `paid' and gets `out'.     *)
Quote(net, swapped, trade, creator, paid, out) ==
  [net |-> net, swapped |-> swapped, trade |-> trade, creator |-> creator,
   paid |-> paid, out |-> out]

CreatorFeeIn(i, amount, rate) == IF CreatorFeeOnInput(i) THEN Fee(amount, rate) ELSE 0

(* What is left of a payment for the curve; rate is that of the creator.   *)
NetInput(i, amount, rate) ==
  amount - Fee(amount, amm_config.trade) - CreatorFeeIn(i, amount, rate)

(* CurveCalculator::swap_base_input *)
QuoteInput(i, amount, rate, slack) ==
  LET trade   == Fee(amount, amm_config.trade)
      fee_in  == CreatorFeeIn(i, amount, rate)
      net     == NetInput(i, amount, rate)
      swapped == CurveOut(i, net, Reserves, slack)
      fee_out == IF CreatorFeeOnInput(i) THEN 0 ELSE Fee(swapped, rate)
  IN  Quote(net, swapped, trade, fee_in + fee_out, amount, swapped - fee_out)

(* What has to come out of the curve: actual_output_amount.                *)
SwappedOutput(i, amount, rate) ==
  IF CreatorFeeOnInput(i) THEN amount ELSE PreFee(amount, rate)

(* The calculator gives up when the fees are all of the amount or, the     *)
(* creator fee being on the input, when there is no fee at all; the curve  *)
(* cannot give the whole reserve, and panics when the saturated value is   *)
(* below what the vault holds (checked_sub).                               *)
CanQuoteOutput(i, amount, rate) ==
  /\ amm_config.trade + rate < Denominator
  /\ CreatorFeeOnInput(i) => amm_config.trade + rate > 0
  /\ SwappedOutput(i, amount, rate) < Reserve(1 - i)
  /\ CurveIn(i, SwappedOutput(i, amount, rate), Reserves) > 0

(* CurveCalculator::swap_base_output; split_creator_fee rounds down.       *)
QuoteOutput(i, amount, rate) ==
  LET swapped == SwappedOutput(i, amount, rate)
      net     == CurveIn(i, swapped, Reserves)
      paid    == PreFee(net, amm_config.trade + (IF CreatorFeeOnInput(i) THEN rate ELSE 0))
      fee_in  == IF CreatorFeeOnInput(i)
                 THEN ((paid - net) * rate) \div (amm_config.trade + rate) ELSE 0
  IN  Quote(net, swapped, paid - net - fee_in,
            IF CreatorFeeOnInput(i) THEN fee_in ELSE swapped - amount, paid, amount)

(* The part of the trade fee the pool keeps for the protocol, and the part *)
(* it hands out at once, in percent and rounded down.  What counts is how  *)
(* many uppers the caller names, which is for the caller to choose: the    *)
(* accounts are optional, that of the referral record included.            *)
ProtocolFee(uppers, trade) == (trade * (IF uppers > 0 THEN 40 ELSE 70)) \div 100
Reward(uppers, trade)      == (trade * (IF uppers > 0 THEN 60 ELSE 30)) \div 100

(* transfer_from_pool_vault_to_uppers_and_project: who gets the reward.    *)
RewardShares(uppers, reward) ==
  LET half  == reward \div 2
      chain == reward - half
      first == (chain * 5) \div 6
  IN  CASE uppers = 0 -> [project |-> reward, upper |-> 0, upper_upper |-> 0]
        [] uppers = 1 -> [project |-> half, upper |-> chain, upper_upper |-> 0]
        [] OTHER      -> [project |-> half, upper |-> first, upper_upper |-> chain - first]

(* What the reward takes out of the vault of the token paid in.            *)
RewardPaid(uppers, reward) ==
  LET shares == RewardShares(uppers, reward)
  IN  shares.project + shares.upper + shares.upper_upper

(* The reward leaves the vault of the token paid in, by a transfer that    *)
(* names the reward mint of the caller: any other mint is refused.         *)
RewardPayable(i, mint, reward) == reward > 0 => mint = i

After(i, q) == [Reserves EXCEPT ![i] = @ + q.net, ![1 - i] = @ - q.swapped]

(* require_gte!(constant_after, constant_before) *)
KeepsConstant(i, q) ==
  Constant(After(i, q)[0], After(i, q)[1]) >= Constant(Reserve(0), Reserve(1))

(* What both swap instructions do with a quote; the amounts are unsigned.  *)
(* The reward leaves the vault before the payment of the wallet comes in.  *)
(* The caller names the uppers and the mint of the reward.                 *)
Swap(i, q, uppers, mint) ==
  LET reward == Reward(uppers, q.trade)
      side   == IF CreatorFeeOnInput(i) THEN i ELSE 1 - i
  IN  /\ q.net \in Nat
      /\ q.swapped \in 0..Reserve(1 - i)
      /\ q.paid > 0 /\ q.out > 0
      /\ After(i, q)[i] <= WideMax
      /\ KeepsConstant(i, q)
      /\ fees' = [fees EXCEPT !["protocol"][i] = @ + ProtocolFee(uppers, q.trade),
                              !["creator"][side] = @ + q.creator]
      /\ vault[i] >= reward
      /\ RewardPayable(i, mint, reward)
      /\ vault' = [vault EXCEPT ![i] = @ - RewardPaid(uppers, reward) + q.paid,
                                ![1 - i] = @ - q.out]

(* A swap is let through at all, and the prices can be worked out.         *)
MaySwap == Allowed("swap") /\ open /\ \A i \in Sides : Reserve(i) > 0

SwapBaseInput(i, amount, minimum, slack, uppers, mint) ==
  LET q == QuoteInput(i, amount, CreatorRate, slack)
  IN  /\ Step
      /\ MaySwap
      /\ Swap(i, q, uppers, mint)
      /\ q.out >= minimum
      /\ UNCHANGED <<amm_config, pool, lp, open, referralVars>>

SwapBaseOutput(i, amount, maximum, uppers, mint) ==
  LET q == QuoteOutput(i, amount, CreatorRate)
  IN  /\ Step
      /\ MaySwap
      /\ CanQuoteOutput(i, amount, CreatorRate)
      /\ Swap(i, q, uppers, mint)
      /\ q.paid <= maximum
      /\ UNCHANGED <<amm_config, pool, lp, open, referralVars>>

----------------------------------------------------------------------------
(* Fees and administration.                                                *)
(* collect_protocol_fee and collect_fund_fee: what is there, at most what  *)
(* is asked for.                                                           *)
CollectFee(kind, requested) ==
  LET amount == [i \in Sides |-> Lesser(requested, fees[kind][i])]
  IN  /\ Step
      /\ pool.created
      /\ \A i \in Sides : amount[i] <= vault[i]
      /\ fees' = [fees EXCEPT ![kind] = [i \in Sides |-> @[i] - amount[i]]]
      /\ vault' = [i \in Sides |-> vault[i] - amount[i]]
      /\ UNCHANGED <<amm_config, pool, lp, open, referralVars>>

CollectCreatorFee ==
  /\ Step
  /\ pool.created
  /\ \E i \in Sides : fees["creator"][i] > 0
  /\ \A i \in Sides : fees["creator"][i] <= vault[i]
  /\ fees' = [fees EXCEPT !["creator"] = [i \in Sides |-> 0]]
  /\ vault' = [i \in Sides |-> vault[i] - fees["creator"][i]]
  /\ UNCHANGED <<amm_config, pool, lp, open, referralVars>>

UpdatePoolStatus(status) ==
  /\ Step
  /\ pool.created
  /\ pool' = [pool EXCEPT !.status = status]
  /\ UNCHANGED <<amm_config, fees, vault, lp, open, referralVars>>

(* update_amm_config changes one rate; the two together stay below one.    *)
UpdateAmmConfig(config) ==
  /\ Step
  /\ config.trade = amm_config.trade \/ config.creator = amm_config.creator
  /\ config.trade + config.creator <= Denominator
  /\ amm_config' = config
  /\ UNCHANGED <<pool, fees, vault, lp, open, referralVars>>

ReferralStep == Step /\ ReferralNext /\ UNCHANGED <<amm_config, pool, fees, vault, lp, open>>

Next ==
  \/ \E w \in Wallets, amounts \in InitAmounts : Initialize(w, amounts)
  \/ \E w \in Wallets, amounts \in InitAmounts, fee_on \in FeeOns :
       InitializeWithPermission(w, amounts, fee_on)
  \/ Open
  \/ \E w \in Wallets, amount \in Amounts, maximum \in Maximums : Deposit(w, amount, maximum)
  \/ \E w \in Wallets, amount \in Amounts, minimum \in Minimums : Withdraw(w, amount, minimum)
  \/ \E i, mint \in Sides, amount \in Amounts, uppers \in 0..2 :
       \/ \E maximum \in Maximums : SwapBaseOutput(i, amount, maximum, uppers, mint)
       \/ \E minimum \in Minimums, slack \in RootSlack :
            SwapBaseInput(i, amount, minimum, slack, uppers, mint)
  \/ \E kind \in {"protocol", "fund"}, amount \in Amounts : CollectFee(kind, amount)
  \/ CollectCreatorFee
  \/ \E status \in Statuses : UpdatePoolStatus(status)
  \/ \E config \in Configs : UpdateAmmConfig(config)
  \/ ReferralStep

Spec == Init /\ [][Next]_vars

----------------------------------------------------------------------------
(* Properties.                                                             *)
TypeOK ==
  /\ ReferralTypeOK
  /\ amm_config \in Config
  /\ pool \in [created : BOOLEAN, lp_supply : Nat, creator_fee_on : FeeOns,
               enable_creator_fee : BOOLEAN, status : SUBSET {"deposit", "withdraw", "swap"}]
  /\ fees \in [FeeKinds -> [Sides -> Nat]]
  /\ vault \in [Sides -> Nat]
  /\ lp \in [Wallets -> Nat]
  /\ open \in BOOLEAN
  /\ steps \in Nat

(* What the pool owes in fees is always in its vaults: the subtraction of  *)
(* vault_amount_without_fee (pool.rs:205) never fails, which would stop    *)
(* every instruction of the pool but the collections.                      *)
Solvent == \A i \in Sides : vault[i] >= FeesOf(i)

(* No instruction of a wallet takes value from the other holders of LP     *)
(* tokens: when the supply changes, no reserve falls per LP token; when it *)
(* does not, x^4 * y does not fall.  Rewards, protocol and creator fees    *)
(* come out of the fee of the swap, never out of the reserves.             *)
ShareKept ==
  pool.created =>
    IF pool'.lp_supply # pool.lp_supply
    THEN \A i \in Sides : Reserve(i)' * pool.lp_supply >= Reserve(i) * pool'.lp_supply
    ELSE Constant(Reserve(0)', Reserve(1)') >= Constant(Reserve(0), Reserve(1))

ShareNeverFalls == [][ShareKept]_vars

(* Whether a quote of token 1 for token 0 rounds the root the wrong way:   *)
(* k / y is cut off to a fourth power.                                     *)
CutToFourthPower(dy) ==
  LET k == Constant(Reserve(0), Reserve(1))
      y == Reserve(1) + dy
      v == k \div y
  IN  k % y > 0 /\ Pow4(Root4(v)) = v

(* Whether the value a quote for an exact output is worked out from does   *)
(* not fit u128 and is cut off there.                                      *)
Saturates(i, amount) ==
  Constant(Reserve(0), Reserve(1))
    \div (IF i = 0 THEN Reserve(1) - amount ELSE Pow4(Reserve(0) - amount)) > WideMax

(* The curve itself never gives a quote the check of the constant would    *)
(* refuse (swap_base_input.rs:307), but for two cases.  Token 1 is paid in *)
(* and the division cuts off a remainder in front of a fourth power; the   *)
(* tests assert the constant without exception (constant_product.rs:635).  *)
(* Or an exact output is asked for and x^4 after it is beyond u128, which  *)
(* is met once the reserve of token 0 nears 2^32 (constant_product.rs:55): *)
(* then the root asks too little, or panics.                               *)
QuotesKeepConstant ==
  pool.created =>
    \A amount \in Amounts, i \in Sides :
      LET given == CurveOut(i, amount, Reserves, 0)
      IN  /\ \/ KeepsConstant(i, Quote(amount, given, 0, 0, amount, given))
             \/ i = 1 /\ CutToFourthPower(amount)
          /\ amount < Reserve(1 - i) =>
               LET asked == CurveIn(i, amount, Reserves)
               IN  \/ KeepsConstant(i, Quote(asked, amount, 0, 0, asked, amount))
                   \/ Saturates(i, amount)
=============================================================================
