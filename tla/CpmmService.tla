---------------------------- MODULE CpmmService ----------------------------
(***************************************************************************)
(* The server's CPMM services (server/src/services/solana/cpmm): from the  *)
(* accounts of the pool they work out what a swap, a deposit or a          *)
(* withdrawal will give and build the transaction with the limits the      *)
(* wallet's slippage allows.  The pool may move on before the transaction  *)
(* arrives; then the limits decide, as they do in CpmmPool.  What is       *)
(* stated here is about a pool that did not move.  The accounts are        *)
(* fetched in one call, so a quote is a function of one state.             *)
(***************************************************************************)
EXTENDS CpmmPool, FiniteSetsExt

CONSTANTS
  Exact,        \* 2^53: the natural numbers below are doubles, not all those above are
  Scales,       \* the powers of two a double is scaled by
  Slippages     \* the slippages of requests, in parts of Exact

ASSUME ServiceAssumption ==
  /\ Exact \in Nat \ {0, 1} /\ Exact % 2 = 0
  /\ Scales \subseteq Nat \ {0} /\ IsFiniteSet(Scales)
  /\ {1, 2, Exact} \subseteq Scales
  /\ \A s \in Scales : 2 * s \in Scales \/ \A t \in Scales : t <= s
  /\ \A s \in Scales \ {1} : \E t \in Scales : s = 2 * t
  /\ Slippages \subseteq {s \in 0..Exact : s % 2 = 0}

----------------------------------------------------------------------------
(* Doubles.  The rational number n / d becomes the nearest of the multiples *)
(* of the spacing that doubles have there, of two the even one.            *)
Nearest(n, d) ==
  LET q     == n \div d
      twice == 2 * (n % d)
  IN  IF twice > d \/ (twice = d /\ q % 2 = 1) THEN q + 1 ELSE q

(* Below Exact the spacing is one part of Finer, above it is Coarser.      *)
Finer(n, d)   == Max({s \in Scales : n * s < Exact * d})
Coarser(n, d) == Min({s \in Scales : n < (Exact * d) * s})

Coarse(n, d) ==
  LET spacing == Coarser(n, d) IN spacing * Nearest(n, d * spacing)

(* (n / d).floor() and (n / d).ceil() *)
FloorDouble(n, d) ==
  LET parts == Finer(n, d)
  IN  IF n < Exact * d THEN Nearest(n * parts, d) \div parts ELSE Coarse(n, d)

CeilDouble(n, d) ==
  LET parts == Finer(n, d)
  IN  IF n < Exact * d THEN CeilDiv(Nearest(n * parts, d), parts) ELSE Coarse(n, d)

(* amount_with_slippage: the amount as a double, times one more or less    *)
(* the slippage, the product a double again.                               *)
AmountWithSlippage(amount, slippage, round_up) ==
  LET cast == FloorDouble(amount, 1)
  IN  IF round_up THEN CeilDouble(cast * (Exact + slippage), Exact)
                  ELSE FloorDouble(cast * (Exact - slippage), Exact)

----------------------------------------------------------------------------
(* Variant for mutation: the rate of the configuration, whatever the pool. *)
ServiceRateUnadjusted == amm_config.creator

(* The creator fee as the services adjust it to the pool. *)
ServiceRate == IF pool.enable_creator_fee THEN amm_config.creator ELSE 0

(* The uppers the transaction of w names, read from the referral records.  *)
Uppers(w) ==
  IF upper[w] = None THEN 0 ELSE IF UpperUpper(w) = None THEN 1 ELSE 2

(* compute_cpmm_swap_base_in and the transaction: what will come out, the  *)
(* least of it, and the mint the reward is to be paid in.                  *)
ComputeSwapBaseIn(i, amount, slippage, slack) ==
  LET received == QuoteInput(i, amount, ServiceRate, slack).out
  IN  [received |-> received, reward_mint |-> i,
       minimum  |-> AmountWithSlippage(received, slippage, FALSE)]

(* compute_cpmm_swap_base_out and the transaction: what will go in, the    *)
(* most of it, and the mint of the reward, here that of the token paid out.*)
ComputeSwapBaseOut(i, amount, slippage) ==
  LET paid == QuoteOutput(i, amount, ServiceRate).paid
  IN  [paid    |-> paid, reward_mint |-> 1 - i,
       maximum |-> AmountWithSlippage(paid, slippage, TRUE)]

(* compute_cpmm_deposit: the most of the token of side i. *)
ComputeDepositMax(i, amount, slippage) ==
  AmountWithSlippage(DepositAmount(amount, Reserve(i)), slippage, TRUE)

(* compute_withdraw: the least of the token of side i.  The service rounds *)
(* the share up, as for a deposit; the program rounds it down.             *)
ComputeWithdrawMin(i, amount, slippage) ==
  AmountWithSlippage(DepositAmount(amount, Reserve(i)), slippage, FALSE)

----------------------------------------------------------------------------
(* Properties.                                                             *)

(* As long as the pool stays as it was, a swap gives and takes what was    *)
(* quoted, and nothing the services put in the transaction makes the       *)
(* program refuse it (swap_base_input.rs:292, swap_base_output.rs:112 for  *)
(* the limits, :344 for the reward), with two exceptions.  The limit of an *)
(* amount no double holds may lie on the wrong side of it.  And exact      *)
(* output pays no reward: the transaction names the mint paid out          *)
(* (swap_service.rs:1821) where the reward is taken from the vault of the  *)
(* mint paid in, and is refused whenever a reward is due.                  *)
SwapQuotesHonoured ==
  \A i \in Sides, amount \in Amounts, slippage \in Slippages :
    /\ \A slack \in RootSlack :
         LET given == QuoteInput(i, amount, CreatorRate, slack)
             built == ComputeSwapBaseIn(i, amount, slippage, slack)
         IN  NetInput(i, amount, CreatorRate) >= 0 /\ given.out \in Nat \ {0} =>
               /\ built.received = given.out
               /\ given.out < Exact => built.minimum <= given.out
               /\ \A w \in Wallets :
                    RewardPayable(i, built.reward_mint, Reward(Uppers(w), given.trade))
    /\ LET asked  == QuoteOutput(i, amount, CreatorRate)
           built  == ComputeSwapBaseOut(i, amount, slippage)
           due(w) == Reward(Uppers(w), asked.trade)
       IN  CanQuoteOutput(i, amount, CreatorRate) =>
             /\ built.paid = asked.paid
             /\ asked.paid < Exact => asked.paid <= built.maximum
             /\ \A w \in Wallets : RewardPayable(i, built.reward_mint, due(w)) <=> due(w) = 0

(* The same of deposits (deposit.rs:181) and withdrawals (withdraw.rs:192).*)
(* Withdrawals without any slippage are left out: for them the share the   *)
(* service rounds up is refused unless it is whole.                        *)
LiquidityQuotesHonoured ==
  \A i \in Sides, amount \in Amounts, slippage \in Slippages :
    DepositAmount(amount, Reserve(i)) < Exact =>
      /\ DepositAmount(amount, Reserve(i)) <= ComputeDepositMax(i, amount, slippage)
      /\ slippage > 0 /\ WithdrawAmount(amount, Reserve(i)) > 0 =>
           ComputeWithdrawMin(i, amount, slippage) <= WithdrawAmount(amount, Reserve(i))

(* What the services promise of a pool that does not move, together.       *)
QuotesHonoured ==
  pool.created /\ pool.lp_supply > 0 /\ (\A i \in Sides : Reserve(i) > 0) =>
    SwapQuotesHonoured /\ LiquidityQuotesHonoured
=============================================================================
