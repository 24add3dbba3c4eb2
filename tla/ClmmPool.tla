------------------------------ MODULE ClmmPool ------------------------------
(***************************************************************************)
(* The books of one pool of the concentrated-liquidity program             *)
(* (crates/solana/amm, the member of the workspace; crates/solana/clmm is  *)
(* an older copy): liquidity on ticks, growth of fees and rewards inside   *)
(* ranges, and what positions are owed.                                    *)
(*                                                                         *)
(* Prices are integers: tick t has price 2 * t, and 2 * t + 1 stands for   *)
(* the prices between t and t + 1.  The curve is left out: a step of a     *)
(* swap goes any way towards its target for any fee, which covers what     *)
(* compute_swap_step can answer.  An instruction is one action and does    *)
(* all of its changes or none; a swap is spread over SwapStart, one        *)
(* SwapStep per turn of its loop and SwapEnd, and no other instruction     *)
(* comes in between.  A swap that cannot end is one that is refused.       *)
(***************************************************************************)
EXTENDS Integers, FiniteSets, FiniteSetsExt, Functions

CONSTANTS
  Ticks,        \* the usable ticks, a set of integers
  ArraySize,    \* ticks in one tick array
  InitPrices,   \* the prices pools are created with
  Ranges,       \* the ranges positions are opened on: <<lower, upper>>
  Positions,    \* personal positions, each the NFT it belongs to
  Liquidities,  \* the liquidity added or taken away, 0 included
  Fees,         \* what one step of a swap may cost, and what is collected of it
  Uppers,       \* whether wallets that swap have an upper
  Emissions,    \* what an update of the reward may emit, in 1/Q of a token
  RewardFund,   \* what the vault of the reward was funded with
  Q,            \* fixed_point_64::Q64
  Modulus,      \* 2^128, where wrapping_sub comes round
  Statuses,     \* the values of the status byte: sets of disabled operations
  MaxSteps      \* bound: instructions on the pool

Tokens == {0, 1}
Reward == 2              \* one reward stands for the three
Assets == Tokens \cup {Reward}
Operations == {"OpenOrIncrease", "Decrease", "CollectFee", "CollectReward", "Swap"}

ASSUME ClmmAssumption ==
  /\ Ticks \subseteq Int /\ IsFiniteSet(Ticks)
  /\ ArraySize \in Nat \ {0}
  /\ InitPrices \subseteq Int
  /\ Ranges \subseteq {r \in Ticks \X Ticks : r[1] < r[2]} /\ Ranges # {}
  /\ IsFiniteSet(Positions)
  /\ Liquidities \subseteq Nat /\ Fees \subseteq Nat /\ Emissions \subseteq Nat
  /\ Uppers \subseteq BOOLEAN
  /\ RewardFund \in Nat
  /\ Q \in Nat \ {0} /\ Modulus \in Nat \ {0}
  /\ Statuses \subseteq SUBSET Operations
  /\ MaxSteps \in Nat

ArrayOf(tick) == (tick \div ArraySize) * ArraySize   \* get_array_start_index
Arrays == {ArrayOf(t) : t \in Ticks}
TickAt(price) == price \div 2                         \* get_tick_at_sqrt_price
PriceAt(tick) == 2 * tick                             \* get_sqrt_price_at_tick
CeilDiv(a, b) == (a + b - 1) \div b
Zero == [a \in Assets |-> 0]

VARIABLES
  pool,           \* PoolState: liquidity, tick_current, price
  status,         \* the operations its status byte disables
  growth,         \* fee_growth_global_{0,1}_x64, reward_growth_global_x64
  total,          \* total_fees_token_{0,1}, reward_total_emissioned
  claimed,        \* total_fees_claimed_token_{0,1}, reward_claimed
  protocol_fees,  \* protocol_fees_token_{0,1}
  reward_vault,   \* what the vault of the reward holds
  ticks,          \* TickState: liquidity_gross, liquidity_net, growths outside
  count,          \* initialized_tick_count of each tick array
  bitmap,         \* the tick arrays whose bit is set, the extension's too
  protocol,       \* ProtocolPositionState of a range: liquidity, growth inside
  personal,       \* PersonalPositionState: range, liquidity, last growth, owed
  swap,           \* SwapState of the swap under way
  steps,          \* instructions so far (bound)
  history         \* what no account keeps, for the properties

books == <<pool, growth, total, ticks, count, bitmap, protocol>>
vars  == <<books, status, claimed, protocol_fees, reward_vault, personal, swap,
           steps, history>>

NoTick == [gross |-> 0, net |-> 0, outside |-> Zero]
NoPosition == [open |-> FALSE, range |-> CHOOSE r \in Ranges : TRUE,
               liquidity |-> 0, last |-> Zero, owed |-> Zero]
NoSwap == [on |-> FALSE]

Init ==
  /\ \E price \in InitPrices :
       pool = [liquidity |-> 0, tick_current |-> TickAt(price), price |-> price]
  /\ status = {}
  /\ growth = Zero /\ total = Zero /\ claimed = Zero
  /\ protocol_fees = [i \in Tokens |-> 0]
  /\ reward_vault = RewardFund
  /\ ticks = [t \in Ticks |-> NoTick]
  /\ count = [b \in Arrays |-> 0]
  /\ bitmap = {}
  /\ protocol = [r \in Ranges |-> [liquidity |-> 0, inside |-> Zero]]
  /\ personal = [p \in Positions |-> NoPosition]
  /\ swap = NoSwap
  /\ steps = 0
  /\ history = [earned   |-> [r \in Ranges |-> Zero],  \* grown while in the range,
                protocol |-> [r \in Ranges |-> Zero],  \* by its last update,
                personal |-> [p \in Positions |-> Zero]] \* by that of the position

(* An instruction starts: no swap is under way.                            *)
Instruction == steps < MaxSteps /\ steps' = steps + 1 /\ ~swap.on
Allowed(op) == op \notin status

----------------------------------------------------------------------------
(* Growth.                                                                 *)

(* update_reward_infos, e being the time passed times the rate: without    *)
(* liquidity nothing is emitted.                                           *)
Emitted(e)  == IF pool.liquidity = 0 THEN 0 ELSE CeilDiv(e, Q)
Grown(e)    == IF pool.liquidity = 0 THEN 0 ELSE e \div pool.liquidity
GrowthAt(e) == [growth EXCEPT ![Reward] = @ + Grown(e)]

InRange(r, tick) == r[1] <= tick /\ tick < r[2]

(* What a growth of asset a by g at the given tick adds to what each range *)
(* has earned.                                                             *)
Earned(a, g, tick) ==
  [r \in Ranges |-> IF InRange(r, tick) THEN [history.earned[r] EXCEPT ![a] = @ + g]
                                        ELSE history.earned[r]]

(* The growth is a u128 and its addition checked.                          *)
Emit(e) ==
  /\ GrowthAt(e)[Reward] < Modulus
  /\ growth' = GrowthAt(e)
  /\ total' = [total EXCEPT ![Reward] = @ + Emitted(e)]

(* get_fee_growth_inside and get_reward_growths_inside, with the ticks ts  *)
(* and the global growths g.                                               *)
Inside(ts, g, r, tick) ==
  [a \in Assets |->
     LET below == IF tick >= r[1] THEN ts[r[1]].outside[a] ELSE g[a] - ts[r[1]].outside[a]
         above == IF tick < r[2] THEN ts[r[2]].outside[a] ELSE g[a] - ts[r[2]].outside[a]
     IN  (g[a] - below - above) % Modulus]

(* calculate_latest_token_fees and update_rewards: what has been earned    *)
(* since `last' is added to what is owed.                                  *)
Accrued(q, inside, a) == (((inside[a] - q.last[a]) % Modulus) * q.liquidity) \div Q
Settled(q, inside) ==
  [q EXCEPT !.owed = [a \in Assets |-> @[a] + Accrued(q, inside, a)], !.last = inside]

----------------------------------------------------------------------------
(* Positions.                                                              *)

(* TickState::update: what grew before a tick was first used is taken to   *)
(* have grown below it.                                                    *)
UpdatedTick(t, delta, upper, g) ==
  LET k == ticks[t]
  IN  [gross   |-> k.gross + delta,
       net     |-> IF upper THEN k.net - delta ELSE k.net + delta,
       outside |-> IF k.gross = 0 /\ t <= pool.tick_current THEN g ELSE k.outside]

(* Variant for mutation: the bit of an array that lost its last tick stays. *)
FlippedArraysFirstOnly(counts) == {b \in Arrays : count[b] = 0 /\ counts[b] # 0}

(* The bits add_liquidity and burn_liquidity flip: those of the arrays     *)
(* that get their first tick or lose their last.                           *)
FlippedArrays(counts) == {b \in Arrays : (count[b] = 0) # (counts[b] = 0)}

(* modify_position with update_position, and the counts and bits its       *)
(* callers set: liquidity delta on the range r.  A delta of zero only      *)
(* brings the growth inside up to date, and wants liquidity to be there.   *)
ModifyPosition(r, delta, e) ==
  LET g       == GrowthAt(e)
      changed == IF delta = 0 THEN ticks
                 ELSE [ticks EXCEPT ![r[1]] = UpdatedTick(r[1], delta, FALSE, g),
                                    ![r[2]] = UpdatedTick(r[2], delta, TRUE, g)]
      flipped == {t \in {r[1], r[2]} : (changed[t].gross = 0) # (ticks[t].gross = 0)}
      counts  == [b \in Arrays |-> count[b] + (IF delta < 0 THEN -1 ELSE 1)
                                     * Cardinality({t \in flipped : ArrayOf(t) = b})]
  IN  /\ delta = 0 => protocol[r].liquidity > 0
      /\ protocol[r].liquidity + delta >= 0
      /\ Emit(e)
      /\ ticks' = [t \in Ticks |-> IF delta < 0 /\ t \in flipped THEN NoTick ELSE changed[t]]
      /\ count' = counts
      /\ bitmap' = SymDiff(bitmap, FlippedArrays(counts))
      /\ protocol' = [protocol EXCEPT ![r] =
                        [liquidity |-> @.liquidity + delta,
                         inside    |-> Inside(changed, g, r, pool.tick_current)]]
      /\ pool' = [pool EXCEPT !.liquidity = IF InRange(r, pool.tick_current) THEN @ + delta ELSE @]

(* What history notes when ModifyPosition brought the range up to date and *)
(* position p took it over, or when p only took over what was there.       *)
Recorded(p, r, e) ==
  LET earned == Earned(Reward, Grown(e), pool.tick_current)
  IN  [history EXCEPT !.earned = earned, !.protocol[r] = earned[r], !.personal[p] = earned[r]]

TakenOver(p, r) == [history EXCEPT !.personal[p] = history.protocol[r]]

(* add_liquidity: without liquidity to add, and none to work out from an   *)
(* amount, it does nothing and the range is not brought up to date.        *)
AddLiquidity(p, r, liquidity, e) ==
  IF liquidity = 0
  THEN UNCHANGED books /\ history' = TakenOver(p, r)
  ELSE ModifyPosition(r, liquidity, e) /\ history' = Recorded(p, r, e)

OpenPosition(p, r, liquidity, e) ==
  /\ Instruction
  /\ ~personal[p].open
  /\ Allowed("OpenOrIncrease")
  /\ AddLiquidity(p, r, liquidity, e)
  /\ personal' = [personal EXCEPT ![p] =
                    [open |-> TRUE, range |-> r, liquidity |-> liquidity,
                     last |-> protocol'[r].inside, owed |-> Zero]]
  /\ UNCHANGED <<status, claimed, protocol_fees, reward_vault, swap>>

IncreaseLiquidity(p, liquidity, e) ==
  LET r == personal[p].range
  IN  /\ Instruction
      /\ personal[p].open
      /\ Allowed("OpenOrIncrease")
      /\ AddLiquidity(p, r, liquidity, e)
      /\ personal' = [personal EXCEPT ![p] =
                        [Settled(personal[p], protocol'[r].inside) EXCEPT
                           !.liquidity = @ + liquidity]]
      /\ UNCHANGED <<status, claimed, protocol_fees, reward_vault, swap>>

(* check_unclaimed_fees_and_vault: the balances of the vaults are left     *)
(* out, so it may find them short of the fees or not.                      *)
CheckVaults(short) == status' = IF short THEN status \cup {"CollectFee"} ELSE status

(* What decrease_liquidity pays out of what is owed: the fees in full, of  *)
(* the reward what the vault holds.                                        *)
Payable(owed, a) ==
  IF a = Reward
  THEN IF ~Allowed("CollectReward") THEN 0
       ELSE IF owed[a] > reward_vault THEN reward_vault ELSE owed[a]
  ELSE IF Allowed("CollectFee") THEN owed[a] ELSE 0

(* decrease_liquidity: the part of it that the status allows.              *)
DecreaseLiquidity(p, liquidity, e, short) ==
  LET r       == personal[p].range
      settled == IF Allowed("Decrease")
                 THEN [Settled(personal[p], protocol'[r].inside) EXCEPT !.liquidity = @ - liquidity]
                 ELSE personal[p]
      paid    == [a \in Assets |-> Payable(settled.owed, a)]
  IN  /\ Instruction
      /\ personal[p].open
      /\ liquidity <= personal[p].liquidity
      /\ \E op \in {"Decrease", "CollectFee", "CollectReward"} : Allowed(op)
      /\ IF Allowed("Decrease")
         THEN ModifyPosition(r, -liquidity, e) /\ history' = Recorded(p, r, e)
         ELSE UNCHANGED <<books, history>>
      /\ \A a \in Assets : paid[a] > 0 => total'[a] - claimed[a] >= settled.owed[a]
      /\ claimed' = [a \in Assets |-> claimed[a] + paid[a]]
      /\ reward_vault' = reward_vault - paid[Reward]
      /\ personal' = [personal EXCEPT ![p] =
                        [settled EXCEPT !.owed = [a \in Assets |-> @[a] - paid[a]]]]
      /\ CheckVaults(short)
      /\ UNCHANGED <<protocol_fees, swap>>

(* close_position: the NFT is burnt and the account goes. *)
ClosePosition(p) ==
  /\ Instruction
  /\ personal[p].open
  /\ personal[p].liquidity = 0
  /\ personal[p].owed = Zero
  /\ personal' = [personal EXCEPT ![p] = NoPosition]
  /\ UNCHANGED <<books, status, claimed, protocol_fees, reward_vault, swap, history>>

----------------------------------------------------------------------------
(* Swaps.  zero_for_one swaps pay token 0 and go to lower ticks.           *)
Initialized(t) == ticks[t].gross # 0
InArray(b)     == {t \in Ticks : ArrayOf(t) = b /\ Initialized(t)}

(* Where a swap may go from a tick, and the nearest of such places.        *)
Ahead(zero_for_one, tick) ==
  {t \in Ticks : Initialized(t) /\ IF zero_for_one THEN t <= tick ELSE t > tick}
ArraysAhead(zero_for_one, b) == {c \in bitmap : IF zero_for_one THEN c < b ELSE c > b}
Nearest(S, zero_for_one) == IF zero_for_one THEN Max(S) ELSE Min(S)

(* get_first_initialized_tick_array: the array of the current tick if its  *)
(* bit is set, and else the next one whose bit is.                         *)
FirstArrays(zero_for_one) ==
  LET here == ArrayOf(pool.tick_current)
  IN  IF here \in bitmap THEN {here} ELSE ArraysAhead(zero_for_one, here)

SwapStart(zero_for_one, upper, e) ==
  /\ Instruction
  /\ Allowed("Swap")
  /\ FirstArrays(zero_for_one) # {}
  /\ Emit(e)
  /\ swap' = [on |-> TRUE, zero_for_one |-> zero_for_one, upper |-> upper,
              tick |-> pool.tick_current, price |-> pool.price,
              liquidity |-> pool.liquidity,
              growth |-> growth[IF zero_for_one THEN 0 ELSE 1],
              fee_amount |-> 0, protocol_fee |-> 0, reward_fee |-> 0, fees_in |-> 0,
              array |-> Nearest(FirstArrays(zero_for_one), zero_for_one),
              matched |-> ArrayOf(pool.tick_current) \in bitmap,
              filled |-> FALSE]
  /\ history' = [history EXCEPT !.earned = Earned(Reward, Grown(e), pool.tick_current)]
  /\ UNCHANGED <<pool, status, claimed, protocol_fees, reward_vault, ticks, count,
                 bitmap, protocol, personal>>

(* next_initialized_tick: in the array the swap is in, from its tick on.   *)
InThisArray == {t \in InArray(swap.array) \cap Ahead(swap.zero_for_one, swap.tick) :
                  ArrayOf(swap.tick) = swap.array}

(* The ticks the loop chooses the next one from: those ahead in its array, *)
(* all of an array it has not entered yet, or all of the next whose bit is *)
(* set.  None is the error LiquidityInsufficient.                          *)
NextTicks ==
  LET arrays == ArraysAhead(swap.zero_for_one, swap.array)
  IN  IF InThisArray # {} THEN InThisArray
      ELSE IF ~swap.matched THEN InArray(swap.array)
      ELSE IF arrays # {} THEN InArray(Nearest(arrays, swap.zero_for_one))
      ELSE {}

(* The part of a step's fee that is set aside for the uppers and the       *)
(* project.                                                                *)
RewardFee(fee) == IF swap.upper THEN (fee * 3) \div 5 ELSE (fee * 3) \div 10

(* Variant for mutation: the growth is rounded up.                         *)
FeeGrowthCeil(kept) == IF swap.liquidity > 0 THEN CeilDiv(kept * Q, swap.liquidity) ELSE 0

FeeGrowth(kept) == IF swap.liquidity > 0 THEN (kept * Q) \div swap.liquidity ELSE 0

(* Variant for mutation: the growth this swap has added is forgotten.      *)
CrossedStale(t, g) ==
  [ticks EXCEPT ![t].outside = [a \in Assets |-> growth[a] - @[a]]]

(* Variant for mutation: the growths of the two tokens change places.      *)
CrossedExchanged(t, g) ==
  [ticks EXCEPT ![t].outside = [a \in Assets |-> (IF a = Reward THEN g[a] ELSE g[1 - a]) - @[a]]]

(* TickState::cross, g the growths at the moment of the crossing.          *)
Crossed(t, g) == [ticks EXCEPT ![t].outside = [a \in Assets |-> g[a] - @[a]]]

(* Variant for mutation: the sign of the direction is forgotten.           *)
CrossingLiquiditySameSign(t) == swap.liquidity + ticks[t].net

(* Going down, what the tick adds is taken away. *)
CrossingLiquidity(t) ==
  swap.liquidity + (IF swap.zero_for_one THEN -ticks[t].net ELSE ticks[t].net)

(* One turn of the loop of swap_internal: the price moves towards that of  *)
(* the next tick, which it may reach, and the fee is split and credited.   *)
(* Without liquidity nothing is paid.  A step that does not get to the     *)
(* tick has used up the amount or met the price limit.                     *)
SwapStep(price, fee) ==
  LET zero_for_one == swap.zero_for_one
      side    == IF zero_for_one THEN 0 ELSE 1
      next    == Nearest(NextTicks, zero_for_one)
      reached == price = PriceAt(next)
      kept    == fee - RewardFee(fee)
      g       == [growth EXCEPT ![side] = swap.growth + FeeGrowth(kept)]
  IN  /\ swap.on /\ ~swap.filled
      /\ NextTicks # {}
      /\ IF zero_for_one THEN PriceAt(next) <= price /\ price <= swap.price
                         ELSE swap.price <= price /\ price <= PriceAt(next)
      /\ fee > 0 => swap.liquidity > 0 /\ ~(reached /\ price = swap.price)
      /\ g[side] < Modulus
      /\ swap' = [swap EXCEPT
                    !.price        = price,
                    !.tick         = IF reached
                                     THEN IF zero_for_one THEN next - 1 ELSE next
                                     ELSE IF price # swap.price THEN TickAt(price) ELSE @,
                    !.liquidity    = IF reached THEN CrossingLiquidity(next) ELSE @,
                    !.growth       = g[side],
                    !.reward_fee   = RewardFee(fee),
                    !.protocol_fee = @ + kept,
                    !.fee_amount   = IF swap.liquidity > 0 THEN @ + kept ELSE @,
                    !.fees_in      = @ + fee,
                    !.array        = ArrayOf(next),
                    !.matched      = TRUE,
                    !.filled       = ~reached]
      /\ ticks' = IF reached THEN Crossed(next, g) ELSE ticks
      /\ history' = [history EXCEPT !.earned = Earned(side, FeeGrowth(kept), swap.tick)]
      /\ UNCHANGED <<pool, status, growth, total, claimed, protocol_fees, reward_vault,
                     count, bitmap, protocol, personal, steps>>

(* The end of the instruction around swap_internal: when the vault paid    *)
(* from holds no more than the payment the pool is frozen (the balances    *)
(* are left out), and the price must have moved the way it should.         *)
SwapPaid(freezes) ==
  /\ status' = IF freezes THEN Operations ELSE status
  /\ IF swap.zero_for_one THEN swap.price < pool.price ELSE swap.price > pool.price

(* The end of swap_internal, and of the instruction.                       *)
SwapEnd(freezes) ==
  LET side == IF swap.zero_for_one THEN 0 ELSE 1
  IN  /\ swap.on
      /\ SwapPaid(freezes)
      /\ pool' = [liquidity |-> swap.liquidity, tick_current |-> swap.tick, price |-> swap.price]
      /\ growth' = [growth EXCEPT ![side] = swap.growth]
      /\ total' = [total EXCEPT ![side] = @ + swap.fee_amount]
      /\ protocol_fees' = [protocol_fees EXCEPT ![side] = @ + swap.protocol_fee]
      /\ swap' = NoSwap
      /\ UNCHANGED <<claimed, reward_vault, ticks, count, bitmap, protocol, personal,
                     steps, history>>

----------------------------------------------------------------------------
(* The rest.                                                               *)
UpdateRewardInfos(e) ==
  /\ Instruction
  /\ Emit(e)
  /\ history' = [history EXCEPT !.earned = Earned(Reward, Grown(e), pool.tick_current)]
  /\ UNCHANGED <<pool, status, claimed, protocol_fees, reward_vault, ticks, count,
                 bitmap, protocol, personal, swap>>

(* collect_protocol_fee: what is there, at most what is asked for.         *)
CollectProtocolFee(requested, short) ==
  /\ Instruction
  /\ protocol_fees' = [i \in Tokens |->
       IF requested[i] < protocol_fees[i] THEN protocol_fees[i] - requested[i] ELSE 0]
  /\ CheckVaults(short)
  /\ UNCHANGED <<books, claimed, reward_vault, personal, swap, history>>

UpdatePoolStatus(new) ==
  /\ Instruction
  /\ status' = new
  /\ UNCHANGED <<books, claimed, protocol_fees, reward_vault, personal, swap, history>>

Prices == UNION {{PriceAt(t), PriceAt(t) + 1} : t \in Ticks}

Next ==
  \/ \E p \in Positions, e \in Emissions, liquidity \in Liquidities :
       \/ \E r \in Ranges : OpenPosition(p, r, liquidity, e)
       \/ IncreaseLiquidity(p, liquidity, e)
       \/ \E short \in BOOLEAN : DecreaseLiquidity(p, liquidity, e, short)
  \/ \E p \in Positions : ClosePosition(p)
  \/ \E zero_for_one \in BOOLEAN, upper \in Uppers, e \in Emissions :
       SwapStart(zero_for_one, upper, e)
  \/ \E price \in Prices, fee \in Fees : SwapStep(price, fee)
  \/ \E freezes \in BOOLEAN : SwapEnd(freezes)
  \/ \E e \in Emissions : UpdateRewardInfos(e)
  \/ \E requested \in [Tokens -> Fees], short \in BOOLEAN : CollectProtocolFee(requested, short)
  \/ \E new \in Statuses : UpdatePoolStatus(new)

Spec == Init /\ [][Next]_vars

----------------------------------------------------------------------------
(* Properties.                                                             *)
(* Every variable has its type, no liquidity and no balance goes below     *)
(* zero, and what grew outside a tick lies within what grew at all, so no  *)
(* checked subtraction of cross and of the growth inside fails, which      *)
(* would stop every swap over the tick (tick_array.rs:393, 448).           *)
TypeOK ==
  /\ pool.liquidity \in Nat /\ pool.tick_current \in Int /\ pool.price \in Int
  /\ status \subseteq Operations
  /\ growth \in [Assets -> 0..(Modulus - 1)]
  /\ total \in [Assets -> Nat] /\ claimed \in [Assets -> Nat]
  /\ protocol_fees \in [Tokens -> Nat] /\ reward_vault \in Nat
  /\ ticks \in [Ticks -> [gross : Nat, net : Int, outside : [Assets -> Nat]]]
  /\ count \in [Arrays -> Nat] /\ bitmap \subseteq Arrays
  /\ protocol \in [Ranges -> [liquidity : Nat, inside : [Assets -> 0..(Modulus - 1)]]]
  /\ personal \in [Positions -> [open : BOOLEAN, range : Ranges, liquidity : Nat,
                                 last : [Assets -> 0..(Modulus - 1)], owed : [Assets -> Nat]]]
  /\ steps \in 0..MaxSteps
  /\ \A t \in Ticks, a \in Assets :
       ticks[t].outside[a] <=
         IF swap.on /\ a = (IF swap.zero_for_one THEN 0 ELSE 1) THEN swap.growth ELSE growth[a]

(* The sum of the liquidity of the positions on ranges R. *)
LiquidityOn(R) ==
  SumFunction([p \in Positions |->
                 IF personal[p].range \in R THEN personal[p].liquidity ELSE 0])

(* The three places liquidity is counted in agree with the positions: on   *)
(* each tick the liquidity that refers to it and what crossing it adds, on *)
(* each range its sum, and in the pool, or in the swap under way, that of  *)
(* the ranges the current tick is in.  Swaps go by nothing else.           *)
LiquidityIsSum ==
  /\ \A t \in Ticks :
       LET from == LiquidityOn({r \in Ranges : r[1] = t})
           to   == LiquidityOn({r \in Ranges : r[2] = t})
       IN  ticks[t].gross = from + to /\ ticks[t].net = from - to
  /\ \A r \in Ranges : protocol[r].liquidity = LiquidityOn({r})
  /\ IF swap.on
     THEN swap.liquidity = LiquidityOn({r \in Ranges : InRange(r, swap.tick)})
     ELSE pool.liquidity = LiquidityOn({r \in Ranges : InRange(r, pool.tick_current)})

(* The search of the loop through one array and then the bitmap (and its   *)
(* extension) finds the nearest tick that is used, or none when there is   *)
(* none, however the ticks were put to use and given up before: a tick     *)
(* passed over would leave its liquidity in the pool (tick_array.rs:191,   *)
(* pool.rs:460).                                                           *)
NextTickIsNearest ==
  swap.on /\ ~swap.filled =>
    LET ahead == Ahead(swap.zero_for_one, swap.tick)
    IN  /\ NextTicks = {} <=> ahead = {}
        /\ ahead # {} => Nearest(NextTicks, swap.zero_for_one) = Nearest(ahead, swap.zero_for_one)

(* What the code takes as grown inside a range since a position's last     *)
(* update, from differences that may come round below zero, is exactly     *)
(* what has grown while the current tick was in the range: nothing from    *)
(* before the position or from outside, whatever ticks were crossed, put   *)
(* to use and given up meanwhile.                                          *)
GrowthIsExact ==
  ~swap.on =>
    \A p \in Positions : personal[p].liquidity > 0 =>
      LET r == personal[p].range
      IN  \A a \in Assets :
            (Inside(ticks, growth, r, pool.tick_current)[a] - personal[p].last[a]) % Modulus
              = history.earned[r][a] - history.personal[p][a]

(* What a position could collect of an asset once brought up to date.      *)
Due(p, a) ==
  LET q == personal[p]
  IN  q.owed[a] + (IF q.liquidity = 0 THEN 0
                   ELSE Accrued(q, Inside(ticks, growth, q.range, pool.tick_current), a))

(* What all positions could collect is in the books of the pool, so the    *)
(* check in front of a payment (decrease_liquidity.rs:354, pool.rs:384)    *)
(* refuses none, in whatever order positions leave, though growth, shares  *)
(* and emissions are each rounded.  It is about the books only: that the   *)
(* vaults hold as much is not stated (see FeesSharedOnce).                 *)
DuesCovered ==
  ~swap.on =>
    \A a \in Assets :
      total[a] - claimed[a] >= SumFunction([p \in Positions |-> Due(p, a)])

(* A fee is shared once: what a swap credits to the positions and to the   *)
(* protocol is no more than the fees it takes.                             *)
FeesSharedOnce == swap.on => swap.fee_amount + swap.protocol_fee <= swap.fees_in
=============================================================================
