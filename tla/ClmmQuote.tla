------------------------------ MODULE ClmmQuote ------------------------------
(***************************************************************************)
(* The server's quotes for swaps on a concentrated-liquidity pool          *)
(* (utils/src/solana/swap_calculator.rs): it loads the tick array the swap *)
(* starts in and the next MoreArrays that have ticks, and repeats the loop *)
(* of the program over them.  The arrays it went through are the ones the  *)
(* transaction names.                                                      *)
(*                                                                         *)
(* As in ClmmPool the curve is left out: what is followed is a swap that   *)
(* is large enough to go on, from tick to tick.  The pool, the bitmap and  *)
(* the arrays are taken as read at one moment.                             *)
(***************************************************************************)
EXTENDS ClmmPool

CONSTANTS
  MoreArrays,   \* load_cur_and_next_five_tick_array_like_cli: 5
  MaxTurns      \* turns of a loop before its limit, 11: `loop_count > 10'

ASSUME QuoteAssumption == MoreArrays \in Nat \ {0} /\ MaxTurns \in Nat

----------------------------------------------------------------------------
(* Of the tick arrays ahead of b, the first MoreArrays. *)
NextArrays(zero_for_one, b) ==
  LET ahead == ArraysAhead(zero_for_one, b)
      nearer(c) == {d \in ahead : IF zero_for_one THEN d > c ELSE d < c}
  IN  {c \in ahead : Cardinality(nearer(c)) < MoreArrays}

(* The state of a loop before its first turn.  The queue of the arrays     *)
(* loaded is a set: they are taken in the order of the swap.  A loop is    *)
(* `over' when it has ended before the swap has.                           *)
QuoteStart(zero_for_one) ==
  LET first == Nearest(FirstArrays(zero_for_one), zero_for_one)
  IN  [tick |-> pool.tick_current, liquidity |-> pool.liquidity,
       first |-> first, array |-> first, queue |-> NextArrays(zero_for_one, first),
       visited |-> {}, turns |-> 0, over |-> FALSE]

(* TickArrayState::next_initialized_tick, none in an array the tick is not *)
(* in.                                                                     *)
TicksOfArrayAhead(array, tick, zero_for_one) ==
  {t \in InArray(array) \cap Ahead(zero_for_one, tick) : ArrayOf(tick) = array}

(* Variant for mutation: the swap stays on the tick it has crossed.        *)
VisitStays(s, t, array, zero_for_one) ==
  [s EXCEPT !.tick      = t,
            !.liquidity = @ + (IF zero_for_one THEN -ticks[t].net ELSE ticks[t].net),
            !.array     = array,
            !.queue     = @ \ {array},
            !.visited   = @ \cup {t},
            !.turns     = @ + 1]

(* The swap gets to tick t of the given array.                             *)
Visit(s, t, array, zero_for_one) ==
  [s EXCEPT !.tick      = IF zero_for_one THEN t - 1 ELSE t,
            !.liquidity = @ + (IF zero_for_one THEN -ticks[t].net ELSE ticks[t].net),
            !.array     = array,
            !.queue     = @ \ {array},
            !.visited   = @ \cup {t},
            !.turns     = @ + 1]

(* The array the loop expects to be the next: the start index it is looked *)
(* up from is shadowed inside the loop and stays that of the first array.  *)
Expected(s, zero_for_one) == ArraysAhead(zero_for_one, s.first)

(* One turn of the loop of swap_compute_cli_exact: over means an error, of *)
(* the limit of turns too.  It takes the first array for the pool's own in *)
(* any case, so it looks for no first tick of an array ahead of the pool   *)
(* but goes on to the second.                                              *)
QuoteTurn(s, zero_for_one) ==
  LET here == TicksOfArrayAhead(s.array, s.tick, zero_for_one)
      next == Nearest(s.queue, zero_for_one)
      lost == /\ here = {}
              /\ \/ s.queue = {} \/ Expected(s, zero_for_one) = {}
                 \/ next # Nearest(Expected(s, zero_for_one), zero_for_one)
                 \/ InArray(next) = {}
  IN  IF s.over \/ s.turns = MaxTurns \/ lost THEN [s EXCEPT !.over = TRUE]
      ELSE IF here # {} THEN Visit(s, Nearest(here, zero_for_one), s.array, zero_for_one)
      ELSE Visit(s, Nearest(InArray(next), zero_for_one), next, zero_for_one)

(* One turn of the loop of get_output_amount_with_final_price, which tells *)
(* the impact on the price.  It takes the arrays as they come; over means  *)
(* a break, and an answer that is about what has been swapped so far.      *)
ImpactTurn(s, zero_for_one) ==
  LET here == TicksOfArrayAhead(s.array, s.tick, zero_for_one)
      next == Nearest(s.queue, zero_for_one)
      lost == here = {} /\ (s.queue = {} \/ InArray(next) = {})
  IN  IF s.over \/ s.turns = MaxTurns \/ lost THEN [s EXCEPT !.over = TRUE]
      ELSE IF here # {} THEN Visit(s, Nearest(here, zero_for_one), s.array, zero_for_one)
      ELSE Visit(s, Nearest(InArray(next), zero_for_one), next, zero_for_one)

(* The states of the two loops after each turn, the one their limit cuts   *)
(* off included.                                                           *)
Turns == 0..(MaxTurns + 1)

Quoted(zero_for_one) ==
  LET after[n \in Turns] ==
        IF n = 0 THEN QuoteStart(zero_for_one) ELSE QuoteTurn(after[n - 1], zero_for_one)
  IN  after

Impact(zero_for_one) ==
  LET after[n \in Turns] ==
        IF n = 0 THEN QuoteStart(zero_for_one) ELSE ImpactTurn(after[n - 1], zero_for_one)
  IN  after

----------------------------------------------------------------------------
(* Properties.                                                             *)

(* As long as it goes on, a quote goes with the liquidity the positions    *)
(* have put where it is, and the impact is that of the same swap.  It gives*)
(* up only at its limit, each turn having crossed a tick of its own, or    *)
(* with the ticks of two arrays used up; no swap keeps the loop going for  *)
(* longer.  Of a pool with no ticks ahead there is no quote.  And the first *)
(* and the last are about pools whose current array has ticks: where it    *)
(* has none the program starts in the next array that has (swap.rs:331),   *)
(* the quote leaves that one out (swap_calculator.rs:900).                 *)
QuoteSeesPositions ==
  ~swap.on =>
    \A zero_for_one \in {z \in BOOLEAN : FirstArrays(z) # {}} :
      LET quote  == Quoted(zero_for_one)
          impact == Impact(zero_for_one)
          last   == quote[MaxTurns + 1]
          first  == ArrayOf(pool.tick_current)
          arrays == {first} \cup {b \in ArraysAhead(zero_for_one, first) :
                                     ArraysAhead(zero_for_one, first) \ {b}
                                       = ArraysAhead(zero_for_one, b)}
          within == {t \in Ahead(zero_for_one, pool.tick_current) : ArrayOf(t) \in arrays}
      IN  /\ \A n \in Turns :
               LET quoted == quote[n]
               IN  quoted.over \/
                     /\ impact[n].visited = quoted.visited
                     /\ first \in bitmap =>
                          quoted.liquidity = LiquidityOn({r \in Ranges : InRange(r, quoted.tick)})
          /\ first \in bitmap =>
               /\ last.over
               /\ Cardinality(last.visited) = MaxTurns \/ last.visited = within
=============================================================================
