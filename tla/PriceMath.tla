------------------------------- MODULE PriceMath -------------------------------
(***************************************************************************)
(* The price arithmetic of src/inc/math.hpp and of the impliers: an        *)
(* implied price is made of the prices of two legs, moved by a commission  *)
(* of _pips hundredths of a percent of each leg in the disfavour of the    *)
(* taker, and rounded to the tick of the engine, up for asks and down for  *)
(* bids.  Prices may be negative (spreads, repo rates).                    *)
(*                                                                         *)
(* The double that repo_out computes is exact as long as its product fits  *)
(* 53 bits, and is then converted to an integer by dropping the fraction.  *)
(***************************************************************************)
EXTENDS Integers

(* The remainder and quotient of C++, which round toward zero.              *)
Rem(a, b) == IF a >= 0 THEN a % b ELSE -((-a) % b)

Quot(a, b) == IF a >= 0 THEN a \div b ELSE -((-a) \div b)

Abs(a) == IF a < 0 THEN -a ELSE a

round_down(price, mini_tick) ==
  LET mod == Rem(price, mini_tick)
  IN  IF mod >= 0 THEN price - mod ELSE price - mod - mini_tick

round_up(price, mini_tick) ==
  LET mod == Rem(price, mini_tick)
  IN  IF mod = 0 THEN price
      ELSE IF mod > 0 THEN price + mini_tick - mod
      ELSE price - mod

handle_pips(price, pips) == Quot(Abs(price) * pips, 10000)

-----------------------------------------------------------------------------

Commission(leg1, leg2, pips) == handle_pips(leg1, pips) + handle_pips(leg2, pips)

add_ask(leg1, leg2, pips, tick) ==
  round_up(leg1 + leg2 + Commission(leg1, leg2, pips), tick)

add_bid(leg1, leg2, pips, tick) ==
  round_down(leg1 + leg2 - Commission(leg1, leg2, pips), tick)

minus_ask(leg1, leg2, pips, tick) ==
  round_up(leg1 - leg2 + Commission(leg1, leg2, pips), tick)

(* Mutant of minus_bid: it rounds like an ask.                              *)
minus_bid_Up(leg1, leg2, pips, tick) ==
  round_up(leg1 - leg2 - Commission(leg1, leg2, pips), tick)

minus_bid(leg1, leg2, pips, tick) ==
  round_down(leg1 - leg2 - Commission(leg1, leg2, pips), tick)

(* The argument of round_up(..., 1) is already an integer when it arrives.  *)
repo_out_ask(leg1, leg2, pips, tick, factor) ==
  round_up(round_up(Quot(leg1 * (factor + leg2), factor), 1)
             + handle_pips(leg1, pips), tick)

(* Here the commission is taken off before the fraction is dropped.         *)
repo_out_bid(leg1, leg2, pips, tick, factor) ==
  round_down(Quot(leg1 * (factor + leg2) - factor * handle_pips(leg1, pips), factor),
             tick)
=============================================================================
