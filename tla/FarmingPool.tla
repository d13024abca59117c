------------------------------ MODULE FarmingPool ---------------------------
(***************************************************************************)
(* A farming config on the LP tokens of a constant product pool: rate-poolv2  *)
(* reads the prices off the pool, redeem-logic-farming tells from two of them   *)
(* what the pool has earned.  The pool is another project's program; here it   *)
(* does whatever such a pool may.                                            *)
(***************************************************************************)
EXTENDS RatePoolv2, DecimalSqrt

Farming == INSTANCE RedeemLogicFarming

\* Somebody swaps one token for the other, at no better than the pool's price: the product
\* of what the pool holds never falls.
Trades(old, new) ==
  /\ new.lp = old.lp
  /\ (new.base - old.base) * (new.quote - old.quote) < 0
  /\ new.base * new.quote >= old.base * old.quote

\* Somebody adds liquidity or removes some, at no better than the pool's proportions: what
\* one LP token stands for never falls.  A pool that was emptied is not seeded again.
ChangesLiquidity(old, new) ==
  /\ old.lp > 0 /\ new.lp # old.lp
  /\ new.base * old.lp >= old.base * new.lp
  /\ new.quote * old.lp >= old.quote * new.lp

ConstantProduct(old, new) == Trades(old, new) \/ ChangesLiquidity(old, new)

----------------------------------------------------------------------------

\* The root of two prices is no greater than the greater one but for its rounding.
RootBound(a, b) ==
  LET greater == Farming!Greater(a, b)
  IN  greater + 2 + SCALE \div (2 * greater)

\* The roundings of four prices, of the root of two of them and of the base tokens that an LP
\* token stands for, times the old price of the base token, which they would be divided by.
Rounding(old_lp, old_ul, new_lp, new_ul) ==
  (2 * old_lp - 1)
      * (3 + (2 * SCALE + 2 * old_ul + 1) \div (2 * Farming!Lesser(old_ul, new_ul) - 1))
    + 2 * RootBound(old_ul, new_ul) + 2 * new_lp + 6 * old_ul + 1
    + (6 * old_ul * RootBound(old_ul, new_ul)) \div SCALE

\* What a pool has earned since the rate was refreshed is never negative but for rounding,
\* whatever trades and changes of liquidity came between: what the comment in execute_plugin
\* relies on, when it lets the senior tranche bear a negative one.
EarnedIsNotNegative ==
  \A now \in OwnPrices :
    LET old_lp == fair_value[0]
        old_ul == fair_value[1]
    IN  0 \notin {old_lp, old_ul, now[0], now[1]} =>
          \A il \in Farming!LpIl(old_lp, old_ul, now[1]) :
            4 * old_ul * Farming!Accrued(old_lp, old_ul, now[0], now[1], il)
              >= -Rounding(old_lp, old_ul, now[0], now[1])

=============================================================================
