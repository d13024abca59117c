------------------------------ MODULE PoolPrices ----------------------------
(***************************************************************************)
(* The arithmetic of rate-poolv2: supplies of tokens with decimal places, and  *)
(* the prices they imply.  A price is an option: {} is none.                  *)
(***************************************************************************)
EXTENDS Decimals

\* SupplyWrapper::to_dec.
to_dec(supply, places) == DecDiv(Dec(supply), Dec(10 ^ places))

\* checked_div: none of a division by zero.
checked_div(a, b) == IF b = 0 THEN {} ELSE {DecDiv(a, b)}

\* Mutant: the value of the quote tokens alone.
lp_prices_one_side(quote_supply, lp_supply) == checked_div(quote_supply, lp_supply)

\* Both sides of the pool are worth the same.
lp_prices(quote_supply, lp_supply) == checked_div(2 * quote_supply, lp_supply)

base_prices(quote_supply, base_supply) == checked_div(quote_supply, base_supply)

\* The results of get_prices, one or none, as a vector whose other entries are zero.
get_prices(base_supply, quote_supply, lp_supply) ==
  {[i \in 0 .. 9 |-> IF i = 0 THEN lp_price ELSE IF i = 1 THEN base_price ELSE 0] :
     lp_price   \in lp_prices(quote_supply, lp_supply),
     base_price \in base_prices(quote_supply, base_supply)}

=============================================================================
