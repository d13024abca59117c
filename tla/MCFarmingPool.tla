---------------------------- MODULE MCFarmingPool ---------------------------
(* The pool of the rate, large enough to trade, and another with mints of other decimals; *)
(* pools without base tokens and without LP tokens; prices that do not divide evenly.     *)
EXTENDS FarmingPool, TLC

CONSTANTS sol_usdc, eth_usdc

MCDecimals ==
     sol_usdc :> [lp_mint |-> 0, base_mint |-> 1, quote_mint |-> 0]
  @@ eth_usdc :> [lp_mint |-> 1, base_mint |-> 0, quote_mint |-> 1]

Empty == [base |-> 0, quote |-> 0, lp |-> 0]
MCPoolAmounts ==
     sol_usdc :> [base : 0 .. 6, quote : 1 .. 6, lp : 1 .. 3] \union {Empty}
  @@ eth_usdc :> {[base |-> 3, quote |-> 20, lp |-> 3], [base |-> 4, quote |-> 15, lp |-> 3],
                  Empty}
=============================================================================
