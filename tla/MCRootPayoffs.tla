----------------------------- MODULE MCRootPayoffs --------------------------
(* The two plugins that take roots: spots on both sides of the strike and at it;    *)
(* LP tokens that are worth what the move of the underlying explains, more and less;      *)
(* moves inside, at and outside the caps; caps that exclude the price itself; both caps    *)
(* negative; a strike and an interest split that initialize does not take.                *)
EXTENDS RedeemLogicPlugins

\* A price whose root is between two decimals that the iteration takes in turn for ever.
NeverSettles == 187

MCRates == {-One, 0, One \div 2, (5 * One) \div 7, One, (10 * One) \div 7, NeverSettles}
MCSecondRates == {0, One \div 2, One, 2 * One}
MCDeposits == {0, 20}

Protection(strike, notional) ==
  [strike |-> strike, notional |-> notional, is_call |-> TRUE, is_linear |-> TRUE,
   is_standard |-> TRUE, interest_split |-> 2 * One, mgmt_fee |-> 0, perf_fee |-> 0,
   fixed_fee_per_tranche |-> 0, cap_low |-> 0, cap_high |-> 0]

Farm(split, cap_low, cap_high) ==
  [Protection(-One, 1) EXCEPT !.interest_split = split, !.cap_low = cap_low,
                              !.cap_high = cap_high]

MCTerms ==
  {Protection(One \div 2, 1), Protection(One, 18), Farm(One, One \div 2, 2 * One),
   Farm(0, (7 * One) \div 10, NeverSettles),
   Farm(One \div 4, 2 * One, 4 * One), Farm(One \div 4, -One, -One \div 2)}
=============================================================================
