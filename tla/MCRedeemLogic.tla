----------------------------- MODULE MCRedeemLogic --------------------------
(* Six plugins; linear and inverse, call and put, with and without fees; rates that    *)
(* stay, halve, treble and vanish, one of them not dividing evenly, and a negative one;  *)
(* a performance fee that takes the whole gain; a negative strike.                      *)
EXTENDS RedeemLogicPlugins

Half == One \div 2

MCRates == {-Half, 0, Half, One, 3 * One}
MCDeposits == 0 .. 5
MCSecondRates == {0, Half, One, 3 * One}

Term(strike, is_call, is_linear, fee) ==
  [strike |-> strike, notional |-> 4, is_call |-> is_call, is_linear |-> is_linear,
   is_standard |-> is_linear, interest_split |-> One \div 4, mgmt_fee |-> fee,
   perf_fee |-> 4 * fee, fixed_fee_per_tranche |-> IF fee = 0 THEN 0 ELSE 2,
   cap_low |-> 0, cap_high |-> 0]

MCTerms ==
  {Term(-One, TRUE, TRUE, 0)} \cup
  {Term(strike, is_call, is_linear, fee) :
     strike \in {0, One}, is_call \in BOOLEAN, is_linear \in BOOLEAN,
     fee \in {0, One \div 4}}
=============================================================================
